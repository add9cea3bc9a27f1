------------------------------- MODULE Session -------------------------------
(***************************************************************************)
(* One `greenlane attach` from start to exit (attach of main.rs): the      *)
(* set-up in the private directory, the wait for the target, then either   *)
(* the viewer (serve_mode) or the plain recording (record_to_file), the    *)
(* stop on Ctrl-C or at the end of the stream, and the last flush.         *)
(*                                                                         *)
(* Five kinds of threads run: main, the collector, the recorder (--serve   *)
(* --out only), the /proc sampler and the server's tasks.  They share      *)
(* `running`, `detached` and the DB handle.  What the collector does to    *)
(* frames is the module Collector's, what a seal does to the file the      *)
(* module Recording's: here a row is a number, `handed` counts the rows    *)
(* given to the DB thread and `sealed` those in the recording.  A round    *)
(* trip to the DB thread is one step: the channel is first in, first out.  *)
(***************************************************************************)
EXTENDS Integers, Sequences, FiniteSets

CONSTANTS
  Samplers,    \* sampler threads there could be
  MaxRows,     \* bound: rows the target sends
  MaxSamples   \* bound: samples taken

ASSUME SessionAssumption ==
  /\ IsFiniteSet(Samplers)
  /\ MaxRows \in Nat
  /\ MaxSamples \in Nat

VARIABLES
  mode,        \* the command line: --serve, --out
  pc,          \* where the main thread is
  result,      \* what serve_mode or record_to_file came back with
  exit,        \* "none", then how the process ended: "ok", "error", "killed"
  dir,         \* the private directory exists
  armed,       \* the Ctrl-C handler is installed
  running,     \* the flag the handler clears
  detached,    \* the flag POST /detach sets
  script,      \* the target has been given the bootstrap to run
  target,      \* the target's end of the socket: "away", "connected", "closed"
  sent,        \* rows the target has sent
  collector,   \* "none", "start", "top", "busy", "leaving", "done", "failed"
  decoded,     \* rows the collector has decoded
  handed,      \* rows handed over to the DB thread
  sealed,      \* rows in the recording
  recorder,    \* "none", "check", "awake", "done"
  tasked,      \* sampler_started
  sampler,     \* per thread: "none", "check", "asleep", "read", "done"
  tag,         \* per sampler thread: the span it has read for its sample
  samples,     \* the samples at the DB thread, by their tags
  sealedSamples \* samples in the recording

flags == <<armed, running, detached>>
targetVars == <<script, target, sent>>
rowVars == <<decoded, handed, sealed>>
samplerVars == <<tasked, sampler, tag, samples>>
threads == <<collector, recorder, decoded, handed, samplerVars>>
vars == <<mode, pc, result, exit, dir, armed, running, detached, script, target,
          sent, collector, decoded, handed, sealed, recorder, tasked, sampler,
          tag, samples, sealedSamples>>

Setup == {"start", "mkdir", "bind", "arm", "bootstrap", "inject", "accept", "spawnDb"}
Working == {"serveBind", "serving", "watch", "joinCollector", "joinRecorder"}
Closing == {"cleanup", "result", "lastFlush", "flushed"}

\* --out always wins; without --serve there is always a recording (out_path).
Recorded == mode.out \/ ~mode.serve

Alive == exit = "none"

\* The process ends: its threads go with it.
Leave(how) == exit' = how

-----------------------------------------------------------------------------
(* The main thread. *)

Goto(from, to) == pc = from /\ pc' = to

\* `?` in attach before the session proper: the directory stays behind.
Fail(at) ==
  /\ pc = at
  /\ Leave("error")
  /\ UNCHANGED <<mode, pc, result, dir, flags, targetVars, threads, sealed, sealedSamples>>

\* ensure_pid_exists: only a missing or invalid process stops here.
EnsurePid ==
  /\ Goto("start", "mkdir")
  /\ UNCHANGED <<mode, result, exit, dir, flags, targetVars, threads, sealed, sealedSamples>>

\* make_private_dir; setting its permissions may fail after it was created.
MakePrivateDir ==
  /\ dir' = TRUE
  /\ \/ Goto("mkdir", "bind") /\ UNCHANGED exit
     \/ pc = "mkdir" /\ Leave("error") /\ UNCHANGED pc
  /\ UNCHANGED <<mode, result, flags, targetVars, threads, sealed, sealedSamples>>

Bind ==
  /\ Goto("bind", "arm")
  /\ UNCHANGED <<mode, result, exit, dir, flags, targetVars, threads, sealed, sealedSamples>>

SetHandler ==
  /\ Goto("arm", "bootstrap")
  /\ armed' = TRUE
  /\ UNCHANGED <<mode, result, exit, dir, running, detached, targetVars, threads, sealed, sealedSamples>>

\* With --no-inject the user loads the script: it may run from now on.
WriteBootstrap ==
  /\ \/ Goto("bootstrap", "inject") /\ UNCHANGED script
     \/ Goto("bootstrap", "accept") /\ script' = TRUE
  /\ UNCHANGED <<mode, result, exit, dir, flags, target, sent, threads, sealed, sealedSamples>>

Inject ==
  /\ Goto("inject", "accept")
  /\ script' = TRUE
  /\ UNCHANGED <<mode, result, exit, dir, flags, target, sent, threads, sealed, sealedSamples>>

\* Aborted while waiting: clean up and leave; there is nothing to record.
AcceptAborted ==
  /\ pc = "accept" /\ ~running
  /\ dir' = FALSE
  /\ Leave("ok")
  /\ UNCHANGED <<mode, pc, result, flags, targetVars, threads, sealed, sealedSamples>>

\* A connection may wait in the backlog, its sender already gone. `running` is
\* read before the poll, so it may be cleared in between.
Accept ==
  /\ target # "away"
  /\ Goto("accept", "spawnDb")
  /\ UNCHANGED <<mode, result, exit, dir, flags, targetVars, threads, sealed, sealedSamples>>

\* Db::spawn, then the mode's threads. Only the viewer's session can be detached.
StartSession ==
  /\ Goto("spawnDb", IF mode.serve THEN "serveBind" ELSE "watch")
  /\ collector' = "start"
  /\ recorder' = IF mode.serve /\ mode.out THEN "check" ELSE "none"
  /\ UNCHANGED <<mode, result, exit, dir, flags, targetVars, decoded, handed, samplerVars, sealed, sealedSamples>>

\* The runtime starts and the server listens, or `?` leaves serve_mode with
\* `running` still up and the threads going.
ServeBind ==
  /\ \/ Goto("serveBind", "serving") /\ UNCHANGED result
     \/ Goto("serveBind", "cleanup") /\ result' = "error"
  /\ UNCHANGED <<mode, exit, dir, flags, targetVars, threads, sealed, sealedSamples>>

\* The shutdown future sees `running` down; the store repeats it.
ServeStops ==
  /\ ~running
  /\ Goto("serving", "joinCollector")
  /\ running' = FALSE
  /\ UNCHANGED <<mode, result, exit, dir, armed, detached, targetVars, threads, sealed, sealedSamples>>

CollectorGone == collector \in {"done", "failed"}

\* Mutant of WatchEnds: waits for Ctrl-C only.
WatchEndsOnCtrlC ==
  /\ ~running
  /\ Goto("watch", "joinCollector")
  /\ running' = FALSE
  /\ UNCHANGED <<mode, result, exit, dir, armed, detached, targetVars, threads, sealed, sealedSamples>>

\* record_to_file's loop ends at Ctrl-C or when the collector has finished.
WatchEnds ==
  /\ ~running \/ CollectorGone
  /\ Goto("watch", "joinCollector")
  /\ running' = FALSE
  /\ UNCHANGED <<mode, result, exit, dir, armed, detached, targetVars, threads, sealed, sealedSamples>>

\* flush_to_file: everything handed over is sealed, or the flush fails.
FlushToFile == sealed' = handed /\ sealedSamples' = Len(samples)

\* A partial flush every RECORD_REPORT_INTERVAL; a failed one is only logged.
WatchFlush ==
  /\ pc = "watch"
  /\ FlushToFile
  /\ UNCHANGED <<mode, pc, result, exit, dir, flags, targetVars, threads>>

\* Mutant of JoinCollector: does not wait.
JoinCollectorAtOnce ==
  /\ Goto("joinCollector", "joinRecorder")
  /\ UNCHANGED <<mode, result, exit, dir, flags, targetVars, threads, sealed, sealedSamples>>

\* Only record_to_file reports the collector's result.
JoinCollector ==
  /\ CollectorGone
  /\ Goto("joinCollector", "joinRecorder")
  /\ result' = IF collector = "failed" /\ ~mode.serve THEN "error" ELSE result
  /\ UNCHANGED <<mode, exit, dir, flags, targetVars, threads, sealed, sealedSamples>>

JoinRecorder ==
  /\ recorder \in {"none", "done"}
  /\ Goto("joinRecorder", "cleanup")
  /\ UNCHANGED <<mode, result, exit, dir, flags, targetVars, threads, sealed, sealedSamples>>

\* Mutant of Cleanup: `result?` comes first.
CleanupAfterResult ==
  /\ Goto("cleanup", "result")
  /\ dir' = (result = "error")
  /\ UNCHANGED <<mode, result, exit, flags, targetVars, threads, sealed, sealedSamples>>

Cleanup ==
  /\ Goto("cleanup", "result")
  /\ dir' = FALSE
  /\ UNCHANGED <<mode, result, exit, flags, targetVars, threads, sealed, sealedSamples>>

\* `result?`, and the last flush of a recorded session.
Conclude ==
  /\ \/ result = "error" /\ pc = "result" /\ Leave("error") /\ UNCHANGED pc
     \/ result = "ok" /\ ~Recorded /\ pc = "result" /\ Leave("ok") /\ UNCHANGED pc
     \/ result = "ok" /\ Recorded /\ Goto("result", "lastFlush") /\ UNCHANGED exit
  /\ UNCHANGED <<mode, result, dir, flags, targetVars, threads, sealed, sealedSamples>>

LastFlush ==
  /\ \/ Goto("lastFlush", "flushed") /\ FlushToFile /\ UNCHANGED exit
     \/ pc = "lastFlush" /\ Leave("error") /\ UNCHANGED <<pc, sealed, sealedSamples>>
  /\ UNCHANGED <<mode, result, dir, flags, targetVars, threads>>

\* attach returns and the process exits, the sampler with it.
Return ==
  /\ pc = "flushed"
  /\ Leave("ok")
  /\ UNCHANGED <<mode, pc, result, dir, flags, targetVars, threads, sealed, sealedSamples>>

MainStep ==
  \/ EnsurePid \/ MakePrivateDir \/ Bind \/ SetHandler \/ WriteBootstrap \/ Inject
  \/ AcceptAborted \/ Accept \/ StartSession \/ ServeBind \/ ServeStops \/ WatchEnds
  \/ JoinCollector \/ JoinRecorder \/ Cleanup \/ Conclude \/ LastFlush
  \/ Return

-----------------------------------------------------------------------------
(* The collector, the recorder and the sampler. *)

collectorElse == <<mode, pc, result, exit, dir, flags, targetVars, recorder, sealed, sealedSamples>>

\* set_read_timeout may fail before the loop.
CollectorStarts ==
  /\ collector = "start"
  /\ collector' \in {"top", "failed"}
  /\ UNCHANGED <<collectorElse, decoded, handed, samplerVars>>

CollectorTop ==
  /\ collector = "top"
  /\ collector' = IF running /\ ~detached THEN "busy" ELSE "leaving"
  /\ UNCHANGED <<collectorElse, decoded, handed, samplerVars>>

\* Up to 50 ms in read: a row arrives, or the batch is flushed because of its
\* age or an idle socket.
CollectorRead ==
  /\ collector = "busy"
  /\ collector' = "top"
  /\ \/ decoded < sent /\ decoded' = decoded + 1 /\ UNCHANGED handed
     \/ handed' = decoded /\ UNCHANGED decoded
  /\ UNCHANGED <<collectorElse, samplerVars>>

\* A meta frame names the hub thread (set_tid): the first one starts the
\* sampler, unless the thread cannot be started. Only serve_mode has a sampler.
Fresh == {s \in Samplers : sampler[s] = "none"}
StartSampler ==
  /\ Fresh # {}
  /\ sampler' = [sampler EXCEPT ![CHOOSE s \in Fresh : TRUE] = "check"]

\* Mutant of SetTid: every report of a tid starts a sampler.
SetTidAlways ==
  /\ StartSampler
  /\ tasked' = TRUE

SetTid ==
  /\ ~tasked
  /\ tasked' = TRUE
  /\ StartSampler \/ UNCHANGED sampler

CollectorMeta ==
  /\ collector = "busy" /\ mode.serve
  /\ SetTid
  /\ UNCHANGED <<collectorElse, collector, decoded, handed, tag, samples>>

\* End of stream or a read error, once the target is gone; a corrupt frame, at
\* any time.
CollectorEof ==
  /\ collector = "busy"
  /\ collector' = "leaving"
  /\ UNCHANGED <<collectorElse, decoded, handed, samplerVars>>

\* Mutant of CollectorLeaves: the rows not yet handed over are dropped.
CollectorLeavesAtOnce ==
  /\ collector = "leaving"
  /\ collector' = "done"
  /\ UNCHANGED <<collectorElse, decoded, handed, samplerVars>>

\* The final hand-over; then the socket is closed.
CollectorLeaves ==
  /\ collector = "leaving"
  /\ collector' = "done"
  /\ handed' = decoded
  /\ UNCHANGED <<collectorElse, decoded, samplerVars>>

CollectorStep ==
  \/ CollectorStarts \/ CollectorTop \/ CollectorRead
  \/ CollectorMeta \/ CollectorEof \/ CollectorLeaves

recorderElse == <<mode, pc, result, exit, dir, flags, targetVars, collector, decoded, handed, samplerVars>>

\* Mutant of RecorderTop: a detached session is not recorded any further.
RecorderTopUntilDetach ==
  /\ recorder = "check"
  /\ recorder' = IF running /\ ~detached THEN "awake" ELSE "done"
  /\ UNCHANGED <<recorderElse, sealed, sealedSamples>>

\* The recorder thread of serve_mode: its test, then 200 ms of sleep.
RecorderTop ==
  /\ recorder = "check"
  /\ recorder' = IF running THEN "awake" ELSE "done"
  /\ UNCHANGED <<recorderElse, sealed, sealedSamples>>

\* Awake again: not due, due and sealed, or due and failed.
RecorderFlush ==
  /\ recorder = "awake"
  /\ recorder' = "check"
  /\ FlushToFile
  /\ UNCHANGED recorderElse

RecorderIdles ==
  /\ recorder = "awake"
  /\ recorder' = "check"
  /\ UNCHANGED <<recorderElse, sealed, sealedSamples>>

RecorderStep == RecorderTop \/ RecorderFlush \/ RecorderIdles

samplerElse == <<mode, pc, result, exit, dir, flags, targetVars, collector, recorder, rowVars, tasked, sealedSamples>>

Moves(s, from, to) == sampler[s] = from /\ sampler' = [sampler EXCEPT ![s] = to]

\* Bound: no more than MaxSamples readings.
SamplerTop(s) ==
  /\ Len(samples) < MaxSamples
  /\ Moves(s, "check", IF running THEN "asleep" ELSE "done")
  /\ UNCHANGED <<samplerElse, tag, samples>>

\* A reading of schedstat, tagged with the span of the rows handed over; or no
\* reading, and round again.
SamplerReads(s) ==
  /\ \/ Moves(s, "asleep", "read") /\ tag' = [tag EXCEPT ![s] = handed]
     \/ Moves(s, "asleep", "check") /\ UNCHANGED tag
  /\ UNCHANGED <<samplerElse, samples>>

SamplerSends(s) ==
  /\ Moves(s, "read", "check")
  /\ samples' = Append(samples, tag[s])
  /\ tag' = [tag EXCEPT ![s] = 0]
  /\ UNCHANGED samplerElse

SamplerStep == \E s \in Samplers : SamplerTop(s) \/ SamplerReads(s) \/ SamplerSends(s)

-----------------------------------------------------------------------------
(* The target, the user and the viewer. *)

outsideElse == <<mode, pc, result, dir, armed, threads, sealed, sealedSamples>>

\* The bootstrap runs at the target's next safe point and connects.
TargetConnects ==
  /\ script /\ target = "away"
  /\ target' = "connected"
  /\ UNCHANGED <<outsideElse, exit, running, detached, script, sent>>

TargetSends ==
  /\ target = "connected" /\ ~CollectorGone /\ sent < MaxRows
  /\ sent' = sent + 1
  /\ UNCHANGED <<outsideElse, exit, running, detached, script, target>>

TargetCloses ==
  /\ target = "connected"
  /\ target' = "closed"
  /\ UNCHANGED <<outsideElse, exit, running, detached, script, sent>>

\* Before the handler is installed Ctrl-C ends the process.
CtrlC ==
  /\ IF armed THEN running' = FALSE /\ UNCHANGED exit
              ELSE Leave("killed") /\ UNCHANGED running
  /\ UNCHANGED <<outsideElse, detached, targetVars>>

Detach ==
  /\ pc = "serving"
  /\ detached' = TRUE
  /\ UNCHANGED <<outsideElse, exit, running, targetVars>>

\* SIGKILL: what was in memory is gone, the directory and the file stay.
Kill ==
  /\ Leave("killed")
  /\ collector' = "none" /\ recorder' = "none"
  /\ decoded' = 0 /\ handed' = 0
  /\ tasked' = FALSE
  /\ sampler' = [s \in Samplers |-> "none"] /\ tag' = [s \in Samplers |-> 0]
  /\ samples' = << >>
  /\ UNCHANGED <<mode, pc, result, dir, flags, targetVars, sealed, sealedSamples>>

Outside == TargetConnects \/ TargetSends \/ TargetCloses \/ CtrlC \/ Detach \/ Kill

-----------------------------------------------------------------------------
Init ==
  /\ mode \in [serve : BOOLEAN, out : BOOLEAN]
  /\ pc = "start" /\ result = "ok" /\ exit = "none"
  /\ dir = FALSE
  /\ armed = FALSE /\ running = TRUE /\ detached = FALSE
  /\ script = FALSE /\ target = "away" /\ sent = 0
  /\ collector = "none" /\ recorder = "none"
  /\ decoded = 0 /\ handed = 0 /\ sealed = 0
  /\ tasked = FALSE
  /\ sampler = [s \in Samplers |-> "none"]
  /\ tag = [s \in Samplers |-> 0]
  /\ samples = << >> /\ sealedSamples = 0

Next ==
  /\ Alive
  /\ \/ MainStep \/ WatchFlush
     \/ \E at \in Setup : Fail(at)
     \/ CollectorStep \/ RecorderStep \/ SamplerStep \/ Outside

\* Threads are scheduled, reads time out after 50 ms, sleeps end and the helper
\* interpreter returns. Nothing is assumed of the target or of the user. A
\* flush that is due now and again succeeds now and again.
Fairness ==
  /\ WF_vars(Alive /\ MainStep)
  /\ WF_vars(Alive /\ WatchFlush)
  /\ WF_vars(Alive /\ (CollectorStarts \/ CollectorTop \/ CollectorRead \/ CollectorLeaves))
  /\ WF_vars(Alive /\ RecorderStep)
  /\ SF_vars(Alive /\ RecorderFlush)

Spec == Init /\ [][Next]_vars /\ Fairness

-----------------------------------------------------------------------------
(* Properties. *)

TypeOK ==
  /\ mode \in [serve : BOOLEAN, out : BOOLEAN]
  /\ pc \in Setup \cup Working \cup Closing
  /\ result \in {"ok", "error"} /\ exit \in {"none", "ok", "error", "killed"}
  /\ dir \in BOOLEAN
  /\ armed \in BOOLEAN /\ running \in BOOLEAN /\ detached \in BOOLEAN
  /\ script \in BOOLEAN /\ target \in {"away", "connected", "closed"} /\ sent \in Nat
  /\ collector \in {"none", "start", "top", "busy", "leaving", "done", "failed"}
  /\ recorder \in {"none", "check", "awake", "done"}
  /\ decoded \in Nat /\ handed \in Nat /\ sealed \in Nat
  /\ tasked \in BOOLEAN
  /\ sampler \in [Samplers -> {"none", "check", "asleep", "read", "done"}]
  /\ tag \in [Samplers -> Nat]
  /\ samples \in Seq(Nat) /\ sealedSamples \in Nat

\* A recorded session that ends without an error has every row the collector
\* decoded in the file, whichever of Ctrl-C, /detach and the end of the stream
\* came first, and of the samples all but the one the sampler, which nobody
\* joins, had in its hands at the last flush.
CleanExitComplete ==
  exit = "ok" /\ Recorded /\ collector # "none" =>
    sealed = decoded /\ Len(samples) - sealedSamples \in {0, 1}

\* Once the session has started, no exit but a kill leaves the socket and the
\* bootstrap behind in /tmp, not even one with an error; and no exit without an
\* error does, at whatever point it happens.
DirRemoved ==
  exit = "ok" \/ (exit = "error" /\ collector # "none") => ~dir

\* The samples reach the store in the order of their tags ("in arrival (time)
\* order"): the two steps of one sampler, reading the span and sending, never
\* interleave with those of another.
SamplesInOrder ==
  \A i, j \in 1..Len(samples) : i <= j => samples[i] <= samples[j]

\* Ctrl-C ends the session wherever it stands; so does the end of the stream
\* when nothing is served.
SessionEnds ==
  /\ armed /\ ~running ~> ~Alive
  /\ ~mode.serve /\ CollectorGone ~> ~Alive

\* While a session is recorded, what has been decoded gets into the file without
\* waiting for the end, also after a detach: "a hard kill keeps everything up
\* to the last seal".
SealsCatchUp ==
  \A n \in 1..MaxRows : Recorded /\ decoded >= n ~> sealed >= n \/ ~Alive
=============================================================================
