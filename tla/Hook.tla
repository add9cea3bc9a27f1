-------------------------------- MODULE Hook --------------------------------
(***************************************************************************)
(* The hook greenlane injects into the target (bootstrap.py): a greenlet   *)
(* trace function on the hub's thread, a GC callback that may fire on any  *)
(* thread, one send buffer, and a socket to a collector that may stall or  *)
(* go away.  Several sessions may have their hooks in one process: each    *)
(* chains to the trace function it found when it was installed.            *)
(*                                                                         *)
(* A frame is an event; the frames of one flush go out in order, and a     *)
(* send that fails has passed on some of them and perhaps a piece of the   *)
(* next.  What the socket has carried is kept in `wire`.  A send is a step *)
(* of its own: it lets go of the GIL, so a collection may run meanwhile.   *)
(***************************************************************************)
EXTENDS Integers, Sequences, FiniteSets

CONSTANTS
  Sessions,     \* greenlane sessions that attach to the process
  NoHook,       \* stands for None where a trace function is expected
  FlushFrames,  \* _FLUSH_BYTES: frames in the buffer that force a flush
  GcqLen,       \* maxlen of _gcq
  MaxSwitches,  \* bound: greenlet switches
  MaxPauses     \* bound: GC pauses

ASSUME HookAssumption ==
  /\ NoHook \notin Sessions
  /\ FlushFrames \in Nat \ {0, 1}   \* a hello is less than a flush's worth
  /\ GcqLen \in Nat \ {0}
  /\ MaxSwitches \in Nat /\ MaxPauses \in Nat

VARIABLES
  tracer,    \* the trace function greenlet calls at a switch
  hook,      \* per session "absent", "installed" or "removed"
  prev,      \* per session, the trace function found at its installation
  buf,       \* per session, _buf: frames encoded and not sent
  gcq,       \* per session, _gcq: pauses not encoded yet
  told,      \* per session, all frames encoded so far (history)
  wire,      \* per session, the pieces the socket has carried
  peer,      \* per session, "open" or "closed": the collector's end
  stalled,   \* per session, a send has timed out on a collector still there
  skips,     \* per session, events skipped since its buffer was last known
             \* to be below a flush's worth (history)
  running,   \* the session whose _cb the hub's thread is in, or NoHook
  phase,     \* what that _cb does next: "event", "send", "leave", "lastSend"
  out,       \* the frames a send under way was given
  switches,  \* switches so far
  pauses     \* GC pauses so far

chain == <<tracer, hook, prev>>
hub == <<running, phase, out>>
vars == <<chain, buf, gcq, told, wire, peer, stalled, skips, hub, switches, pauses>>

SwitchFrame(n) == [kind |-> "switch", n |-> n]
GcFrame(n) == [kind |-> "gc", n |-> n]
Hello == [kind |-> "hello", n |-> pauses]   \* header, schemas and meta
GcFrames(q) == [i \in 1..Len(q) |-> GcFrame(q[i])]

Whole(f) == [frame |-> f, whole |-> TRUE]
Piece(f) == [frame |-> f, whole |-> FALSE]
Wholes(b) == [i \in 1..Len(b) |-> Whole(b[i])]

-----------------------------------------------------------------------------
(* _flush: sendall, and the buffer emptied only when all of it went out. *)

\* Everything goes out.
SendAll(s, b) ==
  /\ peer[s] = "open"
  /\ wire' = [wire EXCEPT ![s] = @ \o Wholes(b)]
  /\ buf' = [buf EXCEPT ![s] = << >>]
  /\ UNCHANGED <<peer, stalled>>

\* What a send that fails half way may have passed on.
Parts(b) ==
  {Wholes(SubSeq(b, 1, k)) : k \in 0..(Len(b) - 1)} \cup
  {Append(Wholes(SubSeq(b, 1, k)), Piece(b[k + 1])) : k \in 0..(Len(b) - 1)}

\* The collector is gone, goes in the middle, or does not read for 5 s: the
\* buffer is kept as it is, the part that went out included.
SendFails(s, b) ==
  /\ UNCHANGED buf
  /\ \/ /\ peer[s] = "closed"
        /\ UNCHANGED <<peer, stalled, wire>>
     \/ /\ peer[s] = "open"
        /\ \E p \in Parts(b) : wire' = [wire EXCEPT ![s] = @ \o p]
        /\ \/ peer' = [peer EXCEPT ![s] = "closed"] /\ UNCHANGED stalled
           \/ stalled' = [stalled EXCEPT ![s] = TRUE] /\ UNCHANGED peer

-----------------------------------------------------------------------------
(* The target. A hello frame notes the pauses that came before it. *)

\* remote_exec runs _greenlane_install between two bytecodes of the hub's
\* thread, which may be inside another session's _cb. A failed first flush is
\* ignored; the fresh socket has room for it, so it fails only if nobody is there.
Install(s) ==
  /\ hook[s] = "absent" /\ peer[s] = "open"
  /\ hook' = [hook EXCEPT ![s] = "installed"]
  /\ prev' = [prev EXCEPT ![s] = tracer]
  /\ tracer' = s
  /\ \/ SendAll(s, <<Hello>>)
     \/ /\ peer' = [peer EXCEPT ![s] = "closed"]
        /\ buf' = [buf EXCEPT ![s] = <<Hello>>]
        /\ UNCHANGED <<wire, stalled>>
  /\ told' = [told EXCEPT ![s] = <<Hello>>]
  /\ UNCHANGED <<gcq, skips, hub, switches, pauses>>

\* A greenlet switch with a trace function in force.
Switch ==
  /\ running = NoHook /\ tracer # NoHook
  /\ switches < MaxSwitches
  /\ switches' = switches + 1
  /\ running' = tracer
  /\ UNCHANGED <<chain, buf, gcq, told, wire, peer, stalled, skips, phase, out, pauses>>

\* Mutant of Enqueue: a full queue refuses the new pause.
EnqueueUnlessFull(q, n) == IF Len(q) = GcqLen THEN q ELSE Append(q, n)

\* A full deque drops its oldest entry.
Enqueue(q, n) == Append(IF Len(q) = GcqLen THEN Tail(q) ELSE q, n)

\* The GC callback is registered: from the installation to the teardown.
Listening(s) == hook[s] = "installed" /\ ~(running = s /\ phase = "lastSend")

\* Mutant of Pause: the callback encodes by itself.
PauseEncodes ==
  /\ pauses < MaxPauses
  /\ pauses' = pauses + 1
  /\ LET With(f) == [s \in Sessions |->
                       IF Listening(s) THEN Append(f[s], GcFrame(pauses + 1)) ELSE f[s]]
     IN  buf' = With(buf) /\ told' = With(told)
  /\ UNCHANGED <<chain, gcq, wire, peer, stalled, skips, hub, switches>>

\* A collection, on any thread and at any time: _gc_cb only queues.
Pause ==
  /\ pauses < MaxPauses
  /\ pauses' = pauses + 1
  /\ gcq' = [s \in Sessions |-> IF Listening(s) THEN Enqueue(gcq[s], pauses + 1) ELSE gcq[s]]
  /\ UNCHANGED <<chain, buf, told, wire, peer, stalled, skips, hub, switches>>

\* Ctrl-C, POST /detach or a decode error: the collector drops the socket.
Leave(s) ==
  /\ peer[s] = "open"
  /\ peer' = [peer EXCEPT ![s] = "closed"]
  /\ UNCHANGED <<chain, buf, gcq, told, wire, stalled, skips, hub, switches, pauses>>

-----------------------------------------------------------------------------
(* _cb: drain the pauses, encode the switch, flush if it is time, chain. *)

\* What session s encodes at a switch before its own frame, and with it.
Drained(s) == GcFrames(gcq[s])
Event(s) == Append(Drained(s), SwitchFrame(switches))

\* The frames are encoded; the queue is empty.
Encode(s, frames) ==
  /\ told' = [told EXCEPT ![s] = @ \o frames]
  /\ gcq' = [gcq EXCEPT ![s] = << >>]

\* The event raises before its frame is complete (a task id whose str() fails):
\* it is skipped, and so is the flush.
SkipEvent(s) ==
  /\ running = s /\ phase = "event"
  /\ Encode(s, Drained(s))
  /\ buf' = [buf EXCEPT ![s] = @ \o Drained(s)]
  /\ skips' = [skips EXCEPT ![s] = @ + 1]
  /\ running' = prev[s]
  /\ UNCHANGED <<chain, wire, peer, stalled, phase, out, switches, pauses>>

\* A flush is due once the buffer is full, and may be due because of the time.
TraceEvent(s) ==
  /\ running = s /\ phase = "event"
  /\ Encode(s, Event(s))
  /\ LET b == buf[s] \o Event(s)
     IN  /\ buf' = [buf EXCEPT ![s] = b]
         /\ \/ /\ Len(b) < FlushFrames
               /\ skips' = [skips EXCEPT ![s] = 0]
               /\ running' = prev[s] /\ UNCHANGED <<phase, out>>
            \/ phase' = "send" /\ out' = b /\ UNCHANGED <<skips, running>>
  /\ UNCHANGED <<chain, wire, peer, stalled, switches, pauses>>

\* Mutant of Flush: a failed flush is ignored.
FlushNeverLeaves(s) ==
  /\ running = s /\ phase = "send"
  /\ \/ SendAll(s, out) /\ skips' = [skips EXCEPT ![s] = 0]
     \/ SendFails(s, out) /\ UNCHANGED skips
  /\ running' = prev[s] /\ phase' = "event" /\ out' = << >>
  /\ UNCHANGED <<chain, gcq, told, switches, pauses>>

\* The send of _flush comes back; one that failed leads to the teardown.
Flush(s) ==
  /\ running = s /\ phase = "send"
  /\ \/ /\ SendAll(s, out) /\ skips' = [skips EXCEPT ![s] = 0]
        /\ running' = prev[s] /\ phase' = "event"
     \/ /\ SendFails(s, out) /\ phase' = "leave"
        /\ UNCHANGED <<skips, running>>
  /\ out' = << >>
  /\ UNCHANGED <<chain, gcq, told, switches, pauses>>

\* _teardown: no more pauses, and one more flush of the whole buffer begins.
Teardown(s) ==
  /\ running = s /\ phase = "leave"
  /\ Encode(s, Drained(s))
  /\ buf' = [buf EXCEPT ![s] = @ \o Drained(s)]
  /\ phase' = "lastSend" /\ out' = buf[s] \o Drained(s)
  /\ UNCHANGED <<chain, wire, peer, stalled, skips, running, switches, pauses>>

\* Mutant of Uninstall: the trace function stays.
UninstallKeepsTracer(s) ==
  /\ running = s /\ phase = "lastSend"
  /\ SendAll(s, out) \/ SendFails(s, out)
  /\ hook' = [hook EXCEPT ![s] = "removed"]
  /\ running' = prev[s] /\ phase' = "event" /\ out' = << >>
  /\ UNCHANGED <<tracer, prev, gcq, told, skips, switches, pauses>>

\* Its end, however the send went: the socket closed, the trace function found
\* at installation put back.
Uninstall(s) ==
  /\ running = s /\ phase = "lastSend"
  /\ SendAll(s, out) \/ SendFails(s, out)
  /\ hook' = [hook EXCEPT ![s] = "removed"]
  /\ tracer' = prev[s]
  /\ running' = prev[s] /\ phase' = "event" /\ out' = << >>
  /\ UNCHANGED <<prev, gcq, told, skips, switches, pauses>>

-----------------------------------------------------------------------------
Init ==
  /\ tracer = NoHook
  /\ hook = [s \in Sessions |-> "absent"]
  /\ prev = [s \in Sessions |-> NoHook]
  /\ buf = [s \in Sessions |-> << >>]
  /\ gcq = [s \in Sessions |-> << >>]
  /\ told = [s \in Sessions |-> << >>]
  /\ wire = [s \in Sessions |-> << >>]
  /\ peer = [s \in Sessions |-> "open"]
  /\ stalled = [s \in Sessions |-> FALSE]
  /\ skips = [s \in Sessions |-> 0]
  /\ running = NoHook /\ phase = "event" /\ out = << >>
  /\ switches = 0 /\ pauses = 0

Next ==
  \/ Switch \/ Pause
  \/ \E s \in Sessions :
       \/ Install(s) \/ Leave(s) \/ SkipEvent(s) \/ TraceEvent(s)
       \/ Flush(s) \/ Teardown(s) \/ Uninstall(s)

Spec == Init /\ [][Next]_vars

-----------------------------------------------------------------------------
(* Properties. *)

Frame == [kind : {"hello", "switch", "gc"}, n : Nat]
Sent == [frame : Frame, whole : BOOLEAN]

TypeOK ==
  /\ tracer \in Sessions \cup {NoHook}
  /\ hook \in [Sessions -> {"absent", "installed", "removed"}]
  /\ prev \in [Sessions -> Sessions \cup {NoHook}]
  /\ buf \in [Sessions -> Seq(Frame)] /\ told \in [Sessions -> Seq(Frame)]
  /\ gcq \in [Sessions -> Seq(Nat)]
  /\ wire \in [Sessions -> Seq(Sent)]
  /\ peer \in [Sessions -> {"open", "closed"}]
  /\ stalled \in [Sessions -> BOOLEAN]
  /\ skips \in [Sessions -> Nat]
  /\ running \in Sessions \cup {NoHook} /\ out \in Seq(Frame)
  /\ phase \in {"event", "send", "leave", "lastSend"}
  /\ switches \in Nat /\ pauses \in Nat

\* What was sent is a leading part of what was encoded, whole but for a last
\* piece; the rest is in the buffer of whoever still has a listener.
Carried(encoded, sent, kept, listened) ==
  \E k \in 0..Len(encoded) :
    LET front == Wholes(SubSeq(encoded, 1, k))
    IN  \/ /\ sent = front
           /\ listened => kept = SubSeq(encoded, k + 1, Len(encoded))
        \/ ~listened /\ k < Len(encoded) /\ sent = Append(front, Piece(encoded[k + 1]))

\* Once a send has timed out: what was carried before that send, the part of the
\* buffer it passed on, and a part of the same buffer again, or all of it, when
\* the hook has taken itself out; the pauses of the teardown come at its end.
LeadingPart(p, b) ==
  /\ Len(p) <= Len(b)
  /\ \A i \in 1..Len(p) : p[i].frame = b[i] /\ (i < Len(p) => p[i].whole)

Repeats(encoded, sent, gone) ==
  \E k \in 0..Len(encoded) : \E m \in k..Len(sent) :
    LET kept == SubSeq(encoded, k + 1, Len(encoded))
    IN  /\ \A i \in 1..k : sent[i] = Whole(encoded[i])
        /\ LeadingPart(SubSeq(sent, k + 1, m), kept)
        /\ LeadingPart(SubSeq(sent, m + 1, Len(sent)), kept)
        /\ gone \/ m = Len(sent)

\* As long as no send has timed out on a collector that is still there, the
\* socket carries a leading part of what was encoded, with nothing repeated,
\* skipped or moved, whole but for a last piece that nobody reads; and what it
\* has not carried to a listening collector is still in the buffer. After a
\* timeout the last flush of the teardown starts over at the front of that
\* buffer, perhaps in the middle of a frame: once, and nothing comes after it.
StreamExact ==
  \A s \in Sessions :
    IF stalled[s] THEN Repeats(told[s], wire[s], hook[s] = "removed")
                  ELSE Carried(told[s], wire[s], buf[s], peer[s] = "open")

Gcs(encoded) == {i \in 1..Len(encoded) : encoded[i].kind = "gc"}

\* Every pause is encoded or queued once, in order, and of those since the hello
\* frame, up to pause p, the last GcqLen are there.
PausesKept(encoded, queue, p) ==
  /\ \A i, j \in Gcs(encoded) : i < j => encoded[i].n < encoded[j].n
  /\ \A i \in Gcs(encoded), j \in 1..Len(queue) : encoded[i].n < queue[j]
  /\ \A i, j \in 1..Len(queue) : i < j => queue[i] < queue[j]
  /\ \A n \in (encoded[1].n + 1)..p : n + GcqLen > p =>
       \/ \E i \in Gcs(encoded) : encoded[i].n = n
       \/ \E j \in 1..Len(queue) : queue[j] = n

\* Pauses are encoded at most once and in order, whatever threads they fire on,
\* and one is lost only if GcqLen later ones came before the next switch.
GcExact ==
  \A s \in Sessions : Listening(s) => PausesKept(told[s], gcq[s], pauses)

\* What a hook keeps in the target's memory is bounded, whoever reads it or does
\* not: its queue by the queue's length; its buffer, whatever frames are in it, by
\* a flush's worth and one queue for each event skipped in a row since, as long as
\* no flush of its own is under way, and by two queues more in the middle of its
\* last one. A hook greenlane has abandoned takes itself out instead of growing.
BufferBounded ==
  \A s \in Sessions : hook[s] = "installed" =>
    /\ Len(gcq[s]) <= GcqLen
    /\ running # s \/ phase = "event" => Len(buf[s]) < FlushFrames + skips[s] * GcqLen
    /\ Len(buf[s]) <= FlushFrames + (skips[s] + 2) * GcqLen

\* Once every session that came has gone, the target is as they found it.
LeftAsFound ==
  (\A s \in Sessions : hook[s] # "installed") => tracer = NoHook

\* The hooks a switch calls, one chaining to the next.
Called[n \in Nat] ==
  IF n = 0 THEN {tracer}
  ELSE Called[n - 1] \cup {prev[s] : s \in Called[n - 1] \ {NoHook}}

\* What the comment on _teardown says: "remove ourselves so the target stops
\* paying the trace cost", i.e. the other sessions' hooks go on being called.
RemovesOnlyItself ==
  \A s \in Sessions : hook[s] = "installed" => s \in Called[Cardinality(Sessions)]
=============================================================================
