------------------------------ MODULE Collector -------------------------------
(***************************************************************************)
(* The collector thread (read_executions of main.rs): it reads the socket  *)
(* the target writes to, decodes frames, closes one execution per interval *)
(* between two switches of a thread, batches executions and GC pauses for  *)
(* the DB thread, and stops for four reasons without ever failing.         *)
(*                                                                         *)
(* The stream is the list of frames the target has put into the socket.    *)
(* `arrived` counts those read into the buffer, `decoded` those turned     *)
(* into items; half a frame stays in the buffer until the rest arrives, so *)
(* it does not count.  A switch names its target; here targets are told    *)
(* apart by the place of their switch in the stream.                       *)
(***************************************************************************)
EXTENDS Integers, Sequences, FiniteSets, SequencesExt

CONSTANTS
  Threads,    \* hub threads of the target that stream over the one socket
  Steps,      \* by how much a thread's clock may advance between two switches
  Batch,      \* BATCH: rows (or pauses) that force a hand-over
  MaxFrames   \* bound: frames in one session

ASSUME CollectorAssumption ==
  /\ Steps \subseteq Nat
  /\ Batch \in Nat \ {0}
  /\ MaxFrames \in Nat

VARIABLES
  stream,     \* frames the target has sent
  ended,      \* "open", or how the target's side went: "eof", "reset"
  stopAsked,  \* running is false or detached is true
  pc,         \* "top", "drain" and "read" of the loop, then "finish", "stopped"
  arrived,    \* frames read from the socket
  decoded,    \* frames decoded
  cur,        \* per thread, the greenlet running since its last switch
  lastTs,     \* per thread, the time of its last switch
  pending,    \* executions closed, not handed over
  pendingGc,  \* GC pauses decoded, not handed over
  epoch,      \* the meta frame has told the DB handle the epoch
  toDb        \* commands sent to the DB thread

source == <<stream, ended, stopAsked>>
vars == <<stream, ended, stopAsked, pc, arrived, decoded, cur, lastTs,
          pending, pendingGc, epoch, toDb>>

NotRunning == [target |-> 0, start |-> 0]
Monus(a, b) == IF a >= b THEN a - b ELSE 0

-----------------------------------------------------------------------------
(* The other end of the socket, and whoever stops the session. *)

Switch(th, ts) == [kind |-> "switch", thread |-> th, ts |-> ts, target |-> Len(stream) + 1]
Gc == [kind |-> "gc", id |-> Len(stream) + 1]
Meta == [kind |-> "meta"]
Bad == [kind |-> "bad"]   \* a frame the decoder rejects

IsSwitchOf(f, th) == f.kind = "switch" /\ f.thread = th
Corrupt == \E i \in 1..Len(stream) : stream[i].kind = "bad"

\* The clock of a thread: its switches are stamped in order.
ClockOf(th) ==
  LET ks == {i \in 1..Len(stream) : IsSwitchOf(stream[i], th)}
  IN  IF ks = {} THEN 0 ELSE stream[CHOOSE i \in ks : \A j \in ks : j <= i].ts

\* The meta frame comes before any event. A collector that has stopped has
\* closed its end, so nothing more can be sent.
Send ==
  /\ ended = "open" /\ pc # "stopped"
  /\ ~Corrupt
  /\ Len(stream) < MaxFrames
  /\ \E f \in IF stream = << >> THEN {Meta}
              ELSE {Gc, Bad} \cup {Switch(th, ClockOf(th) + d) : th \in Threads, d \in Steps} :
       stream' = Append(stream, f)
  /\ UNCHANGED <<ended, stopAsked, pc, arrived, decoded, cur, lastTs, pending,
                 pendingGc, epoch, toDb>>

\* The target closes the socket or dies.
Close ==
  /\ ended = "open" /\ pc # "stopped"
  /\ ended' \in {"eof", "reset"}
  /\ UNCHANGED <<stream, stopAsked, pc, arrived, decoded, cur, lastTs, pending,
                 pendingGc, epoch, toDb>>

\* Ctrl-C, the end of the server, or POST /detach.
AskStop ==
  /\ ~stopAsked
  /\ stopAsked' = TRUE
  /\ UNCHANGED <<stream, ended, pc, arrived, decoded, cur, lastTs, pending,
                 pendingGc, epoch, toDb>>

-----------------------------------------------------------------------------
(* Handing over to the DB thread. *)

Executions(rows) == [kind |-> "executions", items |-> rows]
Pauses(gcs) == [kind |-> "gc", items |-> gcs]

\* Empty batches are not sent.
HandOver(rows, gcs) ==
  toDb' = toDb \o (IF rows = << >> THEN << >> ELSE <<Executions(rows)>>)
               \o (IF gcs = << >> THEN << >> ELSE <<Pauses(gcs)>>)

FlushBoth ==
  /\ HandOver(pending, pendingGc)
  /\ pending' = << >> /\ pendingGc' = << >>

-----------------------------------------------------------------------------
(* The loop. *)

Top ==
  /\ pc = "top"
  /\ pc' = IF stopAsked THEN "finish" ELSE "drain"
  /\ UNCHANGED <<source, arrived, decoded, cur, lastTs, pending, pendingGc, epoch, toDb>>

\* The execution a switch closes: none at the thread's first switch.
Closed(f) ==
  LET open == cur[f.thread]
  IN  IF open = NotRunning THEN << >>
      ELSE <<[gid |-> open.target, start |-> open.start, dur |-> Monus(f.ts, open.start)]>>

\* Mutant of SwitchIn: one running greenlet for all threads.
SwitchInSingleSlot(f) ==
  cur' = [th \in Threads |-> [target |-> f.target, start |-> f.ts]]

SwitchIn(f) == cur' = [cur EXCEPT ![f.thread] = [target |-> f.target, start |-> f.ts]]

DecodeSwitch(f) ==
  LET rows == pending \o Closed(f)
  IN  /\ lastTs' = [lastTs EXCEPT ![f.thread] = f.ts]
      /\ SwitchIn(f)
      /\ IF Len(rows) >= Batch
         THEN HandOver(rows, << >>) /\ pending' = << >>
         ELSE pending' = rows /\ UNCHANGED toDb
      /\ UNCHANGED <<pc, pendingGc, epoch>>

\* Mutant of DecodeGc: a full batch is taken before the new pause joins it.
DecodeGcDropsFull(f) ==
  LET gcs == Append(pendingGc, f.id)
  IN  /\ IF Len(gcs) >= Batch
         THEN HandOver(<< >>, pendingGc) /\ pendingGc' = << >>
         ELSE pendingGc' = gcs /\ UNCHANGED toDb
      /\ UNCHANGED <<pc, cur, lastTs, pending, epoch>>

DecodeGc(f) ==
  LET gcs == Append(pendingGc, f.id)
  IN  /\ IF Len(gcs) >= Batch
         THEN HandOver(<< >>, gcs) /\ pendingGc' = << >>
         ELSE pendingGc' = gcs /\ UNCHANGED toDb
      /\ UNCHANGED <<pc, cur, lastTs, pending, epoch>>

\* One frame of the buffer; a frame that does not decode ends the session.
Decode ==
  /\ pc = "drain" /\ decoded < arrived
  /\ LET f == stream[decoded + 1]
     IN  \/ f.kind = "switch" /\ DecodeSwitch(f) /\ decoded' = decoded + 1
         \/ f.kind = "gc" /\ DecodeGc(f) /\ decoded' = decoded + 1
         \/ /\ f.kind = "meta" /\ epoch' = TRUE /\ decoded' = decoded + 1
            /\ UNCHANGED <<pc, cur, lastTs, pending, pendingGc, toDb>>
         \/ /\ f.kind = "bad" /\ pc' = "finish"
            /\ UNCHANGED <<decoded, cur, lastTs, pending, pendingGc, epoch, toDb>>
  /\ UNCHANGED <<source, arrived>>

\* Mutant of TimedFlush: what is pending waits for a read that times out.
TimedFlushNever ==
  /\ pc = "drain" /\ decoded = arrived
  /\ pc' = "read"
  /\ UNCHANGED <<source, arrived, decoded, cur, lastTs, pending, pendingGc, epoch, toDb>>

\* The buffer is drained; if FLUSH_INTERVAL has passed, hand over what there is.
TimedFlush ==
  /\ pc = "drain" /\ decoded = arrived
  /\ FlushBoth \/ UNCHANGED <<pending, pendingGc, toDb>>
  /\ pc' = "read"
  /\ UNCHANGED <<source, arrived, decoded, cur, lastTs, epoch>>

\* Some bytes: whole frames, or, while the target lives, only a piece of the next
\* one. A peer that trickles keeps the read from ever timing out.
ReadSome ==
  /\ pc = "read"
  /\ \E n \in arrived..Len(stream) : (n = arrived => ended = "open") /\ arrived' = n
  /\ pc' = "top"
  /\ UNCHANGED <<source, decoded, cur, lastTs, pending, pendingGc, epoch, toDb>>

\* Mutant of ReadIdle: the read has no timeout.
ReadIdleBlocks ==
  /\ pc = "read" /\ arrived < Len(stream)
  /\ FlushBoth
  /\ pc' = "top"
  /\ UNCHANGED <<source, arrived, decoded, cur, lastTs, epoch>>

\* The read times out: hand over what there is.
ReadIdle ==
  /\ pc = "read" /\ arrived = Len(stream) /\ ended = "open"
  /\ FlushBoth
  /\ pc' = "top"
  /\ UNCHANGED <<source, arrived, decoded, cur, lastTs, epoch>>

\* End of stream after all its bytes, or an error, which may hide the last ones.
ReadEnd ==
  /\ pc = "read"
  /\ (ended = "eof" /\ arrived = Len(stream)) \/ ended = "reset"
  /\ pc' = "finish"
  /\ UNCHANGED <<source, arrived, decoded, cur, lastTs, pending, pendingGc, epoch, toDb>>

\* Mutant of StillOpen: closes open intervals at the last switch of any thread.
StillOpenAtGlobalEnd ==
  LET end == CHOOSE t \in {lastTs[th] : th \in Threads} : \A th \in Threads : lastTs[th] <= t
  IN  {[gid |-> cur[th].target, start |-> cur[th].start, dur |-> Monus(end, cur[th].start)]
         : th \in {h \in Threads : cur[h] # NotRunning /\ Monus(end, cur[h].start) > 0}}

\* What the end of the session closes: each thread's open interval at that
\* thread's last switch, unless that has no length.
StillOpen ==
  {[gid |-> cur[th].target, start |-> cur[th].start, dur |-> Monus(lastTs[th], cur[th].start)]
     : th \in {h \in Threads : cur[h] # NotRunning /\ Monus(lastTs[h], cur[h].start) > 0}}

\* Mutant of Finish: the last partial batch of executions is forgotten.
FinishWithoutFlush ==
  /\ pc = "finish"
  /\ HandOver(<< >>, pendingGc)
  /\ pendingGc' = << >>
  /\ cur' = [th \in Threads |-> NotRunning]
  /\ pc' = "stopped"
  /\ UNCHANGED <<source, arrived, decoded, lastTs, pending, epoch>>

\* The hash map is drained in no particular order.
Finish ==
  /\ pc = "finish"
  /\ \E tail \in SetToSeqs(StillOpen) : HandOver(pending \o tail, pendingGc)
  /\ pending' = << >> /\ pendingGc' = << >>
  /\ cur' = [th \in Threads |-> NotRunning]
  /\ pc' = "stopped"
  /\ UNCHANGED <<source, arrived, decoded, lastTs, epoch>>

-----------------------------------------------------------------------------
Init ==
  /\ stream = << >> /\ ended = "open" /\ stopAsked = FALSE
  /\ pc = "top" /\ arrived = 0 /\ decoded = 0
  /\ cur = [th \in Threads |-> NotRunning]
  /\ lastTs = [th \in Threads |-> 0]
  /\ pending = << >> /\ pendingGc = << >>
  /\ epoch = FALSE
  /\ toDb = << >>

Step == Top \/ Decode \/ TimedFlush \/ ReadSome \/ ReadIdle \/ ReadEnd \/ Finish

Next == Send \/ Close \/ AskStop \/ Step

Spec == Init /\ [][Next]_vars

-----------------------------------------------------------------------------
(* Properties. *)

Frame ==
  {Meta, Bad}
    \cup [kind : {"gc"}, id : 1..MaxFrames]
    \cup [kind : {"switch"}, thread : Threads, ts : Nat, target : 1..MaxFrames]
Execution == [gid : 1..MaxFrames, start : Nat, dur : Nat]
Command ==
  [kind : {"executions"}, items : Seq(Execution)]
    \cup [kind : {"gc"}, items : Seq(1..MaxFrames)]

TypeOK ==
  /\ stream \in Seq(Frame) /\ Len(stream) <= MaxFrames
  /\ ended \in {"open", "eof", "reset"}
  /\ stopAsked \in BOOLEAN /\ epoch \in BOOLEAN
  /\ pc \in {"top", "drain", "read", "finish", "stopped"}
  /\ decoded \in Nat /\ arrived \in Nat
  /\ decoded <= arrived /\ arrived <= Len(stream)
  /\ cur \in [Threads -> {NotRunning} \cup [target : 1..MaxFrames, start : Nat]]
  /\ lastTs \in [Threads -> Nat]
  /\ pending \in Seq(Execution)
  /\ pendingGc \in Seq(1..MaxFrames)
  /\ toDb \in Seq(Command)

\* The reference: switch j closes the interval its thread's previous switch
\* opened, and the rows come in the order of the switches that close them.
Earlier(j) == {i \in 1..(j - 1) : IsSwitchOf(stream[i], stream[j].thread)}
RowOf(j) ==
  LET i == CHOOSE i \in Earlier(j) : \A k \in Earlier(j) : k <= i
  IN  [gid |-> stream[i].target, start |-> stream[i].ts, dur |-> stream[j].ts - stream[i].ts]
Closers == {j \in 1..decoded : stream[j].kind = "switch" /\ Earlier(j) # {}}
GcPlaces == {j \in 1..decoded : stream[j].kind = "gc"}

\* One entry per place, in the order of the places.
InPlace(seq, places, Entry(_)) ==
  /\ Len(seq) = Cardinality(places)
  /\ \A j \in places : seq[Cardinality({i \in places : i <= j})] = Entry(j)

\* When the thread has stopped, for whatever reason, all it had decoded is in
\* the DB thread's hands.
StopKeepsDecoded == pc = "stopped" => pending = << >> /\ pendingGc = << >>

\* The thread ends once it is told to, or once the stream is over: those who
\* join it (serve_mode, record_to_file) do not wait for ever.
StopIsHonoured == stopAsked \/ ended # "open" ~> pc = "stopped"

\* The interval a thread has open always begins at that thread's last switch,
\* so the loop that ends a session never finds one with a length: the last
\* execution of each thread is not recorded.
EndClosesNothing == \A th \in Threads : cur[th] # NotRunning => cur[th].start = lastTs[th]
=============================================================================
