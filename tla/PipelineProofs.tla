--------------------------- MODULE PipelineProofs ----------------------------
(***************************************************************************)
(* Machine-checked theorems about Collector and about Pipeline, which      *)
(* extends it.  Of the collector: its types, that its last loop never      *)
(* closes anything, and that one that has stopped holds nothing back,      *)
(* however it was stopped.  The pipeline implements it: whatever the       *)
(* handle, the DB thread and the viewers do, the collector in it behaves   *)
(* as module Collector says, so what is proved of the one holds of the     *)
(* other.  Then the four properties of the whole: PipeExact, CountersLead, *)
(* AnswersFresh and OneHubSorted.  The argument follows the rows: AllRows  *)
(* is where they all are, in order; a step of the collector puts what it   *)
(* decoded at the end of it and every other step leaves it as it is.       *)
(***************************************************************************)
EXTENDS Pipeline, SequenceLemmas

-----------------------------------------------------------------------------
(* Typed parts. *)

LEMMA MonusType ==
  ASSUME NEW a \in Nat, NEW b \in Nat
  PROVE  Monus(a, b) \in Nat /\ Monus(a, a) = 0
BY DEF Monus

\* What TypeOK says of the numbers and sequences, one by one.
LEMMA Parts ==
  ASSUME TypeOK
  PROVE  /\ stream \in Seq(Frame) /\ Len(stream) \in Nat
         /\ arrived \in Nat /\ decoded \in Nat
         /\ decoded <= arrived /\ arrived <= Len(stream) /\ Len(stream) <= MaxFrames
         /\ cur \in [Threads -> {NotRunning} \cup [target : 1..MaxFrames, start : Nat]]
         /\ lastTs \in [Threads -> Nat]
         /\ pending \in Seq(Execution) /\ pendingGc \in Seq(1..MaxFrames)
         /\ toDb \in Seq(Command)
         /\ MaxFrames \in Nat
BY CollectorAssumption, LenProperties DEF TypeOK

LEMMA ClockType ==
  ASSUME TypeOK, NEW th \in Threads
  PROVE  ClockOf(th) \in Nat
<1> DEFINE ks == {i \in 1..Len(stream) : IsSwitchOf(stream[i], th)}
           last == CHOOSE i \in ks : \A j \in ks : j <= i
<1>1. CASE ks = {}
  BY <1>1 DEF ClockOf
<1>2. CASE ks # {}
  <2>1. Len(stream) \in Nat /\ ks \in SUBSET (1..Len(stream))
    BY Parts
  <2>2. \E i \in ks : \A j \in ks : j <= i
    <3> HIDE DEF ks
    <3>1. QED  BY <2>1, <1>2, LastPlace
  <2>3. last \in ks
    BY <2>2
  <2>4. stream[last] \in Frame /\ stream[last].kind = "switch"
    BY <2>3, Parts, ElementOfSeq DEF IsSwitchOf
  <2>5. stream[last].ts \in Nat
    BY <2>4 DEF Frame, Meta, Bad
  <2>6. QED  BY <1>2, <2>5 DEF ClockOf
<1>3. QED  BY <1>1, <1>2

\* A new frame is well typed.
LEMMA FrameTypes ==
  ASSUME TypeOK, Len(stream) < MaxFrames
  PROVE  /\ Meta \in Frame /\ Bad \in Frame /\ Gc \in Frame
         /\ \A th \in Threads, d \in Steps : Switch(th, ClockOf(th) + d) \in Frame
<1>1. Len(stream) + 1 \in 1..MaxFrames
  BY Parts
<1>2. \A th \in Threads, d \in Steps : ClockOf(th) + d \in Nat
  BY ClockType, CollectorAssumption
<1>3. QED  BY <1>1, <1>2 DEF Frame, Gc, Switch

\* Handing over well-typed batches keeps the channel well typed.
LEMMA HandOverType ==
  ASSUME TypeOK, NEW rows \in Seq(Execution), NEW gaps \in Seq(1..MaxFrames),
         HandOver(rows, gaps)
  PROVE  toDb' \in Seq(Command)
<1>1. Executions(rows) \in Command /\ Pauses(gaps) \in Command
  BY DEF Executions, Pauses, Command
<1>2. /\ (IF rows = << >> THEN << >> ELSE <<Executions(rows)>>) \in Seq(Command)
      /\ (IF gaps = << >> THEN << >> ELSE <<Pauses(gaps)>>) \in Seq(Command)
  BY <1>1
<1>3. toDb \in Seq(Command)
  BY Parts
<1> DEFINE a == IF rows = << >> THEN << >> ELSE <<Executions(rows)>>
           b == IF gaps = << >> THEN << >> ELSE <<Pauses(gaps)>>
<1>4. toDb' = toDb \o a \o b
  BY DEF HandOver
<1> HIDE DEF a, b
<1>5. QED  BY <1>2, <1>3, <1>4, ConcatProperties DEF a, b

-----------------------------------------------------------------------------
(* The invariant: the types, and what the last loop will find. *)

LEMMA NoneOpen == TypeOK /\ EndClosesNothing => StillOpen = {}
<1> SUFFICES ASSUME TypeOK, EndClosesNothing PROVE StillOpen = {}
  OBVIOUS
<1>1. ASSUME NEW th \in Threads, cur[th] # NotRunning
      PROVE  ~(Monus(lastTs[th], cur[th].start) > 0)
  <2>1. lastTs[th] \in Nat /\ cur[th].start = lastTs[th]
    BY <1>1, Parts DEF EndClosesNothing
  <2>2. QED  BY <2>1 DEF Monus
<1>2. QED  BY <1>1 DEF StillOpen

LEMMA EmptyTail == \A tail \in SetToSeqs({}) : tail = << >>
<1>1. Cardinality({}) = 0
  BY FS_EmptySet
<1>2. ASSUME NEW tail \in SetToSeqs({}) PROVE tail = << >>
  <2>1. tail \in [1..0 -> {}]
    BY <1>1 DEF SetToSeqs
  <2>2. QED  BY <2>1
<1>3. QED  BY <1>2

IInv == TypeOK /\ EndClosesNothing /\ StopKeepsDecoded

LEMMA InitInv == Init => IInv
<1> SUFFICES ASSUME Init PROVE IInv
  OBVIOUS
<1>1. << >> \in Seq(Frame) /\ << >> \in Seq(Execution) /\ << >> \in Seq(1..MaxFrames)
      /\ << >> \in Seq(Command) /\ Len(<< >>) = 0
  OBVIOUS
<1>2. MaxFrames \in Nat /\ 0 \in 0..MaxFrames
  BY CollectorAssumption
<1>3. /\ cur \in [Threads -> {NotRunning} \cup [target : 1..MaxFrames, start : Nat]]
      /\ lastTs \in [Threads -> Nat]
  BY <1>2 DEF Init, NotRunning
<1>4. /\ stream = << >> /\ arrived = 0 /\ decoded = 0 /\ Len(stream) = 0
  BY <1>1 DEF Init
<1>5. decoded <= arrived /\ arrived <= Len(stream) /\ Len(stream) <= MaxFrames
      /\ arrived \in Nat /\ decoded \in Nat
  BY <1>2, <1>4
<1>6. TypeOK
  BY <1>1, <1>3, <1>5, Zenon DEF Init, TypeOK
<1>7. EndClosesNothing
  BY DEF Init, EndClosesNothing
<1>8. StopKeepsDecoded
  BY DEF Init, StopKeepsDecoded
<1>9. QED  BY <1>6, <1>7, <1>8 DEF IInv

\* Steps of the target and of whoever stops the session.
LEMMA SourceStep == TypeOK /\ (Send \/ Close \/ AskStop) => TypeOK'
<1> SUFFICES ASSUME TypeOK, Send \/ Close \/ AskStop PROVE TypeOK'
  OBVIOUS
<1>1. CASE Send
  <2>1. PICK f \in IF stream = << >> THEN {Meta}
                   ELSE {Gc, Bad} \cup {Switch(th, ClockOf(th) + d) : th \in Threads, d \in Steps} :
          stream' = Append(stream, f)
    BY <1>1 DEF Send
  <2>2. f \in Frame
    BY <1>1, <2>1, FrameTypes DEF Send
  <2>3. stream' \in Seq(Frame) /\ Len(stream') = Len(stream) + 1
    BY <2>1, <2>2, Parts, AppendProperties
  <2>4. Len(stream) < MaxFrames /\ arrived' = arrived /\ decoded' = decoded
    BY <1>1 DEF Send
  <2>5. decoded' <= arrived' /\ arrived' <= Len(stream') /\ Len(stream') <= MaxFrames
    BY <2>3, <2>4, Parts
  <2>6. UNCHANGED <<ended, stopAsked, pc, cur, lastTs, pending, pendingGc, epoch, toDb>>
    BY <1>1 DEF Send
  <2>7. arrived' \in Nat /\ decoded' \in Nat
    BY <2>4, Parts
  <2>8. QED  BY <2>3, <2>5, <2>6, <2>7 DEF TypeOK
<1>2. CASE Close
  BY <1>2, Zenon DEF Close, TypeOK
<1>3. CASE AskStop
  BY <1>3, Zenon DEF AskStop, TypeOK
<1>4. QED  BY <1>1, <1>2, <1>3

\* The execution a switch closes is well typed.
LEMMA ClosedType ==
  ASSUME TypeOK, NEW f \in Frame, f.kind = "switch"
  PROVE  f.thread \in Threads /\ f.ts \in Nat /\ f.target \in 1..MaxFrames
         /\ Closed(f) \in Seq(Execution)
<1>1. f.thread \in Threads /\ f.ts \in Nat /\ f.target \in 1..MaxFrames
  BY DEF Frame, Meta, Bad
<1> DEFINE open == cur[f.thread]
<1>2. open \in {NotRunning} \cup [target : 1..MaxFrames, start : Nat]
  BY <1>1, Parts
<1>3. CASE open = NotRunning
  BY <1>1, <1>3 DEF Closed
<1>4. CASE open # NotRunning
  <2>1. open.target \in 1..MaxFrames /\ open.start \in Nat
    BY <1>2, <1>4
  <2>2. Monus(f.ts, open.start) \in Nat
    BY <1>1, <2>1, MonusType
  <2>3. [gid |-> open.target, start |-> open.start, dur |-> Monus(f.ts, open.start)] \in Execution
    BY <2>1, <2>2 DEF Execution
  <2>4. QED  BY <1>1, <1>4, <2>3 DEF Closed
<1>5. QED  BY <1>1, <1>3, <1>4

LEMMA SwitchStep ==
  ASSUME TypeOK, EndClosesNothing, NEW f \in Frame, f.kind = "switch", DecodeSwitch(f)
  PROVE  /\ cur' \in [Threads -> {NotRunning} \cup [target : 1..MaxFrames, start : Nat]]
         /\ lastTs' \in [Threads -> Nat]
         /\ pending' \in Seq(Execution) /\ toDb' \in Seq(Command)
         /\ EndClosesNothing'
<1> DEFINE rows == pending \o Closed(f)
<1>1. f.thread \in Threads /\ f.ts \in Nat /\ f.target \in 1..MaxFrames
  BY ClosedType
<1>2. rows \in Seq(Execution)
  BY ClosedType, Parts, ConcatProperties
<1>3. /\ lastTs' = [lastTs EXCEPT ![f.thread] = f.ts]
      /\ cur' = [cur EXCEPT ![f.thread] = [target |-> f.target, start |-> f.ts]]
  BY DEF DecodeSwitch, SwitchIn
<1>4. /\ cur' \in [Threads -> {NotRunning} \cup [target : 1..MaxFrames, start : Nat]]
      /\ lastTs' \in [Threads -> Nat]
  BY <1>1, <1>3, Parts
<1>5. EndClosesNothing'
  BY <1>1, <1>3, Parts DEF EndClosesNothing
<1>6. pending' \in Seq(Execution) /\ toDb' \in Seq(Command)
  <2>1. CASE HandOver(rows, << >>) /\ pending' = << >>
    <3>1. << >> \in Seq(1..MaxFrames)
      OBVIOUS
    <3> HIDE DEF rows
    <3>2. toDb' \in Seq(Command)
      BY <1>2, <2>1, <3>1, HandOverType
    <3>3. QED  BY <2>1, <3>2
  <2>2. CASE pending' = rows /\ UNCHANGED toDb
    BY <1>2, <2>2, Parts
  <2>3. QED  BY <2>1, <2>2 DEF DecodeSwitch
<1>7. QED  BY <1>4, <1>5, <1>6

LEMMA GcStep ==
  ASSUME TypeOK, NEW f \in Frame, f.kind = "gc", DecodeGc(f)
  PROVE  pendingGc' \in Seq(1..MaxFrames) /\ toDb' \in Seq(Command)
<1> DEFINE gaps == Append(pendingGc, f.id)
<1>1. f.id \in 1..MaxFrames
  BY DEF Frame, Meta, Bad
<1>2. gaps \in Seq(1..MaxFrames) /\ << >> \in Seq(Execution)
  BY <1>1, Parts, AppendProperties
<1>3. CASE HandOver(<< >>, gaps) /\ pendingGc' = << >>
  <2>1. << >> \in Seq(1..MaxFrames)
    OBVIOUS
  <2> HIDE DEF gaps
  <2>2. QED  BY <1>2, <1>3, <2>1, HandOverType
<1>4. CASE pendingGc' = gaps /\ UNCHANGED toDb
  BY <1>2, <1>4, Parts
<1>5. QED  BY <1>3, <1>4 DEF DecodeGc

LEMMA FlushStep ==
  ASSUME TypeOK, FlushBoth
  PROVE  pending' = << >> /\ pendingGc' = << >> /\ toDb' \in Seq(Command)
BY Parts, HandOverType DEF FlushBoth

LEMMA DecodeStep == TypeOK /\ EndClosesNothing /\ Decode => TypeOK' /\ EndClosesNothing'
<1> SUFFICES ASSUME TypeOK, EndClosesNothing, Decode PROVE TypeOK' /\ EndClosesNothing'
  OBVIOUS
<1> DEFINE f == stream[decoded + 1]
<1>1. decoded + 1 \in 1..Len(stream) /\ decoded < arrived /\ decoded + 1 \in Nat
      /\ decoded + 1 <= arrived
  BY Parts DEF Decode
<1>2. f \in Frame
  BY <1>1, Parts, ElementOfSeq
<1>3. UNCHANGED <<stream, ended, stopAsked, arrived>>
  BY DEF Decode, source
<1> HIDE DEF f
<1>4. CASE f.kind = "switch" /\ DecodeSwitch(f) /\ decoded' = decoded + 1
  <2>1. /\ cur' \in [Threads -> {NotRunning} \cup [target : 1..MaxFrames, start : Nat]]
        /\ lastTs' \in [Threads -> Nat]
        /\ pending' \in Seq(Execution) /\ toDb' \in Seq(Command)
        /\ EndClosesNothing'
    BY <1>2, <1>4, SwitchStep
  <2>2. UNCHANGED <<pc, pendingGc, epoch>>
    BY <1>4 DEF DecodeSwitch
  <2>3. decoded' \in Nat /\ decoded' <= arrived
    BY <1>1, <1>4
  <2>4. QED  BY <1>3, <2>1, <2>2, <2>3, Zenon DEF TypeOK
<1>5. CASE f.kind = "gc" /\ DecodeGc(f) /\ decoded' = decoded + 1
  <2>1. pendingGc' \in Seq(1..MaxFrames) /\ toDb' \in Seq(Command)
    BY <1>2, <1>5, GcStep
  <2>2. UNCHANGED <<pc, cur, lastTs, pending, epoch>>
    BY <1>5 DEF DecodeGc
  <2>3. decoded' \in Nat /\ decoded' <= arrived
    BY <1>1, <1>5
  <2>4. QED  BY <1>3, <2>1, <2>2, <2>3, Zenon DEF TypeOK, EndClosesNothing
<1>6. CASE /\ f.kind = "meta" /\ epoch' = TRUE /\ decoded' = decoded + 1
           /\ UNCHANGED <<pc, cur, lastTs, pending, pendingGc, toDb>>
  <2>1. decoded' \in Nat /\ decoded' <= arrived
    BY <1>1, <1>6
  <2>2. QED  BY <1>3, <1>6, <2>1, Zenon DEF TypeOK, EndClosesNothing
<1>7. CASE /\ f.kind = "bad" /\ pc' = "finish"
           /\ UNCHANGED <<decoded, cur, lastTs, pending, pendingGc, epoch, toDb>>
  BY <1>3, <1>7, Zenon DEF TypeOK, EndClosesNothing
<1>8. QED  BY <1>4, <1>5, <1>6, <1>7, Zenon DEF Decode, f

LEMMA FinishStep == TypeOK /\ EndClosesNothing /\ Finish => IInv'
<1> SUFFICES ASSUME TypeOK, EndClosesNothing, Finish PROVE IInv'
  OBVIOUS
<1>1. PICK tail \in SetToSeqs(StillOpen) : HandOver(pending \o tail, pendingGc)
  BY DEF Finish
<1>2. tail = << >>
  BY <1>1, NoneOpen, EmptyTail
<1>3. pending \o tail = pending
  BY <1>2, Parts
<1>4. toDb' \in Seq(Command)
  BY <1>1, <1>3, Parts, HandOverType
<1>5. /\ pending' = << >> /\ pendingGc' = << >> /\ pc' = "stopped"
      /\ cur' = [th \in Threads |-> NotRunning]
      /\ UNCHANGED <<stream, ended, stopAsked, arrived, decoded, lastTs, epoch>>
  BY DEF Finish, source
<1>6. << >> \in Seq(Execution) /\ << >> \in Seq(1..MaxFrames)
  OBVIOUS
<1>7. cur' \in [Threads -> {NotRunning} \cup [target : 1..MaxFrames, start : Nat]]
  BY <1>5
<1>8. TypeOK'
  BY <1>4, <1>5, <1>6, <1>7, Zenon DEF TypeOK
<1>9. EndClosesNothing' /\ StopKeepsDecoded'
  BY <1>5 DEF EndClosesNothing, StopKeepsDecoded
<1>10. QED  BY <1>8, <1>9 DEF IInv

LEMMA NextInv == IInv /\ [Next]_vars => IInv'
<1> SUFFICES ASSUME IInv, [Next]_vars PROVE IInv'
  OBVIOUS
<1> USE DEF source
<1>a. TypeOK /\ EndClosesNothing /\ StopKeepsDecoded
  BY Zenon DEF IInv
\* Steps that leave both what runs and the end of the session alone.
<1>b. ASSUME TypeOK', UNCHANGED <<cur, lastTs>>, pc' # "stopped" PROVE IInv'
  BY <1>a, <1>b, Zenon DEF IInv, EndClosesNothing, StopKeepsDecoded
<1>1. CASE Send \/ Close \/ AskStop
  <2>1. UNCHANGED <<cur, lastTs, pc, pending, pendingGc>>
    BY <1>1 DEF Send, Close, AskStop
  <2>2. TypeOK'
    BY <1>1, <1>a, SourceStep
  <2>3. QED  BY <1>a, <2>1, <2>2, Zenon DEF IInv, EndClosesNothing, StopKeepsDecoded
<1>2. CASE Top
  <2>1. TypeOK'
    BY <1>2, <1>a, Zenon DEF Top, TypeOK
  <2>2. UNCHANGED <<cur, lastTs>> /\ pc' # "stopped"
    BY <1>2, Zenon DEF Top
  <2>3. QED  BY <1>b, <2>1, <2>2
<1>3. CASE Decode
  <2>1. TypeOK' /\ EndClosesNothing'
    BY <1>3, <1>a, DecodeStep
  <2>2. pc' # "stopped"
    BY <1>3 DEF Decode, DecodeSwitch, DecodeGc
  <2>3. QED  BY <2>1, <2>2 DEF IInv, StopKeepsDecoded
<1>4. CASE TimedFlush
  <2>1. pending' \in Seq(Execution) /\ pendingGc' \in Seq(1..MaxFrames) /\ toDb' \in Seq(Command)
    <3>1. CASE FlushBoth
      BY <1>a, <3>1, FlushStep
    <3>2. CASE UNCHANGED <<pending, pendingGc, toDb>>
      BY <1>a, <3>2, Parts
    <3>3. QED  BY <1>4, <3>1, <3>2 DEF TimedFlush
  <2>2. UNCHANGED <<stream, ended, stopAsked, arrived, decoded, cur, lastTs, epoch>> /\ pc' = "read"
    BY <1>4 DEF TimedFlush
  <2>3. TypeOK'
    BY <1>a, <2>1, <2>2, Zenon DEF TypeOK
  <2>4. QED  BY <1>b, <2>2, <2>3
<1>5. CASE ReadSome
  <2>1. PICK n \in arrived..Len(stream) : arrived' = n
    BY <1>5 DEF ReadSome
  <2>2. arrived' \in Nat /\ decoded <= arrived' /\ arrived' <= Len(stream)
    BY <1>a, <2>1, Parts
  <2>3. /\ UNCHANGED <<stream, ended, stopAsked, decoded, cur, lastTs, pending, pendingGc, epoch, toDb>>
        /\ pc' = "top"
    BY <1>5 DEF ReadSome
  <2>4. TypeOK'
    BY <1>a, <2>2, <2>3, Zenon DEF TypeOK
  <2>5. QED  BY <1>b, <2>3, <2>4
<1>6. CASE ReadIdle
  <2>1. /\ UNCHANGED <<stream, ended, stopAsked, arrived, decoded, cur, lastTs, epoch>>
        /\ pc' = "top" /\ FlushBoth
    BY <1>6 DEF ReadIdle
  <2>2. pending' \in Seq(Execution) /\ pendingGc' \in Seq(1..MaxFrames) /\ toDb' \in Seq(Command)
    BY <1>a, <2>1, FlushStep
  <2>3. TypeOK'
    BY <1>a, <2>1, <2>2, Zenon DEF TypeOK
  <2>4. QED  BY <1>b, <2>1, <2>3
<1>7. CASE ReadEnd
  <2>1. TypeOK'
    BY <1>7, <1>a, Zenon DEF ReadEnd, TypeOK
  <2>2. UNCHANGED <<cur, lastTs>> /\ pc' # "stopped"
    BY <1>7, Zenon DEF ReadEnd
  <2>3. QED  BY <1>b, <2>1, <2>2
<1>8. CASE Finish
  BY <1>8, <1>a, FinishStep
<1>9. CASE UNCHANGED vars
  <2>1. TypeOK'
    BY <1>a, <1>9, Zenon DEF vars, TypeOK
  <2>2. UNCHANGED <<cur, lastTs, pc, pending, pendingGc>>
    BY <1>9 DEF vars
  <2>3. QED  BY <1>a, <2>1, <2>2, Zenon DEF IInv, EndClosesNothing, StopKeepsDecoded
<1>10. QED
  BY <1>1, <1>2, <1>3, <1>4, <1>5, <1>6, <1>7, <1>8, <1>9, Zenon DEF Next, Step

LEMMA Invariance == Spec => []IInv
BY InitInv, NextInv, PTL DEF Spec

\* Every reachable state is well typed, for any threads, clocks and batch size.
THEOREM TypeCorrect == Spec => []TypeOK
<1>1. IInv => TypeOK
  BY DEF IInv
<1>2. QED  BY <1>1, Invariance, PTL

\* The interval each thread has open has no length yet, so the loop that closes
\* intervals at the end of a session never yields a row: the last execution of
\* every thread goes unrecorded.
THEOREM LastExecutionUnrecorded == Spec => []EndClosesNothing
<1>1. IInv => EndClosesNothing
  BY DEF IInv
<1>2. QED  BY <1>1, Invariance, PTL

\* A collector that has stopped holds nothing back, whether it was told to, saw
\* the end of the stream, a broken socket or a corrupt frame.
THEOREM StopHoldsNothingBack == Spec => []StopKeepsDecoded
<1>1. IInv => StopKeepsDecoded
  BY DEF IInv
<1>2. QED  BY <1>1, Invariance, PTL

-----------------------------------------------------------------------------
(* Clocks, and what runs on each thread: what makes a row exact. *)

\* The frames of the stream bear the places the target gave them, and the
\* switches of a thread are stamped in order.
Stamped ==
  /\ \A i \in 1..Len(stream) : stream[i].kind = "gc" => stream[i].id = i
  /\ \A i, j \in 1..Len(stream) :
       i < j /\ stream[j].kind = "switch" /\ IsSwitchOf(stream[i], stream[j].thread)
         => stream[i].ts <= stream[j].ts

\* Until the thread stops, what it takes to run is the target of the last switch
\* decoded, or nothing.
Seen(th) == {i \in 1..decoded : IsSwitchOf(stream[i], th)}
RunsSince(th, i) == cur[th] = [target |-> stream[i].target, start |-> stream[i].ts]
CurIsLast ==
  pc # "stopped" =>
    \A th \in Threads :
      /\ Seen(th) = {} => cur[th] = NotRunning
      /\ \A i \in Seen(th) : (\A k \in Seen(th) : k <= i) => RunsSince(th, i)

LEMMA ClockIsLast ==
  ASSUME TypeOK, Stamped, NEW th \in Threads, NEW i \in 1..Len(stream), IsSwitchOf(stream[i], th)
  PROVE  stream[i].ts <= ClockOf(th)
<1> DEFINE ks == {k \in 1..Len(stream) : IsSwitchOf(stream[k], th)}
           last == CHOOSE k \in ks : \A j \in ks : j <= k
<1>1. Len(stream) \in Nat /\ ks \in SUBSET (1..Len(stream)) /\ i \in ks
  BY Parts
<1>2. \E k \in ks : \A j \in ks : j <= k
  <2> HIDE DEF ks
  <2>1. QED  BY <1>1, LastPlace
<1>3. last \in ks /\ i <= last
  BY <1>1, <1>2
<1>4. ClockOf(th) = stream[last].ts
  BY <1>1 DEF ClockOf
<1> HIDE DEF last
<1>5. /\ last \in 1..Len(stream) /\ stream[last].kind = "switch" /\ stream[last].thread = th
      /\ stream[i] \in Frame /\ stream[i].kind = "switch"
  BY <1>3, Parts, ElementOfSeq DEF IsSwitchOf
<1>6. stream[i].ts \in Nat
  BY <1>5 DEF Frame, Meta, Bad
<1>7. CASE i = last
  BY <1>4, <1>6, <1>7
<1>8. CASE i # last
  BY <1>3, <1>4, <1>5, <1>8 DEF Stamped
<1>9. QED  BY <1>7, <1>8

\* A new frame keeps the stamps in order.
LEMMA SendStamped == TypeOK /\ Stamped /\ Send => Stamped'
<1> SUFFICES ASSUME TypeOK, Stamped, Send PROVE Stamped'
  OBVIOUS
<1> DEFINE L == Len(stream)
<1>1. PICK f \in IF stream = << >> THEN {Meta}
                 ELSE {Gc, Bad} \cup {Switch(th, ClockOf(th) + d) : th \in Threads, d \in Steps} :
        stream' = Append(stream, f)
  BY DEF Send
<1>2. f \in Frame /\ L \in Nat
  BY <1>1, FrameTypes, Parts DEF Send
<1>3. /\ Len(stream') = L + 1 /\ stream'[L + 1] = f
      /\ \A i \in 1..L : stream'[i] = stream[i]
  BY <1>1, <1>2, Parts, AppendProperties
<1>4. f.kind = "gc" => f.id = L + 1
  BY <1>1 DEF Gc, Meta, Bad, Switch
<1>5. f.kind = "switch" => \E th \in Threads, d \in Steps : f = Switch(th, ClockOf(th) + d)
  BY <1>1 DEF Gc, Meta, Bad
<1> HIDE DEF L
<1>6. ASSUME NEW i \in 1..(L + 1), stream'[i].kind = "gc" PROVE stream'[i].id = i
  <2>1. CASE i = L + 1
    BY <1>3, <1>4, <1>6, <2>1
  <2>2. CASE i # L + 1
    BY <1>2, <1>3, <1>6, <2>2 DEF Stamped, L
  <2>3. QED  BY <2>1, <2>2
<1>7. ASSUME NEW i \in 1..(L + 1), NEW j \in 1..(L + 1), i < j,
             stream'[j].kind = "switch", IsSwitchOf(stream'[i], stream'[j].thread)
      PROVE  stream'[i].ts <= stream'[j].ts
  <2>1. i \in 1..L /\ stream'[i] = stream[i]
    BY <1>2, <1>3, <1>7
  <2>2. CASE j = L + 1
    <3>1. PICK th \in Threads, d \in Steps : f = Switch(th, ClockOf(th) + d)
      BY <1>3, <1>5, <1>7, <2>2
    <3>2. stream'[j].thread = th /\ stream'[j].ts = ClockOf(th) + d
      BY <1>3, <2>2, <3>1 DEF Switch
    <3>3. IsSwitchOf(stream[i], th)
      BY <1>7, <2>1, <3>2
    <3>4. stream[i].ts <= ClockOf(th) /\ ClockOf(th) \in Nat /\ d \in Nat
      BY <2>1, <3>3, ClockIsLast, ClockType, CollectorAssumption DEF L
    <3>5. stream[i] \in Frame
      BY <2>1, Parts, ElementOfSeq DEF L
    <3>6. stream[i].ts \in Nat
      BY <3>3, <3>5 DEF Frame, Meta, Bad, IsSwitchOf
    <3>7. QED  BY <2>1, <3>2, <3>4, <3>6
  <2>3. CASE j # L + 1
    <3>1. j \in 1..L /\ stream'[j] = stream[j]
      BY <1>2, <1>3, <2>3
    <3>2. QED  BY <1>7, <2>1, <3>1 DEF Stamped, L
  <2>4. QED  BY <2>2, <2>3
<1>8. QED  BY <1>3, <1>6, <1>7 DEF Stamped

\* A switch decoded becomes the last one of its thread.
LEMMA DecodeCur ==
  ASSUME TypeOK, CurIsLast, Decode, stream[decoded + 1].kind = "switch"
  PROVE  CurIsLast'
<1> DEFINE f == stream[decoded + 1]
           th0 == f.thread
<1>1. decoded + 1 \in 1..Len(stream) /\ decoded \in Nat
  BY Parts DEF Decode
<1>2. f \in Frame
  BY <1>1, Parts, ElementOfSeq
<1>3. stream' = stream /\ decoded' = decoded + 1 /\ pc' = pc /\ pc # "stopped"
      /\ cur' = [cur EXCEPT ![th0] = [target |-> f.target, start |-> f.ts]]
  BY DEF Decode, source, DecodeSwitch, SwitchIn
<1>4. th0 \in Threads
  BY <1>2, ClosedType
<1>5. cur \in [Threads -> {NotRunning} \cup [target : 1..MaxFrames, start : Nat]]
  BY Parts
<1>6. IsSwitchOf(f, th0)
  BY DEF IsSwitchOf
<1>7. stream[decoded + 1] = f
  OBVIOUS
<1>8. \A th \in Threads : Seen(th)' = Seen(th) \cup (IF th = th0 THEN {decoded + 1} ELSE {})
  <2>1. 1..(decoded + 1) = (1..decoded) \cup {decoded + 1}
    BY <1>1
  <2>2. QED  BY <1>3, <2>1 DEF Seen, IsSwitchOf
<1> HIDE DEF f, th0
<1>9. ASSUME NEW th \in Threads
      PROVE  /\ Seen(th)' = {} => cur'[th] = NotRunning
             /\ \A i \in Seen(th)' : (\A k \in Seen(th)' : k <= i) => RunsSince(th, i)'
  <2>1. CASE th = th0
    <3>1. decoded + 1 \in Seen(th)'
      BY <1>8, <2>1
    <3>2. \A i \in Seen(th)' : (\A k \in Seen(th)' : k <= i) => i = decoded + 1
      <4>1. \A i \in Seen(th) : i \in Nat /\ i <= decoded
        BY <1>1 DEF Seen
      <4>2. QED  BY <1>1, <1>8, <3>1, <4>1
    <3>3. cur'[th] = [target |-> stream'[decoded + 1].target, start |-> stream'[decoded + 1].ts]
      BY <1>3, <1>4, <1>5, <1>7, <2>1
    <3>4. ASSUME NEW i \in Seen(th)', \A k \in Seen(th)' : k <= i PROVE RunsSince(th, i)'
      BY <3>2, <3>3, <3>4 DEF RunsSince
    <3>5. QED  BY <3>1, <3>4
  <2>2. CASE th # th0
    <3>1. Seen(th)' = Seen(th) /\ cur'[th] = cur[th]
      BY <1>3, <1>5, <1>8, <2>2
    <3>2. \A i : RunsSince(th, i)' <=> RunsSince(th, i)
      BY <1>3, <3>1 DEF RunsSince
    <3>3. QED  BY <1>3, <3>1, <3>2 DEF CurIsLast
  <2>3. QED  BY <2>1, <2>2
<1>10. QED  BY <1>9 DEF CurIsLast

\* Steps that leave the running greenlets alone.
LEMMA SameCur ==
  ASSUME TypeOK, CurIsLast, cur' = cur, pc # "stopped",
         \A th \in Threads : Seen(th)' = Seen(th),
         \A i \in 1..decoded : stream'[i] = stream[i]
  PROVE  CurIsLast'
<1>1. ASSUME NEW th \in Threads, NEW i \in Seen(th) PROVE RunsSince(th, i)' <=> RunsSince(th, i)
  BY <1>1 DEF RunsSince, Seen
<1>2. QED  BY <1>1 DEF CurIsLast

LEMMA OtherDecodeCur ==
  ASSUME TypeOK, CurIsLast, Decode, stream[decoded + 1].kind # "switch"
  PROVE  CurIsLast'
<1>1. cur' = cur /\ stream' = stream /\ decoded' \in {decoded, decoded + 1} /\ pc # "stopped"
  BY DEF Decode, source, DecodeGc
<1>2. decoded \in Nat
  BY Parts
<1>3. ASSUME NEW th \in Threads PROVE Seen(th)' = Seen(th)
  <2>1. 1..decoded' \subseteq (1..decoded) \cup {decoded + 1} /\ 1..decoded \subseteq 1..decoded'
    BY <1>1, <1>2
  <2>2. QED  BY <1>1, <2>1 DEF Seen, IsSwitchOf
<1>4. QED  BY <1>1, <1>3, SameCur

LEMMA SendCur == TypeOK /\ CurIsLast /\ Send => CurIsLast'
<1> SUFFICES ASSUME TypeOK, CurIsLast, Send PROVE CurIsLast'
  OBVIOUS
<1>1. PICK f \in Frame : stream' = Append(stream, f)
  BY FrameTypes DEF Send
<1>2. \A i \in 1..Len(stream) : stream'[i] = stream[i]
  BY <1>1, Parts, AppendProperties
<1>3. cur' = cur /\ decoded' = decoded /\ pc # "stopped"
  BY DEF Send
<1>4. \A i \in 1..decoded : i \in 1..Len(stream)
  BY Parts
<1>5. \A th \in Threads : Seen(th)' = Seen(th)
  BY <1>2, <1>3, <1>4 DEF Seen
<1>6. QED  BY <1>2, <1>3, <1>4, <1>5, SameCur

LEMMA NextStamped == TypeOK /\ Stamped /\ CurIsLast /\ [Next]_vars => Stamped' /\ CurIsLast'
<1> SUFFICES ASSUME TypeOK, Stamped, CurIsLast, [Next]_vars PROVE Stamped' /\ CurIsLast'
  OBVIOUS
<1>1. CASE Send
  BY <1>1, SendStamped, SendCur
<1>2. CASE Decode
  <2>1. Stamped'
    BY <1>2 DEF Decode, source, Stamped
  <2>2. QED  BY <1>2, <2>1, DecodeCur, OtherDecodeCur
<1>3. CASE Finish
  BY <1>3 DEF Finish, source, Stamped, CurIsLast
<1>4. CASE Close \/ AskStop \/ Top \/ TimedFlush \/ ReadSome \/ ReadIdle \/ ReadEnd \/ UNCHANGED vars
  <2>1. stream' = stream /\ decoded' = decoded /\ cur' = cur /\ (pc = "stopped" => pc' = "stopped")
    BY <1>4 DEF Close, AskStop, Top, TimedFlush, ReadSome, ReadIdle, ReadEnd, vars, source
  <2>2. Stamped'
    BY <2>1 DEF Stamped
  <2>3. CASE pc = "stopped"
    BY <2>1, <2>2, <2>3 DEF CurIsLast
  <2>4. CASE pc # "stopped"
    <3>1. \A th \in Threads : Seen(th)' = Seen(th)
      BY <2>1 DEF Seen
    <3>2. QED  BY <2>1, <2>2, <2>4, <3>1, SameCur
  <2>5. QED  BY <2>2, <2>3, <2>4
<1>5. QED  BY <1>1, <1>2, <1>3, <1>4 DEF Next, Step

LEMMA InitStamped == Init => Stamped /\ CurIsLast
<1> SUFFICES ASSUME Init PROVE Stamped /\ CurIsLast
  OBVIOUS
<1>1. stream = << >> /\ decoded = 0 /\ cur = [th \in Threads |-> NotRunning]
  BY DEF Init
<1>2. 1..Len(stream) = {} /\ 1..decoded = {}
  BY <1>1
<1>3. QED  BY <1>1, <1>2 DEF Stamped, CurIsLast, Seen

-----------------------------------------------------------------------------
(* The collector of the pipeline is that of Collector. *)

LEMMA InitIsCollectors == PipeInit => Init
BY DEF PipeInit

LEMMA StepIsCollectors == [PipeNext]_pipeVars => [Next]_vars
<1> SUFFICES ASSUME [PipeNext]_pipeVars PROVE [Next]_vars
  OBVIOUS
<1>1. CASE HandleStep
  BY <1>1 DEF HandleStep, AddTotal, SetOrigin, RaiseSpan, SendCall
<1>2. CASE CollectorRuns
  BY <1>2 DEF CollectorRuns, Next
<1>3. CASE OutsideMoves
  BY <1>3 DEF OutsideMoves, Next
<1>4. CASE Ask
  BY <1>4 DEF Ask
<1>5. CASE DbStep
  BY <1>5 DEF DbStep, TakeRows, TakeGc, TakeQuery, IdleFlush
<1>6. CASE PoolAnswers
  BY <1>6 DEF PoolAnswers
<1>7. CASE UNCHANGED pipeVars
  BY <1>7 DEF pipeVars
<1>8. QED  BY <1>1, <1>2, <1>3, <1>4, <1>5, <1>6, <1>7 DEF PipeNext

\* Every behaviour of the pipeline is one of the collector, for any threads,
\* clocks, batch sizes and queries.
THEOREM PipelineImplementsCollector == PipeSpec => Spec
BY InitIsCollectors, StepIsCollectors, PTL DEF PipeSpec, Spec

\* So in the pipeline too a collector that has stopped holds nothing back.
THEOREM PipelineStopHoldsNothingBack == PipeSpec => []StopKeepsDecoded
BY PipelineImplementsCollector, StopHoldsNothingBack, PTL

\* And it is well typed.
THEOREM PipelineTypeCorrect == PipeSpec => []TypeOK
BY PipelineImplementsCollector, TypeCorrect, PTL
-----------------------------------------------------------------------------
(* What a list of commands carries. *)

Cmd == Command \cup {Query}
PartsOf(cmds, kind) ==
  [i \in 1..Len(cmds) |-> IF cmds[i].kind = kind THEN cmds[i].items ELSE << >>]

LEMMA ItemsConcat ==
  ASSUME NEW S, NEW kind, NEW a \in Seq(Cmd), NEW b \in Seq(Cmd),
         \A c \in Cmd : c.kind = kind => c.items \in Seq(S)
  PROVE  /\ ItemsOf(a \o b, kind) = ItemsOf(a, kind) \o ItemsOf(b, kind)
         /\ ItemsOf(a, kind) \in Seq(S) /\ ItemsOf(b, kind) \in Seq(S)
         /\ ItemsOf(<< >>, kind) = << >>
         /\ \A c \in Cmd : ItemsOf(<<c>>, kind) = IF c.kind = kind THEN c.items ELSE << >>
<1>1. ASSUME NEW s \in Seq(Cmd)
      PROVE  PartsOf(s, kind) \in Seq(Seq(S)) /\ Len(PartsOf(s, kind)) = Len(s)
  <2>1. Len(s) \in Nat /\ \A i \in 1..Len(s) : s[i] \in Cmd
    BY <1>1, LenProperties, ElementOfSeq
  <2>2. \A i \in 1..Len(s) : (IF s[i].kind = kind THEN s[i].items ELSE << >>) \in Seq(S)
    BY <2>1
  <2>3. QED  BY <2>1, <2>2, IsASeq DEF PartsOf
<1>2. \A s : ItemsOf(s, kind) = FlattenSeq(PartsOf(s, kind))
  BY DEF ItemsOf, PartsOf
<1>3. PartsOf(a \o b, kind) = PartsOf(a, kind) \o PartsOf(b, kind)
  <2>1. a \o b \in Seq(Cmd) /\ Len(a \o b) = Len(a) + Len(b) /\ Len(a) \in Nat /\ Len(b) \in Nat
        /\ \A i \in 1..Len(a \o b) : (a \o b)[i] = IF i <= Len(a) THEN a[i] ELSE b[i - Len(a)]
    BY ConcatProperties, LenProperties
  <2> DEFINE u == PartsOf(a \o b, kind)
             v == PartsOf(a, kind)
             w == PartsOf(b, kind)
  <2>2. /\ u \in Seq(Seq(S)) /\ v \in Seq(Seq(S)) /\ w \in Seq(Seq(S))
        /\ Len(u) = Len(a) + Len(b) /\ Len(v) = Len(a) /\ Len(w) = Len(b)
    BY <1>1, <2>1
  <2>3. /\ \A i \in 1..Len(a) : v[i] = IF a[i].kind = kind THEN a[i].items ELSE << >>
        /\ \A i \in 1..Len(b) : w[i] = IF b[i].kind = kind THEN b[i].items ELSE << >>
        /\ \A i \in 1..(Len(a) + Len(b)) :
             u[i] = IF (a \o b)[i].kind = kind THEN (a \o b)[i].items ELSE << >>
    BY <2>1 DEF PartsOf
  <2> HIDE DEF u, v, w
  <2>4. /\ v \o w \in Seq(Seq(S)) /\ Len(v \o w) = Len(v) + Len(w)
        /\ \A i \in 1..Len(v \o w) : (v \o w)[i] = IF i <= Len(v) THEN v[i] ELSE w[i - Len(v)]
    <3>1. v \in Seq(Seq(S)) /\ w \in Seq(Seq(S))
      BY <2>2
    <3>2. QED  BY ONLY <3>1, ConcatProperties
  <2>5. ASSUME NEW i \in 1..Len(u) PROVE u[i] = (v \o w)[i]
    <3>1. CASE i <= Len(a)
      <4>1. i \in 1..Len(a) /\ (a \o b)[i] = a[i]
        BY <2>1, <2>2, <3>1
      <4>2. QED  BY <2>1, <2>2, <2>3, <2>4, <3>1, <4>1
    <3>2. CASE ~(i <= Len(a))
      <4>1. i - Len(a) \in 1..Len(b) /\ (a \o b)[i] = b[i - Len(a)]
        BY <2>1, <2>2, <3>2
      <4>2. QED  BY <2>1, <2>2, <2>3, <2>4, <3>2, <4>1, ZenonT(60)
    <3>3. QED  BY <3>1, <3>2
  <2>6. u = v \o w
    BY <2>1, <2>2, <2>4, <2>5, SeqEqual, SMTT(60)
  <2>7. QED  BY <2>6 DEF u, v, w
<1>4. ItemsOf(a \o b, kind) = ItemsOf(a, kind) \o ItemsOf(b, kind)
  <2> DEFINE v == PartsOf(a, kind)
             w == PartsOf(b, kind)
  <2>1. v \in Seq(Seq(S)) /\ w \in Seq(Seq(S))
    BY <1>1
  <2>2. ItemsOf(a \o b, kind) = FlattenSeq(v \o w)
    BY <1>2, <1>3
  <2>3. ItemsOf(a, kind) = FlattenSeq(v) /\ ItemsOf(b, kind) = FlattenSeq(w)
    BY <1>2
  <2> HIDE DEF v, w
  <2>4. FlattenSeq(v \o w) = FlattenSeq(v) \o FlattenSeq(w)
    BY <2>1, FlattenConcat
  <2>5. QED  BY <2>2, <2>3, <2>4
<1>5. ItemsOf(a, kind) \in Seq(S) /\ ItemsOf(b, kind) \in Seq(S)
  BY <1>1, <1>2, FlattenType
<1>6. ItemsOf(<< >>, kind) = << >>
  <2>1. PartsOf(<< >>, kind) = << >>
    BY DEF PartsOf
  <2>2. QED  BY <1>2, <2>1, FlattenFew
<1>7. ASSUME NEW c \in Cmd
      PROVE  ItemsOf(<<c>>, kind) = IF c.kind = kind THEN c.items ELSE << >>
  <2> DEFINE s == IF c.kind = kind THEN c.items ELSE << >>
  <2>1. s \in Seq(S)
    OBVIOUS
  <2>2. PartsOf(<<c>>, kind) = <<s>>
    BY DEF PartsOf
  <2> HIDE DEF s
  <2>3. ItemsOf(<<c>>, kind) = s
    BY <1>2, <2>1, <2>2, FlattenFew
  <2>4. QED  BY <2>3 DEF s
<1>8. QED  BY <1>4, <1>5, <1>6, <1>7

LEMMA CmdKinds ==
  /\ \A c \in Cmd : c.kind = "executions" => c.items \in Seq(Execution)
  /\ \A c \in Cmd : c.kind = "gc" => c.items \in Seq(1..MaxFrames)
BY DEF Cmd, Command, Query

\* The rows and the pauses of commands, part by part.
LEMMA RowsConcat ==
  \A a, b \in Seq(Cmd) :
    /\ RowsOf(a \o b) = RowsOf(a) \o RowsOf(b)
    /\ RowsOf(a) \in Seq(Execution) /\ RowsOf(b) \in Seq(Execution)
<1> TAKE a, b \in Seq(Cmd)
<1> QED  BY ItemsConcat, CmdKinds DEF RowsOf

LEMMA GcsConcat ==
  \A a, b \in Seq(Cmd) :
    /\ GcsOf(a \o b) = GcsOf(a) \o GcsOf(b)
    /\ GcsOf(a) \in Seq(1..MaxFrames) /\ GcsOf(b) \in Seq(1..MaxFrames)
<1> TAKE a, b \in Seq(Cmd)
<1> QED  BY ItemsConcat, CmdKinds DEF GcsOf

LEMMA FewCommands ==
  /\ RowsOf(<< >>) = << >> /\ GcsOf(<< >>) = << >>
  /\ \A c \in Cmd :
       /\ RowsOf(<<c>>) = IF c.kind = "executions" THEN c.items ELSE << >>
       /\ GcsOf(<<c>>) = IF c.kind = "gc" THEN c.items ELSE << >>
<1>1. << >> \in Seq(Cmd)
  OBVIOUS
<1>2. QED  BY <1>1, ItemsConcat, CmdKinds DEF RowsOf, GcsOf
-----------------------------------------------------------------------------
(* What the collector hands over. *)

\* Three sequences in a row, whichever two are joined first.
LEMMA Joined ==
  \A S : \A x, y, z \in Seq(S) : (x \o y) \o z = x \o (y \o z) /\ x \o y \in Seq(S)
<1> TAKE S
<1> TAKE x, y, z \in Seq(S)
<1> QED  BY ConcatAssociative, ConcatProperties

LEMMA NothingJoined ==
  \A S : \A x \in Seq(S) : x \o << >> = x /\ << >> \o x = x
<1> TAKE S
<1> TAKE x \in Seq(S)
<1> QED  BY ConcatEmptySeq

LEMMA CmdTypes ==
  /\ Seq(Command) \subseteq Seq(Cmd)
  /\ << >> \in Seq(Execution) /\ << >> \in Seq(1..MaxFrames)
  /\ << >> \in Seq(Command) /\ << >> \in Seq(Cmd)
BY SeqMonotonic DEF Cmd

\* No batch of rows is empty.
Filled(cmds) == \A i \in 1..Len(cmds) : cmds[i].kind = "executions" => cmds[i].items # << >>

LEMMA HandOverGives ==
  ASSUME TypeOK, NEW rows \in Seq(Execution), NEW gaps \in Seq(1..MaxFrames), HandOver(rows, gaps)
  PROVE  \E new \in Seq(Command) :
           /\ toDb' = toDb \o new /\ Filled(new)
           /\ RowsOf(new) = rows /\ GcsOf(new) = gaps
<1> DEFINE a == IF rows = << >> THEN << >> ELSE <<Executions(rows)>>
           b == IF gaps = << >> THEN << >> ELSE <<Pauses(gaps)>>
<1>1. Executions(rows) \in Command /\ Pauses(gaps) \in Command
  BY DEF Executions, Pauses, Command
<1>2. a \in Seq(Command) /\ b \in Seq(Command)
  BY <1>1
<1>3. toDb' = (toDb \o a) \o b
  BY DEF HandOver
<1>4. RowsOf(a) = rows /\ GcsOf(a) = << >>
  <2>1. Executions(rows) \in Cmd /\ Executions(rows).kind = "executions" /\ Executions(rows).items = rows
    BY <1>1 DEF Cmd, Executions
  <2>2. CASE rows = << >>
    BY <2>2, FewCommands
  <2>3. CASE rows # << >>
    BY <2>1, <2>3, FewCommands
  <2>4. QED  BY <2>2, <2>3
<1>5. RowsOf(b) = << >> /\ GcsOf(b) = gaps
  <2>1. Pauses(gaps) \in Cmd /\ Pauses(gaps).kind = "gc" /\ Pauses(gaps).items = gaps
    BY <1>1 DEF Cmd, Pauses
  <2>2. CASE gaps = << >>
    BY <2>2, FewCommands
  <2>3. CASE gaps # << >>
    BY <2>1, <2>3, FewCommands
  <2>4. QED  BY <2>2, <2>3
<1>6. Filled(a \o b)
  <2>1. \A i \in 1..Len(a) : a[i].kind = "executions" => a[i].items # << >>
    BY DEF Executions
  <2>2. \A i \in 1..Len(b) : b[i].kind # "executions"
    BY DEF Pauses
  <2> HIDE DEF a, b
  <2>3. Len(a) \in Nat /\ Len(b) \in Nat /\ Len(a \o b) = Len(a) + Len(b)
        /\ \A i \in 1..Len(a \o b) : (a \o b)[i] = IF i <= Len(a) THEN a[i] ELSE b[i - Len(a)]
    BY <1>2, ConcatProperties, LenProperties
  <2>4. ASSUME NEW i \in 1..Len(a \o b), (a \o b)[i].kind = "executions"
        PROVE  (a \o b)[i].items # << >>
    <3>1. CASE i <= Len(a)
      BY <2>1, <2>3, <2>4, <3>1
    <3>2. CASE ~(i <= Len(a))
      <4>1. i - Len(a) \in 1..Len(b)
        BY <2>3, <3>2
      <4>2. QED  BY <2>2, <2>3, <2>4, <3>2, <4>1
    <3>3. QED  BY <3>1, <3>2
  <2>5. QED  BY <2>4 DEF Filled
<1> HIDE DEF a, b
<1>7. toDb \in Seq(Command)
  BY Parts
<1>8. (toDb \o a) \o b = toDb \o (a \o b) /\ a \o b \in Seq(Command)
  BY <1>2, <1>7, Joined
<1>9. a \in Seq(Cmd) /\ b \in Seq(Cmd)
  BY <1>2, CmdTypes
<1>10. RowsOf(a \o b) = rows \o << >> /\ GcsOf(a \o b) = << >> \o gaps
  BY <1>4, <1>5, <1>9, RowsConcat, GcsConcat
<1>11. RowsOf(a \o b) = rows /\ GcsOf(a \o b) = gaps
  BY <1>10, NothingJoined
<1>12. QED  BY <1>3, <1>6, <1>8, <1>11

\* A step hands over the commands `new`; what was held and what it decoded,
\* `rows` and `gaps`, are in them and in what is held now.
Delivers(new, rows, gaps) ==
  /\ new \in Seq(Command) /\ toDb' = toDb \o new /\ Filled(new)
  /\ RowsOf(new) \o pending' = pending \o rows
  /\ GcsOf(new) \o pendingGc' = pendingGc \o gaps

Frame1 == stream[decoded + 1]
NewRows == IF decoded' # decoded /\ Frame1.kind = "switch" THEN Closed(Frame1) ELSE << >>
NewGcs == IF decoded' # decoded /\ Frame1.kind = "gc" THEN <<Frame1.id>> ELSE << >>

LEMMA NothingDelivered ==
  ASSUME TypeOK, UNCHANGED <<toDb, pending, pendingGc>>
  PROVE  \E new : Delivers(new, << >>, << >>)
<1>1. toDb \in Seq(Command) /\ pending \in Seq(Execution) /\ pendingGc \in Seq(1..MaxFrames)
  BY Parts
<1>2. Filled(<< >>)
  BY DEF Filled
<1>3. /\ toDb' = toDb \o << >>
      /\ RowsOf(<< >>) \o pending' = pending \o << >>
      /\ GcsOf(<< >>) \o pendingGc' = pendingGc \o << >>
  BY <1>1, FewCommands, NothingJoined
<1>4. Delivers(<< >>, << >>, << >>)
  BY <1>2, <1>3, CmdTypes DEF Delivers
<1>5. QED  BY <1>4

LEMMA FlushDelivers ==
  ASSUME TypeOK, FlushBoth
  PROVE  \E new : Delivers(new, << >>, << >>)
<1>1. pending \in Seq(Execution) /\ pendingGc \in Seq(1..MaxFrames)
  BY Parts
<1>2. HandOver(pending, pendingGc) /\ pending' = << >> /\ pendingGc' = << >>
  BY DEF FlushBoth
<1>3. PICK new \in Seq(Command) :
        /\ toDb' = toDb \o new /\ Filled(new)
        /\ RowsOf(new) = pending /\ GcsOf(new) = pendingGc
  BY <1>1, <1>2, HandOverGives
<1>4. RowsOf(new) \o pending' = pending \o << >> /\ GcsOf(new) \o pendingGc' = pendingGc \o << >>
  BY <1>2, <1>3
<1>5. Delivers(new, << >>, << >>)
  BY <1>3, <1>4 DEF Delivers
<1>6. QED  BY <1>5
LEMMA SwitchDelivers ==
  ASSUME TypeOK, NEW f \in Frame, f.kind = "switch", DecodeSwitch(f)
  PROVE  /\ \E new : Delivers(new, Closed(f), << >>)
         /\ Closed(f) \in Seq(Execution)
<1> DEFINE rows == pending \o Closed(f)
<1>1. pending \in Seq(Execution) /\ pendingGc \in Seq(1..MaxFrames) /\ Closed(f) \in Seq(Execution)
  BY Parts, ClosedType
<1>2. rows \in Seq(Execution)
  BY <1>1, ConcatProperties
<1>3. pendingGc' = pendingGc
  BY DEF DecodeSwitch
<1>4. CASE HandOver(rows, << >>) /\ pending' = << >>
  <2> HIDE DEF rows
  <2>1. PICK new \in Seq(Command) :
          /\ toDb' = toDb \o new /\ Filled(new)
          /\ RowsOf(new) = rows /\ GcsOf(new) = << >>
    BY <1>2, <1>4, CmdTypes, HandOverGives
  <2>2. RowsOf(new) \o pending' = rows /\ GcsOf(new) \o pendingGc' = pendingGc \o << >>
    BY <1>1, <1>2, <1>3, <1>4, <2>1, NothingJoined
  <2>3. Delivers(new, Closed(f), << >>)
    BY <2>1, <2>2 DEF Delivers, rows
  <2>4. QED  BY <1>1, <2>3
<1>5. CASE pending' = rows /\ UNCHANGED toDb
  <2> HIDE DEF rows
  <2>1. toDb \in Seq(Command) /\ Filled(<< >>)
    BY Parts DEF Filled
  <2>2. /\ toDb' = toDb \o << >>
        /\ RowsOf(<< >>) \o pending' = rows
        /\ GcsOf(<< >>) \o pendingGc' = pendingGc \o << >>
    BY <1>1, <1>2, <1>3, <1>5, <2>1, FewCommands, NothingJoined
  <2>3. Delivers(<< >>, Closed(f), << >>)
    BY <2>1, <2>2, CmdTypes DEF Delivers, rows
  <2>4. QED  BY <1>1, <2>3
<1>6. QED  BY <1>4, <1>5 DEF DecodeSwitch

LEMMA GcDelivers ==
  ASSUME TypeOK, NEW f \in Frame, f.kind = "gc", DecodeGc(f)
  PROVE  \E new : Delivers(new, << >>, <<f.id>>)
<1> DEFINE gaps == Append(pendingGc, f.id)
<1>1. pending \in Seq(Execution) /\ pendingGc \in Seq(1..MaxFrames) /\ f.id \in 1..MaxFrames
  BY Parts DEF Frame, Meta, Bad
<1>2. gaps \in Seq(1..MaxFrames) /\ gaps = pendingGc \o <<f.id>>
  BY <1>1, AppendProperties, AppendIsConcat
<1>3. pending' = pending
  BY DEF DecodeGc
<1>4. CASE HandOver(<< >>, gaps) /\ pendingGc' = << >>
  <2> HIDE DEF gaps
  <2>1. PICK new \in Seq(Command) :
          /\ toDb' = toDb \o new /\ Filled(new)
          /\ RowsOf(new) = << >> /\ GcsOf(new) = gaps
    BY <1>2, <1>4, CmdTypes, HandOverGives
  <2>2. RowsOf(new) \o pending' = pending \o << >> /\ GcsOf(new) \o pendingGc' = gaps
    BY <1>1, <1>2, <1>3, <1>4, <2>1, NothingJoined
  <2>3. Delivers(new, << >>, <<f.id>>)
    BY <1>2, <2>1, <2>2 DEF Delivers
  <2>4. QED  BY <2>3
<1>5. CASE pendingGc' = gaps /\ UNCHANGED toDb
  <2> HIDE DEF gaps
  <2>1. toDb \in Seq(Command) /\ Filled(<< >>)
    BY Parts DEF Filled
  <2>2. /\ toDb' = toDb \o << >>
        /\ RowsOf(<< >>) \o pending' = pending \o << >>
        /\ GcsOf(<< >>) \o pendingGc' = gaps
    BY <1>1, <1>2, <1>3, <1>5, <2>1, FewCommands, NothingJoined
  <2>3. Delivers(<< >>, << >>, <<f.id>>)
    BY <1>2, <2>1, <2>2, CmdTypes DEF Delivers
  <2>4. QED  BY <2>3
<1>6. QED  BY <1>4, <1>5 DEF DecodeGc

LEMMA FinishDelivers ==
  ASSUME TypeOK, EndClosesNothing, Finish
  PROVE  \E new : Delivers(new, << >>, << >>)
<1>1. pending \in Seq(Execution) /\ pendingGc \in Seq(1..MaxFrames)
  BY Parts
<1>2. PICK tail \in SetToSeqs(StillOpen) : HandOver(pending \o tail, pendingGc)
  BY DEF Finish
<1>3. tail = << >>
  BY <1>2, NoneOpen, EmptyTail
<1>4. pending \o tail = pending
  BY <1>1, <1>3
<1>5. FlushBoth
  BY <1>2, <1>4 DEF Finish, FlushBoth
<1>6. QED  BY <1>5, FlushDelivers

\* Every step of the collector hands over or holds exactly what it held and what
\* it decoded.
LEMMA StepDelivers ==
  ASSUME TypeOK, EndClosesNothing, Step
  PROVE  \E new : Delivers(new, NewRows, NewGcs)
<1>1. CASE Decode
  <2>1. decoded + 1 \in 1..Len(stream) /\ decoded + 1 # decoded
    BY <1>1, Parts DEF Decode
  <2>2. Frame1 \in Frame
    BY <2>1, Parts, ElementOfSeq DEF Frame1
  <2>3. CASE Frame1.kind = "switch" /\ DecodeSwitch(Frame1) /\ decoded' = decoded + 1
    <3>1. NewRows = Closed(Frame1) /\ NewGcs = << >>
      BY <2>1, <2>3 DEF NewRows, NewGcs
    <3>2. QED  BY <2>2, <2>3, <3>1, SwitchDelivers
  <2>4. CASE Frame1.kind = "gc" /\ DecodeGc(Frame1) /\ decoded' = decoded + 1
    <3>1. NewRows = << >> /\ NewGcs = <<Frame1.id>>
      BY <2>1, <2>4 DEF NewRows, NewGcs
    <3>2. QED  BY <2>2, <2>4, <3>1, GcDelivers
  <2>5. CASE /\ Frame1.kind \in {"meta", "bad"}
             /\ UNCHANGED <<pending, pendingGc, toDb>>
    <3>1. NewRows = << >> /\ NewGcs = << >>
      BY <2>5 DEF NewRows, NewGcs
    <3>2. QED  BY <2>5, <3>1, NothingDelivered
  <2>6. QED  BY <1>1, <2>3, <2>4, <2>5 DEF Decode, Frame1
<1>2. CASE ~Decode
  <2>1. decoded' = decoded
    BY <1>2 DEF Step, Top, TimedFlush, ReadSome, ReadIdle, ReadEnd, Finish
  <2>2. NewRows = << >> /\ NewGcs = << >>
    BY <2>1 DEF NewRows, NewGcs
  <2>3. FlushBoth \/ Finish \/ UNCHANGED <<pending, pendingGc, toDb>>
    BY <1>2 DEF Step, Top, TimedFlush, ReadSome, ReadIdle, ReadEnd
  <2>4. QED  BY <2>2, <2>3, FlushDelivers, FinishDelivers, NothingDelivered
<1>3. QED  BY <1>1, <1>2
-----------------------------------------------------------------------------
(* Types of the handle, the DB thread and the viewer. *)

HandleTypes ==
  /\ given \in Nat /\ given <= Len(toDb)
  /\ at \in {"total", "origin", "span", "send"}
  /\ at # "total" => given < Len(toDb)
  /\ at \in {"origin", "span"} => Call.kind = "executions"
  /\ Filled(toDb)
  /\ total \in Nat /\ span \in Nat /\ origin \in Nat \cup {-1}

StoreTypes ==
  /\ channel \in Seq(Cmd) /\ gcs \in Seq(1..MaxFrames)
  /\ queued \in Seq(Execution) /\ df \in Seq(Execution)
  /\ sorted \in BOOLEAN /\ maxEnd \in Nat \cup {-1}

ViewerTypes ==
  query \in [stage : {"none", "queued", "snapshot", "answered"}, expects : Nat, rows : Nat]

PipeTypes == HandleTypes /\ StoreTypes /\ ViewerTypes

EndOf(row) == row.start + row.dur

\* The call under way carries what it should.
LEMMA CallType ==
  ASSUME TypeOK, HandleTypes, Calling
  PROVE  /\ Call \in Command /\ Call \in Cmd
         /\ Call.kind # "gc" <=> Call.kind = "executions"
         /\ Call.kind = "executions" => /\ Call.items \in Seq(Execution) /\ Call.items # << >>
                                        /\ Len(Call.items) \in Nat \ {0}
                                        /\ Call.items[1] \in Execution
<1>1. given + 1 \in 1..Len(toDb) /\ toDb \in Seq(Command)
  BY Parts, LenProperties DEF HandleTypes, Calling
<1>2. toDb[given + 1] \in Command
  BY <1>1, ElementOfSeq
<1>3. Call \in Command /\ Call \in Cmd
  BY <1>2 DEF Call, Cmd
<1>4. Call.kind # "gc" <=> Call.kind = "executions"
  BY <1>3 DEF Command
<1>5. ASSUME Call.kind = "executions"
      PROVE  /\ Call.items \in Seq(Execution) /\ Call.items # << >>
             /\ Len(Call.items) \in Nat \ {0}
             /\ Call.items[1] \in Execution
  <2>1. Call.items \in Seq(Execution) /\ Call.items # << >>
    BY <1>1, <1>3, <1>5, CmdKinds DEF HandleTypes, Filled, Call
  <2> HIDE DEF Call
  <2>2. QED  BY <2>1, LenProperties, ElementOfSeq
<1>6. QED  BY <1>3, <1>4, <1>5

\* Raising the span: the largest of it and the ends of the batch.
LEMMA SpanRaised ==
  ASSUME NEW low \in Nat, NEW rows \in Seq(Execution)
  PROVE  /\ Max({low} \cup Ends(rows)) \in Nat
         /\ low <= Max({low} \cup Ends(rows))
         /\ \A e \in Ends(rows) : e <= Max({low} \cup Ends(rows))
<1> DEFINE ends == {low} \cup Ends(rows)
           f == [i \in 1..Len(rows) |-> rows[i].start + rows[i].dur]
<1>1. Len(rows) \in Nat /\ \A i \in 1..Len(rows) : rows[i] \in Execution
  BY LenProperties, ElementOfSeq
<1>2. \A i \in 1..Len(rows) : rows[i].start + rows[i].dur \in Nat
  BY <1>1 DEF Execution
<1>3. f \in [1..Len(rows) -> Nat]
  BY <1>2
<1>4. PICK B \in Nat : \A i \in 1..Len(rows) : f[i] <= B
  <2> HIDE DEF f
  <2>1. QED  BY <1>1, <1>3, BoundOf
<1>5. ends \in SUBSET Nat /\ ends # {}
  BY <1>2 DEF Ends
<1>6. B + low \in Nat /\ \A x \in ends : x <= B + low
  BY <1>2, <1>4 DEF Ends
<1>7. \E m \in ends : \A x \in ends : x <= m
  <2> HIDE DEF ends
  <2>1. QED  BY <1>5, <1>6, GreatestOf
<1>8. \E m \in ends : \A x \in ends : m >= x
  BY <1>5, <1>7
<1>9. Max(ends) \in ends /\ \A x \in ends : Max(ends) >= x
  BY <1>8 DEF Max
<1>10. low \in ends /\ Ends(rows) \subseteq ends
  OBVIOUS
<1> HIDE DEF ends
<1>11. \A x \in ends : x <= Max(ends) /\ x \in Nat
  BY <1>5, <1>9
<1>12. QED  BY <1>9, <1>10, <1>11 DEF ends

\* A command of the channel is well typed, and so is what is behind it.
LEMMA TakenType ==
  ASSUME StoreTypes, channel # << >>
  PROVE  /\ channel[1] \in Cmd /\ Tail(channel) \in Seq(Cmd)
         /\ channel = <<channel[1]>> \o Tail(channel)
         /\ channel[1].kind = "executions" => channel[1].items \in Seq(Execution)
         /\ channel[1].kind = "gc" => channel[1].items \in Seq(1..MaxFrames)
<1>1. channel \in Seq(Cmd)
  BY DEF StoreTypes
<1>2. 1 \in 1..Len(channel) /\ Len(channel) \in 1..Len(channel)
  BY <1>1, LenProperties
<1>3. channel[1] \in Cmd /\ Tail(channel) \in Seq(Cmd)
  BY <1>1, <1>2, ElementOfSeq, HeadTailProperties
<1>4. SubSeq(channel, 1, Len(channel)) = <<channel[1]>> \o SubSeq(channel, 1 + 1, Len(channel))
  BY <1>1, <1>2, SubSeqRecursiveFirst
<1>5. SubSeq(channel, 1, Len(channel)) = channel
  BY <1>1, SubSeqFull
<1>6. Tail(channel) = SubSeq(channel, 2, Len(channel))
  BY <1>1, TailIsSubSeq
<1>7. channel = <<channel[1]>> \o Tail(channel)
  BY <1>4, <1>5, <1>6
<1>8. QED  BY <1>3, <1>7, CmdKinds

\* What an append does: the rows are at the end of the frame.
Appends(rows) ==
  /\ queued' = << >> /\ df' = df \o rows /\ df' \in Seq(Execution)
  /\ sorted' \in BOOLEAN /\ maxEnd' \in Nat \cup {-1}
  /\ sorted' = sorted \/ sorted' = (sorted /\ T!InOrder(rows))
  /\ maxEnd' = maxEnd \/ \E i \in 1..Len(rows) : maxEnd' = EndOf(rows[i])

LEMMA AppendHas ==
  ASSUME StoreTypes, NEW rows \in Seq(Execution), T!FlushPending(rows)
  PROVE  Appends(rows)
<1>1. df \in Seq(Execution) /\ queued' = << >>
      /\ sorted \in BOOLEAN /\ maxEnd \in Nat \cup {-1}
  BY DEF StoreTypes, T!FlushPending
<1>2. df \o rows \in Seq(Execution)
  BY <1>1, ConcatProperties
<1>3. CASE rows = << >> /\ UNCHANGED <<df, sorted, maxEnd>>
  <2>1. df \o rows = df
    BY <1>1, <1>3
  <2>2. QED  BY <1>1, <1>2, <1>3, <2>1 DEF Appends
<1>4. CASE T!AppendBatch(rows)
  <2>1. df' = df \o rows /\ sorted' = (sorted /\ T!InOrder(rows)) /\ maxEnd' \in T!MaxEndAfter(rows)
    BY <1>4 DEF T!AppendBatch, T!Newest
  <2>2. maxEnd' = maxEnd \/ \E i \in 1..Len(rows) : maxEnd' = EndOf(rows[i])
    BY <2>1 DEF T!MaxEndAfter, T!Ends, T!EndOf, EndOf
  <2>3. \A i \in 1..Len(rows) : EndOf(rows[i]) \in Nat
    <3>1. \A i \in 1..Len(rows) : rows[i] \in Execution
      BY ElementOfSeq
    <3>2. QED  BY <3>1 DEF Execution, EndOf
  <2>4. sorted' \in BOOLEAN
    BY <1>1, <2>1
  <2>5. maxEnd' \in Nat \cup {-1}
    BY <1>1, <2>2, <2>3
  <2>6. QED  BY <1>1, <1>2, <2>1, <2>2, <2>4, <2>5 DEF Appends
<1>5. QED  BY <1>3, <1>4 DEF T!FlushPending, T!DropBatch, T!store
-----------------------------------------------------------------------------
(* Where the rows and the pauses are, and how each step moves them. *)

\* (Concatenation has a name of its own here: all that matters is that it is
\* associative, and the provers lose their way in its definition.)
Cat(a, b) == a \o b

Calls == SubSeq(toDb, given + 1, Len(toDb))
Held == df \o queued
AllRows == Cat(Cat(Cat(Held, RowsOf(channel)), RowsOf(Calls)), pending)
AllGcs == Cat(Cat(Cat(gcs, GcsOf(channel)), GcsOf(Calls)), pendingGc)

LEMMA AllTypes ==
  ASSUME TypeOK, HandleTypes, StoreTypes
  PROVE  /\ Calls \in Seq(Command) /\ Calls \in Seq(Cmd) /\ channel \in Seq(Cmd)
         /\ Held \in Seq(Execution) /\ pending \in Seq(Execution)
         /\ RowsOf(channel) \in Seq(Execution) /\ RowsOf(Calls) \in Seq(Execution)
         /\ gcs \in Seq(1..MaxFrames) /\ pendingGc \in Seq(1..MaxFrames)
         /\ GcsOf(channel) \in Seq(1..MaxFrames) /\ GcsOf(Calls) \in Seq(1..MaxFrames)
         /\ AllRows \in Seq(Execution) /\ AllGcs \in Seq(1..MaxFrames)
<1>1. toDb \in Seq(Command) /\ pending \in Seq(Execution) /\ pendingGc \in Seq(1..MaxFrames)
  BY Parts
<1>2. /\ given \in Nat /\ channel \in Seq(Cmd) /\ gcs \in Seq(1..MaxFrames)
      /\ queued \in Seq(Execution) /\ df \in Seq(Execution)
  BY DEF HandleTypes, StoreTypes
<1>3. Calls \in Seq(Command)
  BY <1>1, <1>2, RestType DEF Calls
<1>4. Calls \in Seq(Cmd)
  BY <1>3, CmdTypes
<1>5. Held \in Seq(Execution)
  BY <1>2, Joined DEF Held
<1>6. RowsOf(channel) \in Seq(Execution) /\ RowsOf(Calls) \in Seq(Execution)
  BY <1>2, <1>4, RowsConcat
<1>7. GcsOf(channel) \in Seq(1..MaxFrames) /\ GcsOf(Calls) \in Seq(1..MaxFrames)
  BY <1>2, <1>4, GcsConcat
<1>8. Held \o RowsOf(channel) \in Seq(Execution) /\ gcs \o GcsOf(channel) \in Seq(1..MaxFrames)
  BY <1>2, <1>5, <1>6, <1>7, Joined
<1>9. /\ (Held \o RowsOf(channel)) \o RowsOf(Calls) \in Seq(Execution)
      /\ (gcs \o GcsOf(channel)) \o GcsOf(Calls) \in Seq(1..MaxFrames)
  BY <1>6, <1>7, <1>8, Joined
<1>10. AllRows \in Seq(Execution) /\ AllGcs \in Seq(1..MaxFrames)
  BY <1>1, <1>9, Joined DEF AllRows, AllGcs, Cat
<1>11. QED  BY <1>1, <1>2, <1>3, <1>4, <1>5, <1>6, <1>7, <1>10

\* Moving a part from one hand to the next moves no row of the whole, and what
\* is decoded goes to its end.
MovedUp(S) ==
  \A h, c, x, r, p \in Seq(S) :
    Cat(Cat(Cat(h, Cat(c, x)), r), p) = Cat(Cat(Cat(h, c), Cat(x, r)), p)
JoinsAtEnd(S) ==
  \A h, r, x, p, q, y \in Seq(S) :
    Cat(x, q) = Cat(p, y) => Cat(Cat(h, Cat(r, x)), q) = Cat(Cat(Cat(h, r), p), y)

Associative(S) ==
  /\ \A a, b \in Seq(S) : Cat(a, b) \in Seq(S)
  /\ \A a, b, d \in Seq(S) : Cat(Cat(a, b), d) = Cat(a, Cat(b, d))

LEMMA CatLaws ==
  ASSUME NEW S
  PROVE  Associative(S)
<1>1. \A a, b, d \in Seq(S) : (a \o b) \o d = a \o (b \o d)
  <2> TAKE a, b, d \in Seq(S)
  <2> QED  BY ConcatAssociative
<1>2. \A a, b \in Seq(S) : a \o b \in Seq(S)
  <2> TAKE a, b \in Seq(S)
  <2> QED  BY ConcatProperties
<1>3. QED  BY <1>1, <1>2, Zenon DEF Associative, Cat

LEMMA Shifts ==
  ASSUME NEW S
  PROVE  MovedUp(S) /\ JoinsAtEnd(S)
<1>1. Associative(S)
  BY CatLaws
<1>2. MovedUp(S)
  BY <1>1 DEF Associative, MovedUp
<1>3. JoinsAtEnd(S)
  BY <1>1, SMTT(60) DEF Associative, JoinsAtEnd
<1>4. QED  BY <1>2, <1>3

LEMMA SendMoves ==
  ASSUME TypeOK, HandleTypes, StoreTypes, SendCall
  PROVE  /\ AllRows' = AllRows /\ AllGcs' = AllGcs
         /\ channel' \in Seq(Cmd) /\ Call \in Cmd
         /\ RowsOf(channel') = RowsOf(channel) \o RowsOf(<<Call>>)
         /\ GcsOf(channel') = GcsOf(channel) \o GcsOf(<<Call>>)
         /\ RowsOf(<<Call>>) \in Seq(Execution)
<1>1. /\ channel' = Append(channel, Call) /\ given' = given + 1
      /\ UNCHANGED <<toDb, pending, pendingGc, df, queued, gcs>>
  BY DEF SendCall, vars, frame
<1>2. Calling /\ given \in Nat /\ given < Len(toDb) /\ toDb \in Seq(Command)
  BY Parts DEF SendCall, HandleTypes, Calling
<1>3. Call \in Command /\ Call \in Cmd /\ <<Call>> \in Seq(Cmd)
  BY <1>2, CallType
<1>4. channel \in Seq(Cmd)
  BY DEF StoreTypes
<1>5. channel' = channel \o <<Call>> /\ channel' \in Seq(Cmd)
  BY <1>1, <1>3, <1>4, AppendIsConcat, AppendProperties
<1>6. Calls = <<Call>> \o Calls' /\ Calls' \in Seq(Cmd)
  <2>1. Calls' = SubSeq(toDb, (given + 1) + 1, Len(toDb))
    BY <1>1 DEF Calls
  <2>2. Calls = <<Call>> \o SubSeq(toDb, (given + 1) + 1, Len(toDb))
    BY <1>2, RestShrinks DEF Calls, Call
  <2>3. SubSeq(toDb, (given + 1) + 1, Len(toDb)) \in Seq(Command)
    BY <1>2, RestType
  <2>4. QED  BY <2>1, <2>2, <2>3, CmdTypes
<1>7. /\ RowsOf(channel') = RowsOf(channel) \o RowsOf(<<Call>>)
      /\ GcsOf(channel') = GcsOf(channel) \o GcsOf(<<Call>>)
      /\ RowsOf(<<Call>>) \in Seq(Execution) /\ GcsOf(<<Call>>) \in Seq(1..MaxFrames)
  BY <1>3, <1>4, <1>5, RowsConcat, GcsConcat
<1>8. /\ RowsOf(Calls) = RowsOf(<<Call>>) \o RowsOf(Calls')
      /\ GcsOf(Calls) = GcsOf(<<Call>>) \o GcsOf(Calls')
      /\ RowsOf(Calls') \in Seq(Execution) /\ GcsOf(Calls') \in Seq(1..MaxFrames)
  BY <1>3, <1>6, RowsConcat, GcsConcat
<1>9. AllRows' = Cat(Cat(Cat(Held, RowsOf(channel')), RowsOf(Calls')), pending)
  BY <1>1 DEF AllRows, Held, RowsOf, ItemsOf, Cat
<1>10. AllGcs' = Cat(Cat(Cat(gcs, GcsOf(channel')), GcsOf(Calls')), pendingGc)
  BY <1>1 DEF AllGcs, GcsOf, ItemsOf, Cat
<1>11. /\ Held \in Seq(Execution) /\ RowsOf(channel) \in Seq(Execution) /\ pending \in Seq(Execution)
       /\ gcs \in Seq(1..MaxFrames) /\ GcsOf(channel) \in Seq(1..MaxFrames) /\ pendingGc \in Seq(1..MaxFrames)
  BY AllTypes
<1>12. AllRows' = AllRows
  <2> DEFINE x == RowsOf(<<Call>>)
             c == RowsOf(channel)
             r == RowsOf(Calls')
             h == Held
  <2>1. MovedUp(Execution)
    BY Shifts
  <2>2. RowsOf(channel') = Cat(c, x) /\ RowsOf(Calls) = Cat(x, r)
    BY <1>7, <1>8 DEF Cat
  <2>3. /\ x \in Seq(Execution) /\ c \in Seq(Execution) /\ r \in Seq(Execution)
        /\ h \in Seq(Execution) /\ pending \in Seq(Execution)
    BY <1>7, <1>8, <1>11
  <2> HIDE DEF x, c, r, h
  <2>4. Cat(Cat(Cat(h, Cat(c, x)), r), pending) = Cat(Cat(Cat(h, c), Cat(x, r)), pending)
    BY <2>1, <2>3 DEF MovedUp
  <2>5. QED  BY <1>9, <2>2, <2>4, Zenon DEF AllRows, c, r, h
<1>13. AllGcs' = AllGcs
  <2> DEFINE x == GcsOf(<<Call>>)
             c == GcsOf(channel)
             r == GcsOf(Calls')
  <2>1. MovedUp(1..MaxFrames)
    BY Shifts
  <2>2. GcsOf(channel') = Cat(c, x) /\ GcsOf(Calls) = Cat(x, r)
    BY <1>7, <1>8 DEF Cat
  <2>3. /\ x \in Seq(1..MaxFrames) /\ c \in Seq(1..MaxFrames) /\ r \in Seq(1..MaxFrames)
        /\ gcs \in Seq(1..MaxFrames) /\ pendingGc \in Seq(1..MaxFrames)
    BY <1>7, <1>8, <1>11
  <2> HIDE DEF x, c, r
  <2>4. Cat(Cat(Cat(gcs, Cat(c, x)), r), pendingGc) = Cat(Cat(Cat(gcs, c), Cat(x, r)), pendingGc)
    BY <2>1, <2>3 DEF MovedUp
  <2>5. QED  BY <1>10, <2>2, <2>4, Zenon DEF AllGcs, c, r
<1>14. QED  BY <1>3, <1>5, <1>7, <1>12, <1>13

LEMMA CollectorMoves ==
  ASSUME IInv, HandleTypes, StoreTypes, CollectorRuns
  PROVE  /\ AllRows' = Cat(AllRows, NewRows) /\ AllGcs' = Cat(AllGcs, NewGcs)
         /\ NewRows \in Seq(Execution) /\ NewGcs \in Seq(1..MaxFrames)
         /\ given' <= Len(toDb') /\ Filled(toDb')
<1>0. TypeOK /\ EndClosesNothing
  BY DEF IInv
<1>1. Step /\ UNCHANGED <<given, channel, df, queued, gcs>>
  BY DEF CollectorRuns, counters, dbThread, frame
<1>2. PICK new : Delivers(new, NewRows, NewGcs)
  BY <1>0, <1>1, StepDelivers
<1>3. new \in Seq(Command) /\ new \in Seq(Cmd) /\ toDb' = toDb \o new /\ Filled(new)
      /\ toDb \in Seq(Command) /\ given \in Nat /\ given <= Len(toDb)
  BY <1>0, <1>2, Parts, CmdTypes DEF Delivers, HandleTypes
<1>4. Calls' = Calls \o new
  <2>1. Calls' = SubSeq(toDb \o new, given + 1, Len(toDb \o new))
    BY <1>1, <1>3 DEF Calls
  <2>2. QED  BY <1>3, <2>1, RestGrows DEF Calls
<1>5. /\ Calls \in Seq(Cmd) /\ Held \in Seq(Execution) /\ pending \in Seq(Execution)
      /\ RowsOf(channel) \in Seq(Execution) /\ RowsOf(Calls) \in Seq(Execution)
      /\ gcs \in Seq(1..MaxFrames) /\ pendingGc \in Seq(1..MaxFrames)
      /\ GcsOf(channel) \in Seq(1..MaxFrames) /\ GcsOf(Calls) \in Seq(1..MaxFrames)
      /\ Held \o RowsOf(channel) \in Seq(Execution) /\ gcs \o GcsOf(channel) \in Seq(1..MaxFrames)
  BY <1>0, AllTypes, Joined
<1>6. /\ RowsOf(Calls') = RowsOf(Calls) \o RowsOf(new) /\ RowsOf(new) \in Seq(Execution)
      /\ GcsOf(Calls') = GcsOf(Calls) \o GcsOf(new) /\ GcsOf(new) \in Seq(1..MaxFrames)
  BY <1>3, <1>4, <1>5, RowsConcat, GcsConcat
<1>7. NewRows \in Seq(Execution) /\ NewGcs \in Seq(1..MaxFrames)
  <2>1. CASE Decode
    <3>1. decoded + 1 \in 1..Len(stream)
      BY <1>0, <2>1, Parts DEF Decode
    <3>2. Frame1 \in Frame
      BY <1>0, <3>1, Parts, ElementOfSeq DEF Frame1
    <3>3. Frame1.kind = "gc" => Frame1.id \in 1..MaxFrames
      BY <3>2 DEF Frame, Meta, Bad
    <3>4. Frame1.kind = "switch" => Closed(Frame1) \in Seq(Execution)
      BY <1>0, <3>2, ClosedType
    <3>5. Frame1.kind = "gc" => <<Frame1.id>> \in Seq(1..MaxFrames)
      BY <3>3
    <3>6. QED  BY <3>4, <3>5, CmdTypes, Zenon DEF NewRows, NewGcs
  <2>2. CASE ~Decode
    <3>1. decoded' = decoded
      BY <1>1, <2>2 DEF Step, Top, TimedFlush, ReadSome, ReadIdle, ReadEnd, Finish
    <3>2. QED  BY <3>1, CmdTypes DEF NewRows, NewGcs
  <2>3. QED  BY <2>1, <2>2
<1>8. pending' \in Seq(Execution) /\ pendingGc' \in Seq(1..MaxFrames)
  <2>1. [Next]_vars
    BY <1>1 DEF Next
  <2>2. IInv'
    BY <2>1, NextInv
  <2>3. QED  BY <2>2 DEF IInv, TypeOK
<1>9. AllRows' = Cat(Cat(Cat(Held, RowsOf(channel)), RowsOf(Calls')), pending')
  BY <1>1 DEF AllRows, Held, RowsOf, ItemsOf, Cat
<1>10. AllGcs' = Cat(Cat(Cat(gcs, GcsOf(channel)), GcsOf(Calls')), pendingGc')
  BY <1>1 DEF AllGcs, GcsOf, ItemsOf, Cat
<1>11. /\ RowsOf(new) \o pending' = pending \o NewRows
       /\ GcsOf(new) \o pendingGc' = pendingGc \o NewGcs
  BY <1>2 DEF Delivers
<1>12. AllRows' = Cat(AllRows, NewRows)
  <2> DEFINE h == Cat(Held, RowsOf(channel))
             r == RowsOf(Calls)
             x == RowsOf(new)
             y == NewRows
  <2>1. JoinsAtEnd(Execution)
    BY Shifts
  <2>2. h \in Seq(Execution) /\ r \in Seq(Execution) /\ x \in Seq(Execution)
        /\ pending \in Seq(Execution) /\ pending' \in Seq(Execution) /\ y \in Seq(Execution)
    BY <1>5, <1>6, <1>7, <1>8 DEF Cat
  <2>3. Cat(x, pending') = Cat(pending, y) /\ RowsOf(Calls') = Cat(r, x)
    BY <1>6, <1>11 DEF Cat
  <2> HIDE DEF h, r, x, y
  <2>4. Cat(Cat(h, Cat(r, x)), pending') = Cat(Cat(Cat(h, r), pending), y)
    BY <2>1, <2>2, <2>3 DEF JoinsAtEnd
  <2>5. QED  BY <1>9, <2>3, <2>4, Zenon DEF AllRows, h, r, y
<1>13. AllGcs' = Cat(AllGcs, NewGcs)
  <2> DEFINE h == Cat(gcs, GcsOf(channel))
             r == GcsOf(Calls)
             x == GcsOf(new)
             y == NewGcs
  <2>1. JoinsAtEnd(1..MaxFrames)
    BY Shifts
  <2>2. h \in Seq(1..MaxFrames) /\ r \in Seq(1..MaxFrames) /\ x \in Seq(1..MaxFrames)
        /\ pendingGc \in Seq(1..MaxFrames) /\ pendingGc' \in Seq(1..MaxFrames) /\ y \in Seq(1..MaxFrames)
    BY <1>5, <1>6, <1>7, <1>8 DEF Cat
  <2>3. Cat(x, pendingGc') = Cat(pendingGc, y) /\ GcsOf(Calls') = Cat(r, x)
    BY <1>6, <1>11 DEF Cat
  <2> HIDE DEF h, r, x, y
  <2>4. Cat(Cat(h, Cat(r, x)), pendingGc') = Cat(Cat(Cat(h, r), pendingGc), y)
    BY <2>1, <2>2, <2>3 DEF JoinsAtEnd
  <2>5. QED  BY <1>10, <2>3, <2>4, Zenon DEF AllGcs, h, r, y
<1>14. given' <= Len(toDb') /\ Filled(toDb')
  <2>1. /\ Len(toDb') = Len(toDb) + Len(new) /\ Len(toDb) \in Nat /\ Len(new) \in Nat
        /\ \A i \in 1..(Len(toDb) + Len(new)) :
             toDb'[i] = IF i <= Len(toDb) THEN toDb[i] ELSE new[i - Len(toDb)]
    BY <1>3, ConcatProperties, LenProperties
  <2>2. ASSUME NEW i \in 1..Len(toDb'), toDb'[i].kind = "executions" PROVE toDb'[i].items # << >>
    <3>1. CASE i <= Len(toDb)
      BY <2>1, <2>2, <3>1 DEF HandleTypes, Filled
    <3>2. CASE ~(i <= Len(toDb))
      <4>1. i - Len(toDb) \in 1..Len(new)
        BY <2>1, <3>2
      <4>2. QED  BY <1>3, <2>1, <2>2, <3>2, <4>1 DEF Filled
    <3>3. QED  BY <3>1, <3>2
  <2>3. QED  BY <1>1, <1>3, <2>1, <2>2 DEF Filled
<1>15. QED  BY <1>7, <1>12, <1>13, <1>14, Zenon
\* What the DB thread has or is about to take from the channel.
Reach == Cat(Held, RowsOf(channel))
GcReach == Cat(gcs, GcsOf(channel))

\* The frame is as it was, or has `rows` at its end and nothing is queued.
StoreMoves(rows) ==
  \/ Appends(rows) /\ rows \in Seq(Execution)
  \/ UNCHANGED <<df, sorted, maxEnd>> /\ queued' = rows /\ rows \in Seq(Execution)

LEMMA HeldAfter ==
  ASSUME StoreTypes, NEW rows, StoreMoves(rows)
  PROVE  /\ Held' = df \o rows
         /\ queued' \in Seq(Execution) /\ df' \in Seq(Execution)
         /\ sorted' \in BOOLEAN /\ maxEnd' \in Nat \cup {-1}
<1>1. df \in Seq(Execution) /\ sorted \in BOOLEAN /\ maxEnd \in Nat \cup {-1}
  BY DEF StoreTypes
<1>2. CASE Appends(rows) /\ rows \in Seq(Execution)
  <2>1. queued' = << >> /\ df' = df \o rows /\ df' \in Seq(Execution)
        /\ sorted' \in BOOLEAN /\ maxEnd' \in Nat \cup {-1}
    BY <1>2 DEF Appends
  <2>2. Held' = df'
    BY <2>1 DEF Held
  <2>3. QED  BY <2>1, <2>2, CmdTypes
<1>3. CASE UNCHANGED <<df, sorted, maxEnd>> /\ queued' = rows /\ rows \in Seq(Execution)
  BY <1>1, <1>3 DEF Held
<1>4. QED  BY <1>2, <1>3 DEF StoreMoves

LEMMA TakeRowsMoves ==
  ASSUME StoreTypes, TakeRows
  PROVE  StoreMoves(queued \o channel[1].items)
<1>1. channel # << >> /\ channel[1].kind = "executions" /\ T!Receive(channel[1].items)
  BY DEF TakeRows, Takes
<1>2. channel[1].items \in Seq(Execution) /\ queued \in Seq(Execution)
  BY <1>1, TakenType DEF StoreTypes
<1>3. queued \o channel[1].items \in Seq(Execution)
  BY <1>2, ConcatProperties
<1>4. CASE T!FlushPending(queued \o channel[1].items)
  BY <1>3, <1>4, AppendHas DEF StoreMoves
<1>5. CASE queued' = queued \o channel[1].items /\ UNCHANGED T!store
  BY <1>3, <1>5 DEF StoreMoves, T!store
<1>6. QED  BY <1>1, <1>4, <1>5 DEF T!Receive

LEMMA FlushMoves ==
  ASSUME StoreTypes, TakeQuery \/ IdleFlush
  PROVE  StoreMoves(queued) /\ Appends(queued)
<1>1. queued \in Seq(Execution)
  BY DEF StoreTypes
<1>2. T!FlushPending(queued)
  BY DEF TakeQuery, IdleFlush, T!Flush
<1>3. QED  BY <1>1, <1>2, AppendHas DEF StoreMoves

\* What a step of the DB thread does: nothing is lost on the way to the frame.
LEMMA DbMoves ==
  ASSUME StoreTypes, DbStep
  PROVE  /\ StoreTypes' /\ Reach' = Reach /\ GcReach' = GcReach
         /\ UNCHANGED <<toDb, given, pending, pendingGc, stream, decoded, cur, at, total, origin, span>>
<1>0. /\ channel \in Seq(Cmd) /\ gcs \in Seq(1..MaxFrames) /\ queued \in Seq(Execution)
      /\ df \in Seq(Execution) /\ Held \in Seq(Execution)
  BY ConcatProperties DEF StoreTypes, Held
<1>1. UNCHANGED <<toDb, given, pending, pendingGc, stream, decoded, cur, at, total, origin, span>>
  BY DEF DbStep, TakeRows, TakeGc, TakeQuery, IdleFlush, vars, counters
<1>2. ASSUME channel # << >>, channel' = Tail(channel)
      PROVE  /\ channel' \in Seq(Cmd)
             /\ RowsOf(channel) = Cat(RowsOf(<<channel[1]>>), RowsOf(channel'))
             /\ GcsOf(channel) = Cat(GcsOf(<<channel[1]>>), GcsOf(channel'))
             /\ RowsOf(<<channel[1]>>) \in Seq(Execution) /\ RowsOf(channel') \in Seq(Execution)
             /\ GcsOf(<<channel[1]>>) \in Seq(1..MaxFrames) /\ GcsOf(channel') \in Seq(1..MaxFrames)
             /\ RowsOf(<<channel[1]>>) = IF channel[1].kind = "executions" THEN channel[1].items ELSE << >>
             /\ GcsOf(<<channel[1]>>) = IF channel[1].kind = "gc" THEN channel[1].items ELSE << >>
  <2>1. channel[1] \in Cmd /\ channel' \in Seq(Cmd) /\ channel = <<channel[1]>> \o channel'
    BY <1>2, TakenType
  <2>2. <<channel[1]>> \in Seq(Cmd)
    BY <2>1
  <2> DEFINE c == channel[1]
             rest == channel'
  <2>3. c \in Cmd /\ <<c>> \in Seq(Cmd) /\ rest \in Seq(Cmd) /\ channel = <<c>> \o rest
    BY <2>1, <2>2
  <2> HIDE DEF c, rest
  <2>4. /\ RowsOf(channel) = RowsOf(<<c>>) \o RowsOf(rest)
        /\ GcsOf(channel) = GcsOf(<<c>>) \o GcsOf(rest)
        /\ RowsOf(<<c>>) \in Seq(Execution) /\ RowsOf(rest) \in Seq(Execution)
        /\ GcsOf(<<c>>) \in Seq(1..MaxFrames) /\ GcsOf(rest) \in Seq(1..MaxFrames)
    BY <2>3, RowsConcat, GcsConcat
  <2>5. /\ RowsOf(<<c>>) = IF c.kind = "executions" THEN c.items ELSE << >>
        /\ GcsOf(<<c>>) = IF c.kind = "gc" THEN c.items ELSE << >>
    BY <2>3, FewCommands
  <2>6. QED  BY <2>3, <2>4, <2>5, Zenon DEF c, rest, Cat
<1>3. Associative(Execution) /\ Associative(1..MaxFrames)
  BY CatLaws
<1>4. CASE TakeRows
  <2> DEFINE x == RowsOf(<<channel[1]>>)
             r == RowsOf(channel')
  <2>1. channel # << >> /\ channel' = Tail(channel) /\ channel[1].kind = "executions" /\ gcs' = gcs
    BY <1>4 DEF TakeRows, Takes
  <2>2. StoreMoves(queued \o channel[1].items)
    BY <1>4, TakeRowsMoves
  <2>3. /\ Held' = df \o (queued \o channel[1].items)
        /\ queued' \in Seq(Execution) /\ df' \in Seq(Execution)
        /\ sorted' \in BOOLEAN /\ maxEnd' \in Nat \cup {-1}
    BY <2>2, HeldAfter
  <2>4. x \in Seq(Execution) /\ r \in Seq(Execution) /\ x = channel[1].items
        /\ RowsOf(channel) = Cat(x, r) /\ channel' \in Seq(Cmd)
    BY <1>2, <2>1
  <2>5. Held' = Cat(df, Cat(queued, x)) /\ Held = Cat(df, queued)
    BY <2>3, <2>4 DEF Cat, Held
  <2>6. Reach' = Cat(Held', r)
    BY DEF Reach, Cat, RowsOf, ItemsOf
  <2>7. GcsOf(channel) = GcsOf(channel')
    <3>1. GcsOf(<<channel[1]>>) = << >> /\ GcsOf(channel') \in Seq(1..MaxFrames)
          /\ GcsOf(channel) = GcsOf(<<channel[1]>>) \o GcsOf(channel')
      BY <1>2, <2>1 DEF Cat
    <3>2. QED  BY <3>1, NothingJoined
  <2> HIDE DEF x, r
  <2>8. Cat(Cat(df, Cat(queued, x)), r) = Cat(Cat(df, queued), Cat(x, r))
    <3>1. /\ df \in Seq(Execution) /\ queued \in Seq(Execution)
          /\ x \in Seq(Execution) /\ r \in Seq(Execution)
      BY <1>0, <2>4
    <3>a. Cat(df, queued) \in Seq(Execution)
      BY <1>3, <3>1, Zenon DEF Associative
    <3>b. Cat(Cat(df, queued), x) = Cat(df, Cat(queued, x))
      BY <1>3, <3>1 DEF Associative
    <3>2. Cat(Cat(df, queued), x) = Cat(df, Cat(queued, x)) /\ Cat(df, queued) \in Seq(Execution)
      BY <3>a, <3>b
    <3>3. Cat(Cat(Cat(df, queued), x), r) = Cat(Cat(df, queued), Cat(x, r))
      BY <1>3, <3>1, <3>2, Zenon DEF Associative
    <3>4. QED  BY <3>2, <3>3, Zenon
  <2>9. Reach' = Reach
    BY <2>4, <2>5, <2>6, <2>8, Zenon DEF Reach
  <2>10. GcReach' = GcReach
    BY <2>1, <2>7 DEF GcReach, GcsOf, ItemsOf, Cat
  <2>11. StoreTypes'
    BY <1>0, <2>1, <2>3, <2>4, Zenon DEF StoreTypes
  <2>12. QED  BY <1>1, <2>9, <2>10, <2>11
<1>5. CASE TakeGc
  <2> DEFINE x == GcsOf(<<channel[1]>>)
             r == GcsOf(channel')
  <2>1. channel # << >> /\ channel' = Tail(channel) /\ channel[1].kind = "gc"
        /\ gcs' = gcs \o channel[1].items /\ UNCHANGED <<df, queued, sorted, maxEnd>>
    BY <1>5 DEF TakeGc, Takes, frame
  <2>2. x \in Seq(1..MaxFrames) /\ r \in Seq(1..MaxFrames) /\ x = channel[1].items
        /\ GcsOf(channel) = Cat(x, r) /\ channel' \in Seq(Cmd)
    BY <1>2, <2>1
  <2>3. RowsOf(channel) = RowsOf(channel')
    <3>1. RowsOf(<<channel[1]>>) = << >> /\ RowsOf(channel') \in Seq(Execution)
          /\ RowsOf(channel) = RowsOf(<<channel[1]>>) \o RowsOf(channel')
      BY <1>2, <2>1 DEF Cat
    <3>2. QED  BY <3>1, NothingJoined
  <2>4. gcs' = Cat(gcs, x)
    BY <2>1, <2>2 DEF Cat
  <2>5. GcReach' = Cat(gcs', r)
    BY DEF GcReach, Cat, GcsOf, ItemsOf
  <2> HIDE DEF x, r
  <2>6. Cat(Cat(gcs, x), r) = Cat(gcs, Cat(x, r)) /\ Cat(gcs, x) \in Seq(1..MaxFrames)
    BY <1>0, <1>3, <2>2 DEF Associative
  <2>7. GcReach' = GcReach
    BY <2>2, <2>4, <2>5, <2>6, Zenon DEF GcReach
  <2>8. Reach' = Reach
    BY <2>1, <2>3 DEF Reach, Held, RowsOf, ItemsOf, Cat
  <2>9. StoreTypes'
    BY <2>1, <2>2, <2>4, <2>6, Zenon DEF StoreTypes
  <2>10. QED  BY <1>1, <2>7, <2>8, <2>9
<1>6. CASE TakeQuery
  <2>1. channel # << >> /\ channel' = Tail(channel) /\ channel[1].kind = "query" /\ gcs' = gcs
    BY <1>6 DEF TakeQuery, Takes
  <2>2. StoreMoves(queued)
    BY <1>6, FlushMoves
  <2>3. /\ Held' = Held
        /\ queued' \in Seq(Execution) /\ df' \in Seq(Execution)
        /\ sorted' \in BOOLEAN /\ maxEnd' \in Nat \cup {-1}
    BY <2>2, HeldAfter DEF Held
  <2>4. /\ RowsOf(<<channel[1]>>) = << >> /\ GcsOf(<<channel[1]>>) = << >>
        /\ RowsOf(channel') \in Seq(Execution) /\ GcsOf(channel') \in Seq(1..MaxFrames)
        /\ RowsOf(channel) = RowsOf(<<channel[1]>>) \o RowsOf(channel')
        /\ GcsOf(channel) = GcsOf(<<channel[1]>>) \o GcsOf(channel')
        /\ channel' \in Seq(Cmd)
    BY <1>2, <2>1 DEF Cat
  <2>5. RowsOf(channel) = RowsOf(channel') /\ GcsOf(channel) = GcsOf(channel')
    BY <2>4, NothingJoined
  <2>6. Reach' = Reach /\ GcReach' = GcReach
    BY <2>1, <2>3, <2>5 DEF Reach, GcReach, RowsOf, GcsOf, ItemsOf, Cat
  <2>7. StoreTypes'
    BY <1>0, <2>1, <2>3, <2>4, Zenon DEF StoreTypes
  <2>8. QED  BY <1>1, <2>6, <2>7
<1>7. CASE IdleFlush
  <2>1. channel' = channel /\ gcs' = gcs
    BY <1>7 DEF IdleFlush
  <2>2. StoreMoves(queued)
    BY <1>7, FlushMoves
  <2>3. /\ Held' = Held
        /\ queued' \in Seq(Execution) /\ df' \in Seq(Execution)
        /\ sorted' \in BOOLEAN /\ maxEnd' \in Nat \cup {-1}
    BY <2>2, HeldAfter DEF Held
  <2>4. Reach' = Reach /\ GcReach' = GcReach
    BY <2>1, <2>3 DEF Reach, GcReach, RowsOf, GcsOf, ItemsOf, Cat
  <2>5. StoreTypes'
    BY <1>0, <2>1, <2>3, Zenon DEF StoreTypes
  <2>6. QED  BY <1>1, <2>4, <2>5
<1>8. QED  BY <1>4, <1>5, <1>6, <1>7 DEF DbStep
-----------------------------------------------------------------------------
(* The types are kept. *)

LEMMA HandleStepTypes == TypeOK /\ PipeTypes /\ HandleStep => PipeTypes'
<1> SUFFICES ASSUME TypeOK, PipeTypes, HandleStep PROVE PipeTypes'
  OBVIOUS
<1>0. HandleTypes /\ StoreTypes /\ ViewerTypes
  BY DEF PipeTypes
<1>1. UNCHANGED <<toDb, queued, df, sorted, maxEnd, gcs, query>>
  BY DEF HandleStep, AddTotal, SetOrigin, RaiseSpan, SendCall, vars, dbThread, viewer, frame
<1>2. given \in Nat /\ given <= Len(toDb) /\ total \in Nat /\ span \in Nat /\ origin \in Nat \cup {-1}
      /\ Filled(toDb) /\ Len(toDb) \in Nat
  BY <1>0, Parts, LenProperties DEF HandleTypes
<1>3. Calling
  BY <1>0 DEF HandleStep, AddTotal, SetOrigin, RaiseSpan, SendCall, HandleTypes, Calling
<1>4. /\ Call.kind # "gc" <=> Call.kind = "executions"
      /\ Call.kind = "executions" => /\ Call.items \in Seq(Execution)
                                     /\ Len(Call.items) \in Nat /\ Call.items[1] \in Execution
  BY <1>0, <1>3, CallType
<1>5. Filled(toDb)' /\ ViewerTypes'
  BY <1>0, <1>1, <1>2 DEF Filled, ViewerTypes
<1>6. CASE AddTotal
  <2>1. UNCHANGED <<given, origin, span, channel>>
    BY <1>6 DEF AddTotal, dbThread
  <2>2. StoreTypes'
    BY <1>0, <1>1, <2>1 DEF StoreTypes
  <2>3. Call' = Call
    BY <1>1, <2>1 DEF Call
  <2>4. total' \in Nat /\ at' \in {"origin", "send"} /\ (at' = "origin" => Call.kind = "executions")
    BY <1>2, <1>4, <1>6 DEF AddTotal
  <2>5. HandleTypes'
    BY <1>1, <1>2, <1>3, <1>5, <2>1, <2>3, <2>4 DEF HandleTypes, Calling
  <2>6. QED  BY <1>5, <2>2, <2>5 DEF PipeTypes
<1>7. CASE SetOrigin
  <2>1. UNCHANGED <<given, total, span, channel>> /\ at = "origin" /\ at' = "span"
    BY <1>7 DEF SetOrigin, dbThread
  <2>2. StoreTypes'
    BY <1>0, <1>1, <2>1 DEF StoreTypes
  <2>3. Call' = Call /\ Call.kind = "executions"
    BY <1>0, <1>1, <2>1 DEF Call, HandleTypes
  <2>4. Call.items[1].start \in Nat
    BY <1>4, <2>3 DEF Execution
  <2>5. origin' \in Nat \cup {-1}
    BY <1>2, <1>7, <2>4 DEF SetOrigin
  <2>6. HandleTypes'
    BY <1>1, <1>2, <1>3, <1>5, <2>1, <2>3, <2>5 DEF HandleTypes, Calling
  <2>7. QED  BY <1>5, <2>2, <2>6 DEF PipeTypes
<1>8. CASE RaiseSpan
  <2>1. UNCHANGED <<given, total, origin, channel>> /\ at = "span" /\ at' = "send"
    BY <1>8 DEF RaiseSpan, dbThread
  <2>2. StoreTypes'
    BY <1>0, <1>1, <2>1 DEF StoreTypes
  <2>3. Call.kind = "executions"
    BY <1>0, <2>1 DEF HandleTypes
  <2>4. span' \in Nat
    BY <1>2, <1>4, <1>8, <2>3, SpanRaised DEF RaiseSpan
  <2>5. HandleTypes'
    BY <1>1, <1>2, <1>3, <1>5, <2>1, <2>4 DEF HandleTypes, Calling
  <2>6. QED  BY <1>5, <2>2, <2>5 DEF PipeTypes
<1>9. CASE SendCall
  <2>1. UNCHANGED <<total, origin, span>> /\ at' = "total" /\ given' = given + 1
    BY <1>9 DEF SendCall, counters
  <2>2. channel' \in Seq(Cmd)
    BY <1>0, <1>9, SendMoves
  <2>3. StoreTypes'
    BY <1>0, <1>1, <2>2 DEF StoreTypes
  <2>4. given' \in Nat /\ given' <= Len(toDb')
    BY <1>1, <1>2, <1>3, <2>1 DEF Calling
  <2>5. HandleTypes'
    BY <1>2, <1>5, <2>1, <2>4 DEF HandleTypes
  <2>6. QED  BY <1>5, <2>3, <2>5 DEF PipeTypes
<1>10. QED  BY <1>6, <1>7, <1>8, <1>9 DEF HandleStep

LEMMA NextTypes == IInv /\ PipeTypes /\ [PipeNext]_pipeVars => PipeTypes'
<1> SUFFICES ASSUME IInv, PipeTypes, [PipeNext]_pipeVars PROVE PipeTypes'
  OBVIOUS
<1>0. TypeOK /\ EndClosesNothing /\ HandleTypes /\ StoreTypes /\ ViewerTypes
  BY DEF IInv, PipeTypes
<1>1. CASE HandleStep
  BY <1>0, <1>1, HandleStepTypes
<1>2. CASE CollectorRuns
  <2>1. given' <= Len(toDb') /\ Filled(toDb')
    BY <1>0, <1>2, CollectorMoves
  <2>2. UNCHANGED <<given, at, total, origin, span, channel, queued, df, sorted, maxEnd, gcs, query>>
    BY <1>2 DEF CollectorRuns, counters, dbThread, frame, viewer
  <2>3. at = "total"
    BY <1>0, <1>2 DEF CollectorRuns, Calling, HandleTypes
  <2>4. HandleTypes'
    BY <1>0, <2>1, <2>2, <2>3 DEF HandleTypes, Filled
  <2>5. StoreTypes' /\ ViewerTypes'
    BY <1>0, <2>2 DEF StoreTypes, ViewerTypes
  <2>6. QED  BY <2>4, <2>5 DEF PipeTypes
<1>3. CASE OutsideMoves \/ PoolAnswers \/ UNCHANGED pipeVars
  <2>1. UNCHANGED <<given, at, total, origin, span, channel, queued, df, sorted, maxEnd, gcs, toDb>>
    BY <1>3 DEF OutsideMoves, PoolAnswers, Send, Close, AskStop, counters, dbThread, frame, viewer,
                pipeVars, vars
  <2>2. HandleTypes'
    BY <1>0, <2>1 DEF HandleTypes, Filled, Call
  <2>3. StoreTypes'
    BY <1>0, <2>1 DEF StoreTypes
  <2>4. ViewerTypes'
    BY <1>0, <1>3 DEF OutsideMoves, PoolAnswers, viewer, pipeVars, ViewerTypes
  <2>5. QED  BY <2>2, <2>3, <2>4 DEF PipeTypes
<1>4. CASE Ask
  <2>1. UNCHANGED <<given, at, total, origin, span, queued, df, sorted, maxEnd, gcs, toDb>>
        /\ channel' = Append(channel, Query)
    BY <1>4 DEF Ask, counters, frame, vars
  <2>2. HandleTypes'
    BY <1>0, <2>1 DEF HandleTypes, Filled, Call
  <2>3. channel' \in Seq(Cmd)
    BY <1>0, <2>1, AppendProperties DEF StoreTypes, Cmd
  <2>4. StoreTypes'
    BY <1>0, <2>1, <2>3 DEF StoreTypes
  <2>5. Len(RowsOf(SubSeq(toDb, 1, given))) \in Nat
    <3>1. toDb \in Seq(Command) /\ given \in Nat /\ given <= Len(toDb) /\ Len(toDb) \in Nat
      BY <1>0, Parts, LenProperties DEF HandleTypes
    <3>2. \A i \in 1..given : toDb[i] \in Command
      BY <3>1, ElementOfSeq
    <3>3. SubSeq(toDb, 1, given) \in Seq(Command)
      BY <3>1, <3>2, SubSeqProperties
    <3>4. SubSeq(toDb, 1, given) \in Seq(Cmd)
      BY <3>3, CmdTypes
    <3>5. RowsOf(SubSeq(toDb, 1, given)) \in Seq(Execution)
      BY <3>4, RowsConcat
    <3>6. QED  BY <3>5, LenProperties
  <2>6. ViewerTypes'
    BY <1>4, <2>5 DEF Ask, ViewerTypes
  <2>7. QED  BY <2>2, <2>4, <2>6 DEF PipeTypes
<1>5. CASE DbStep
  <2>1. StoreTypes' /\ UNCHANGED <<toDb, given, at, total, origin, span>>
    BY <1>0, <1>5, DbMoves
  <2>2. HandleTypes'
    BY <1>0, <2>1 DEF HandleTypes, Filled, Call
  <2>3. Len(df') \in Nat
    BY <2>1, LenProperties DEF StoreTypes
  <2>4. ViewerTypes'
    <3>1. CASE TakeQuery
      BY <1>0, <2>3, <3>1 DEF TakeQuery, ViewerTypes
    <3>2. CASE query' = query
      BY <1>0, <3>2 DEF ViewerTypes
    <3>3. QED  BY <1>5, <3>1, <3>2 DEF DbStep, TakeRows, TakeGc, IdleFlush, viewer
  <2>5. QED  BY <2>1, <2>2, <2>4 DEF PipeTypes
<1>6. QED  BY <1>1, <1>2, <1>3, <1>4, <1>5 DEF PipeNext

LEMMA InitTypes == PipeInit => PipeTypes
<1> SUFFICES ASSUME PipeInit PROVE PipeTypes
  OBVIOUS
<1>1. /\ given = 0 /\ at = "total" /\ total = 0 /\ origin = -1 /\ span = 0 /\ channel = << >>
      /\ queued = << >> /\ df = << >> /\ gcs = << >> /\ sorted = TRUE /\ maxEnd = -1
      /\ query = NoQuery /\ toDb = << >>
  BY DEF PipeInit, Init, T!Init
<1>2. Len(<< >>) = 0 /\ Filled(<< >>)
  BY DEF Filled
<1>3. HandleTypes
  BY <1>1, <1>2 DEF HandleTypes
<1>4. StoreTypes
  BY <1>1, CmdTypes DEF StoreTypes
<1>5. ViewerTypes
  BY <1>1 DEF ViewerTypes, NoQuery
<1>6. QED  BY <1>3, <1>4, <1>5 DEF PipeTypes
-----------------------------------------------------------------------------
(* One row per closed interval, one pause per gc frame. *)

ExactRows ==
  /\ Len(AllRows) = Cardinality(Closers)
  /\ \A j \in Closers : AllRows[Rank(Closers, j)] = RowOf(j)
ExactGcs ==
  /\ Len(AllGcs) = Cardinality(GcPlaces)
  /\ \A j \in GcPlaces : AllGcs[Rank(GcPlaces, j)] = j

LEMMA ExactIs ==
  ASSUME TypeOK, HandleTypes, StoreTypes
  PROVE  PipeExact <=> ExactRows /\ ExactGcs
<1>1. /\ channel \in Seq(Cmd) /\ Calls \in Seq(Cmd)
      /\ Held \in Seq(Execution) /\ pending \in Seq(Execution)
      /\ RowsOf(channel) \in Seq(Execution) /\ RowsOf(Calls) \in Seq(Execution)
      /\ gcs \in Seq(1..MaxFrames) /\ pendingGc \in Seq(1..MaxFrames)
      /\ GcsOf(channel) \in Seq(1..MaxFrames) /\ GcsOf(Calls) \in Seq(1..MaxFrames)
  BY AllTypes
<1>2. /\ RowsOf(channel \o Calls) = Cat(RowsOf(channel), RowsOf(Calls))
      /\ GcsOf(channel \o Calls) = Cat(GcsOf(channel), GcsOf(Calls))
  BY <1>1, RowsConcat, GcsConcat DEF Cat
<1>3. Associative(Execution) /\ Associative(1..MaxFrames)
  BY CatLaws
<1>4. /\ Cat(Cat(Held, RowsOf(channel)), RowsOf(Calls)) = Cat(Held, Cat(RowsOf(channel), RowsOf(Calls)))
      /\ Cat(Cat(gcs, GcsOf(channel)), GcsOf(Calls)) = Cat(gcs, Cat(GcsOf(channel), GcsOf(Calls)))
  <2> DEFINE c == RowsOf(channel)
             r == RowsOf(Calls)
             x == GcsOf(channel)
             y == GcsOf(Calls)
             h == Held
  <2>1. c \in Seq(Execution) /\ r \in Seq(Execution) /\ h \in Seq(Execution)
    BY <1>1
  <2>2. x \in Seq(1..MaxFrames) /\ y \in Seq(1..MaxFrames) /\ gcs \in Seq(1..MaxFrames)
    BY <1>1
  <2> HIDE DEF c, r, x, y, h
  <2>3. Cat(Cat(h, c), r) = Cat(h, Cat(c, r))
    BY ONLY <1>3, <2>1 DEF Associative
  <2>4. Cat(Cat(gcs, x), y) = Cat(gcs, Cat(x, y))
    BY ONLY <1>3, <2>2 DEF Associative
  <2>5. QED  BY <2>3, <2>4, Zenon DEF c, r, x, y, h
<1>5. AllRows = df \o queued \o RowsOf(channel \o Calls) \o pending
  BY <1>2, <1>4, Zenon DEF AllRows, Cat, Held
<1>6. AllGcs = gcs \o GcsOf(channel \o Calls) \o pendingGc
  BY <1>2, <1>4, Zenon DEF AllGcs, Cat
<1> DEFINE rows == df \o queued \o RowsOf(channel \o Calls) \o pending
           gaps == gcs \o GcsOf(channel \o Calls) \o pendingGc
<1>7. PipeExact <=> InPlace(rows, Closers, RowOf) /\ InPlace(gaps, GcPlaces, LAMBDA j : j)
  BY DEF PipeExact, Calls
<1>8. rows = AllRows /\ gaps = AllGcs
  BY <1>5, <1>6
<1> HIDE DEF rows, gaps
<1>9. InPlace(rows, Closers, RowOf) <=> ExactRows
  BY <1>8 DEF InPlace, ExactRows, Rank
<1>10. InPlace(gaps, GcPlaces, LAMBDA j : j) <=> ExactGcs
  BY <1>8 DEF InPlace, ExactGcs, Rank
<1>11. QED  BY <1>7, <1>9, <1>10

LEMMA PlacesType ==
  ASSUME TypeOK
  PROVE  /\ Closers \in SUBSET Nat /\ IsFiniteSet(Closers) /\ \A j \in Closers : j < decoded + 1
         /\ GcPlaces \in SUBSET Nat /\ IsFiniteSet(GcPlaces) /\ \A j \in GcPlaces : j < decoded + 1
<1>1. decoded \in Nat
  BY Parts
<1>2. IsFiniteSet(1..decoded)
  BY <1>1, FS_Interval
<1>3. Closers \in SUBSET (1..decoded) /\ GcPlaces \in SUBSET (1..decoded)
  BY DEF Closers, GcPlaces
<1>4. IsFiniteSet(Closers) /\ IsFiniteSet(GcPlaces)
  BY <1>2, <1>3, FS_Subset
<1>5. QED  BY <1>1, <1>3, <1>4

\* The execution a switch closes is the one the reference says.
LEMMA ClosedIsRow ==
  ASSUME TypeOK, Stamped, CurIsLast, pc # "stopped",
         decoded + 1 \in 1..Len(stream), Frame1.kind = "switch"
  PROVE  /\ Earlier(decoded + 1) = {} => Closed(Frame1) = << >>
         /\ Earlier(decoded + 1) # {} => Closed(Frame1) = <<RowOf(decoded + 1)>>
<1> DEFINE th == Frame1.thread
           ks == Seen(th)
<1>1. decoded \in Nat /\ (decoded + 1) - 1 = decoded /\ Frame1 \in Frame
      /\ \A i \in 1..decoded : stream[i] \in Frame /\ i \in 1..Len(stream)
  BY Parts, ElementOfSeq DEF Frame1
<1>2. th \in Threads /\ Frame1.ts \in Nat
  BY <1>1, ClosedType
<1>3. Earlier(decoded + 1) = ks
  BY <1>1 DEF Earlier, Seen, Frame1
<1>4. CASE ks = {}
  BY <1>2, <1>3, <1>4 DEF CurIsLast, Closed
<1>5. CASE ks # {}
  <2>1. ks \in SUBSET (1..decoded)
    BY DEF Seen
  <2>2. PICK i \in ks : \A k \in ks : k <= i
    <3> HIDE DEF ks
    <3>1. QED  BY <1>1, <1>5, <2>1, LastPlace
  <2>3. cur[th] = [target |-> stream[i].target, start |-> stream[i].ts]
    BY <1>2, <2>2 DEF CurIsLast, RunsSince
  <2>4. stream[i] \in Frame /\ stream[i].kind = "switch" /\ stream[i].thread = th /\ i \in 1..decoded
    BY <1>1, <2>1, <2>2 DEF Seen, IsSwitchOf
  <2>5. stream[i].ts \in Nat /\ stream[i].target \in 1..MaxFrames
    BY <2>4 DEF Frame, Meta, Bad
  <2>6. cur[th].target = stream[i].target /\ cur[th].start = stream[i].ts
    BY <2>3
  <2>7. cur[th] # NotRunning
    <3>1. stream[i].target # 0
      BY <2>5
    <3>2. NotRunning.target = 0
      BY DEF NotRunning
    <3>3. QED  BY <2>6, <3>1, <3>2
  <2>8. stream[i].ts <= Frame1.ts
    BY <1>1, <2>4 DEF Stamped, IsSwitchOf, Frame1
  <2>9. Monus(Frame1.ts, cur[th].start) = Frame1.ts - stream[i].ts
    BY <1>2, <2>5, <2>6, <2>8 DEF Monus
  <2> DEFINE c == CHOOSE k \in ks : \A j \in ks : j <= k
  <2>10. c = i
    <3>1. c \in ks /\ \A j \in ks : j <= c
      BY <2>2
    <3>2. c <= i /\ i <= c /\ c \in Nat /\ i \in Nat
      BY <1>1, <2>1, <2>2, <3>1
    <3> HIDE DEF c
    <3>3. QED  BY <3>2
  <2>11. RowOf(decoded + 1) = [gid |-> stream[c].target, start |-> stream[c].ts,
                               dur |-> Frame1.ts - stream[c].ts]
    BY <1>3 DEF RowOf, Frame1
  <2> HIDE DEF c, th, ks
  <2>12. Closed(Frame1) = <<[gid |-> cur[th].target, start |-> cur[th].start,
                             dur |-> Monus(Frame1.ts, cur[th].start)]>>
    BY <2>7 DEF Closed, th
  <2>13. QED  BY <1>3, <1>5, <2>6, <2>9, <2>10, <2>11, <2>12
<1>6. QED  BY <1>4, <1>5

\* What happens to the places when a frame is decoded.
LEMMA PlacesGrow ==
  ASSUME TypeOK, Decode, decoded' = decoded + 1
  PROVE  /\ Closers' = Closers \cup (IF Frame1.kind = "switch" /\ Earlier(decoded + 1) # {}
                                     THEN {decoded + 1} ELSE {})
         /\ GcPlaces' = GcPlaces \cup (IF Frame1.kind = "gc" THEN {decoded + 1} ELSE {})
         /\ \A j : RowOf(j)' = RowOf(j)
<1>1. stream' = stream /\ decoded \in Nat /\ 1..(decoded + 1) = (1..decoded) \cup {decoded + 1}
  BY Parts DEF Decode, source
<1>2. \A j : Earlier(j)' = Earlier(j)
  BY <1>1 DEF Earlier
<1>3. \A j : RowOf(j)' = RowOf(j)
  BY <1>1, <1>2 DEF RowOf
<1>4. Closers' = {j \in (1..decoded) \cup {decoded + 1} : stream[j].kind = "switch" /\ Earlier(j) # {}}
  BY <1>1, <1>2 DEF Closers
<1>5. GcPlaces' = {j \in (1..decoded) \cup {decoded + 1} : stream[j].kind = "gc"}
  BY <1>1 DEF GcPlaces
<1>6. QED  BY <1>3, <1>4, <1>5 DEF Closers, GcPlaces, Frame1

\* One more place at the end and its entry at the end.
Extends(longer, seq, e, places, d) ==
  /\ Len(longer) = Cardinality(places \cup {d})
  /\ longer[Rank(places \cup {d}, d)] = e
  /\ \A j \in places : longer[Rank(places \cup {d}, j)] = seq[Rank(places, j)]

LEMMA EntryAdded ==
  ASSUME NEW S, NEW seq, seq \in Seq(S), NEW e, e \in S, NEW places, places \in SUBSET Nat, IsFiniteSet(places),
         NEW d, d \in Nat, \A i \in places : i < d, Len(seq) = Cardinality(places),
         NEW longer, longer = seq \o <<e>>
  PROVE  Extends(longer, seq, e, places, d)
<1>1. /\ Cardinality(places \cup {d}) = Cardinality(places) + 1
      /\ Rank(places \cup {d}, d) = Cardinality(places) + 1 /\ Cardinality(places) \in Nat
      /\ \A j \in places : /\ Rank(places \cup {d}, j) = Rank(places, j)
                           /\ Rank(places, j) \in 1..Cardinality(places)
  BY RankOfNext
<1>2. <<e>> \in Seq(S) /\ Len(<<e>>) = 1 /\ <<e>>[1] = e
  OBVIOUS
<1> DEFINE one == <<e>>
<1>3. one \in Seq(S) /\ Len(one) = 1 /\ one[1] = e
  BY <1>2
<1> HIDE DEF one
<1>4. /\ Len(seq \o one) = Len(seq) + Len(one) /\ Len(seq) \in Nat
      /\ \A i \in 1..(Len(seq) + Len(one)) : (seq \o one)[i] = IF i <= Len(seq) THEN seq[i] ELSE one[i - Len(seq)]
  BY <1>3, ConcatProperties, LenProperties
<1>5. Len(seq \o one) = Cardinality(places \cup {d})
  BY <1>1, <1>3, <1>4
<1>6. (seq \o one)[Rank(places \cup {d}, d)] = e
  <2>1. (seq \o one)[Len(seq) + 1] = one[1]
    <3>1. Len(seq) + 1 \in 1..(Len(seq) + Len(one)) /\ ~(Len(seq) + 1 <= Len(seq))
          /\ (Len(seq) + 1) - Len(seq) = 1
      BY <1>3, <1>4
    <3>2. QED  BY <1>4, <3>1
  <2>2. QED  BY <1>1, <1>3, <2>1
<1>7. ASSUME NEW j \in places
      PROVE  (seq \o one)[Rank(places \cup {d}, j)] = seq[Rank(places, j)]
  <2>1. Rank(places, j) \in 1..(Len(seq) + Len(one)) /\ Rank(places, j) <= Len(seq)
    BY <1>1, <1>3, <1>4
  <2>2. QED  BY <1>1, <1>4, <2>1
<1>8. QED  BY <1>5, <1>6, <1>7 DEF one, Extends

LEMMA SameEntries ==
  ASSUME TypeOK, ExactRows, ExactGcs, AllRows' = AllRows, AllGcs' = AllGcs, decoded' = decoded,
         \A i \in 1..decoded : stream'[i] = stream[i]
  PROVE  ExactRows' /\ ExactGcs'
<1>1. decoded \in Nat
  BY Parts
<1>2. ASSUME NEW j \in 1..decoded PROVE Earlier(j)' = Earlier(j)
  <2>1. stream'[j] = stream[j] /\ \A i \in 1..(j - 1) : i \in 1..decoded /\ stream'[i] = stream[i]
    BY <1>1
  <2>2. QED  BY <2>1 DEF Earlier, IsSwitchOf
<1>3. Closers' = Closers
  BY <1>2 DEF Closers
<1>4. GcPlaces' = GcPlaces
  BY DEF GcPlaces
<1>5. ASSUME NEW j \in Closers PROVE RowOf(j)' = RowOf(j)
  <2>1. j \in 1..decoded /\ Earlier(j) # {} /\ Earlier(j)' = Earlier(j)
    BY <1>2 DEF Closers
  <2>2. Earlier(j) \in SUBSET (1..decoded)
    BY <1>1, <2>1 DEF Earlier
  <2> DEFINE i == CHOOSE i \in Earlier(j) : \A k \in Earlier(j) : k <= i
  <2>3. i \in Earlier(j)
    <3>1. \E m \in Earlier(j) : \A k \in Earlier(j) : k <= m
      BY <1>1, <2>1, <2>2, LastPlace
    <3>2. QED  BY <3>1
  <2>4. RowOf(j) = [gid |-> stream[i].target, start |-> stream[i].ts, dur |-> stream[j].ts - stream[i].ts]
    BY DEF RowOf
  <2>5. RowOf(j)' = [gid |-> stream'[i].target, start |-> stream'[i].ts, dur |-> stream'[j].ts - stream'[i].ts]
    BY <2>1 DEF RowOf
  <2> HIDE DEF i
  <2>6. stream'[i] = stream[i] /\ stream'[j] = stream[j]
    BY <2>1, <2>2, <2>3
  <2>7. QED  BY <2>4, <2>5, <2>6
<1>6. QED  BY <1>3, <1>4, <1>5 DEF ExactRows, ExactGcs, Rank

LEMMA DecodeExact ==
  ASSUME TypeOK, Stamped, CurIsLast, ExactRows, ExactGcs, Decode,
         AllRows \in Seq(Execution), AllGcs \in Seq(1..MaxFrames),
         NewRows \in Seq(Execution), NewGcs \in Seq(1..MaxFrames),
         AllRows' = Cat(AllRows, NewRows), AllGcs' = Cat(AllGcs, NewGcs)
  PROVE  ExactRows' /\ ExactGcs'
<1>1. decoded \in Nat /\ decoded + 1 \in 1..Len(stream) /\ decoded + 1 # decoded /\ pc # "stopped"
      /\ decoded' \in {decoded, decoded + 1} /\ stream' = stream /\ decoded + 1 \in Nat
  BY Parts DEF Decode, source
<1>2. AllRows \o << >> = AllRows /\ AllGcs \o << >> = AllGcs
  BY NothingJoined
<1>3. CASE decoded' = decoded
  <2>1. NewRows = << >> /\ NewGcs = << >>
    BY <1>3 DEF NewRows, NewGcs
  <2>2. AllRows' = AllRows /\ AllGcs' = AllGcs
    BY <1>2, <2>1 DEF Cat
  <2>3. QED  BY <1>1, <1>3, <2>2, SameEntries
<1>4. CASE decoded' = decoded + 1
  <2>0. /\ Closers \in SUBSET Nat /\ IsFiniteSet(Closers) /\ \A j \in Closers : j < decoded + 1
        /\ GcPlaces \in SUBSET Nat /\ IsFiniteSet(GcPlaces) /\ \A j \in GcPlaces : j < decoded + 1
    BY PlacesType
  <2>1. /\ Closers' = Closers \cup (IF Frame1.kind = "switch" /\ Earlier(decoded + 1) # {}
                                    THEN {decoded + 1} ELSE {})
        /\ GcPlaces' = GcPlaces \cup (IF Frame1.kind = "gc" THEN {decoded + 1} ELSE {})
        /\ \A j : RowOf(j)' = RowOf(j)
    BY <1>4, PlacesGrow
  <2>2. ExactRows'
    <3>1. CASE Frame1.kind = "switch" /\ Earlier(decoded + 1) # {}
      <4>1. NewRows = <<RowOf(decoded + 1)>>
        BY <1>1, <1>4, <3>1, ClosedIsRow DEF NewRows
      <4> DEFINE e == RowOf(decoded + 1)
                 d == decoded + 1
      <4>2. e \in Execution /\ AllRows' = AllRows \o <<e>> /\ d \in Nat /\ Closers' = Closers \cup {d}
        <5>1. 1 \in 1..Len(NewRows) /\ NewRows[1] = e
          BY <4>1
        <5>2. NewRows[1] \in Execution
          BY <5>1, ElementOfSeq
        <5>3. QED  BY <1>1, <2>1, <3>1, <4>1, <5>1, <5>2 DEF Cat
      <4>3. \A j : RowOf(j)' = RowOf(j)
        BY <2>1
      <4>4. \A j \in Closers : j < d
        BY <2>0
      <4>5. RowOf(d) = e
        OBVIOUS
      <4> HIDE DEF e, d
      <4>6. Len(AllRows) = Cardinality(Closers)
        BY DEF ExactRows
      <4>7. Extends(AllRows', AllRows, e, Closers, d)
        <5> DEFINE rows == AllRows
                   longer == AllRows'
                   places == Closers
        <5>1. rows \in Seq(Execution) /\ e \in Execution /\ places \in SUBSET Nat /\ IsFiniteSet(places)
              /\ d \in Nat /\ (\A i \in places : i < d) /\ Len(rows) = Cardinality(places)
              /\ longer = rows \o <<e>>
          BY <2>0, <4>2, <4>4, <4>6
        <5> HIDE DEF rows, longer, places
        <5>2. Extends(longer, rows, e, places, d)
          BY ONLY <5>1, EntryAdded
        <5>3. QED  BY <5>2 DEF rows, longer, places
      <4>8. \A j \in Closers' : AllRows'[Rank(Closers', j)] = RowOf(j)
        BY <4>2, <4>5, <4>7 DEF ExactRows, Extends
      <4>9. QED  BY <4>2, <4>3, <4>7, <4>8 DEF ExactRows, Rank, Extends
    <3>2. CASE ~(Frame1.kind = "switch" /\ Earlier(decoded + 1) # {})
      <4>1. NewRows = << >>
        BY <1>1, <3>2, ClosedIsRow DEF NewRows
      <4>2. AllRows' = AllRows /\ Closers' = Closers
        BY <1>2, <2>1, <3>2, <4>1 DEF Cat
      <4>3. QED  BY <2>1, <4>2 DEF ExactRows, Rank
    <3>3. QED  BY <3>1, <3>2
  <2>3. ExactGcs'
    <3>1. CASE Frame1.kind = "gc"
      <4> DEFINE d == decoded + 1
      <4>1. NewGcs = <<d>>
        BY <1>1, <1>4, <3>1 DEF NewGcs, Frame1, Stamped
      <4>2. d \in 1..MaxFrames /\ d \in Nat /\ AllGcs' = AllGcs \o <<d>> /\ GcPlaces' = GcPlaces \cup {d}
        BY <1>1, <2>1, <3>1, <4>1, Parts DEF Cat
      <4>3. \A j \in GcPlaces : j < d
        BY <2>0
      <4> HIDE DEF d
      <4>4. Len(AllGcs) = Cardinality(GcPlaces)
        BY DEF ExactGcs
      <4>5. Extends(AllGcs', AllGcs, d, GcPlaces, d)
        <5> DEFINE pauses == AllGcs
                   longer == AllGcs'
                   places == GcPlaces
        <5>1. pauses \in Seq(1..MaxFrames) /\ d \in 1..MaxFrames /\ places \in SUBSET Nat
              /\ IsFiniteSet(places) /\ d \in Nat /\ (\A i \in places : i < d)
              /\ Len(pauses) = Cardinality(places) /\ longer = pauses \o <<d>>
          BY <2>0, <4>2, <4>3, <4>4
        <5> HIDE DEF pauses, longer, places
        <5>2. Extends(longer, pauses, d, places, d)
          BY ONLY <5>1, EntryAdded
        <5>3. QED  BY <5>2 DEF pauses, longer, places
      <4>6. \A j \in GcPlaces' : AllGcs'[Rank(GcPlaces', j)] = j
        BY <4>2, <4>5 DEF ExactGcs, Extends
      <4>7. QED  BY <4>2, <4>5, <4>6 DEF ExactGcs, Rank, Extends
    <3>2. CASE Frame1.kind # "gc"
      <4>1. NewGcs = << >>
        BY <3>2 DEF NewGcs
      <4>2. AllGcs' = AllGcs /\ GcPlaces' = GcPlaces
        BY <1>2, <2>1, <3>2, <4>1 DEF Cat
      <4>3. QED  BY <4>2 DEF ExactGcs, Rank
    <3>3. QED  BY <3>1, <3>2
  <2>4. QED  BY <2>2, <2>3
<1>5. QED  BY <1>1, <1>3, <1>4

\* Every step of the pipeline but the collector's keeps the whole as it is.
LEMMA OthersKeepAll ==
  ASSUME TypeOK, PipeTypes, [PipeNext]_pipeVars, ~CollectorRuns
  PROVE  /\ AllRows' = AllRows /\ AllGcs' = AllGcs /\ decoded' = decoded /\ cur' = cur
         /\ \A i \in 1..decoded : stream'[i] = stream[i]
<1>0. HandleTypes /\ StoreTypes
  BY DEF PipeTypes
<1>1. CASE SendCall
  <2>1. AllRows' = AllRows /\ AllGcs' = AllGcs
    BY <1>0, <1>1, SendMoves
  <2>2. UNCHANGED vars
    BY <1>1 DEF SendCall
  <2>3. QED  BY <2>1, <2>2 DEF vars
<1>2. CASE DbStep
  <2>1. Reach' = Reach /\ GcReach' = GcReach
        /\ UNCHANGED <<toDb, given, pending, pendingGc, stream, decoded, cur>>
    BY <1>0, <1>2, DbMoves
  <2>2. Calls' = Calls
    BY <2>1 DEF Calls
  <2>3. AllRows = Cat(Cat(Reach, RowsOf(Calls)), pending) /\ AllGcs = Cat(Cat(GcReach, GcsOf(Calls)), pendingGc)
    BY DEF AllRows, AllGcs, Reach, GcReach
  <2>4. /\ AllRows' = Cat(Cat(Reach', RowsOf(Calls')), pending')
        /\ AllGcs' = Cat(Cat(GcReach', GcsOf(Calls')), pendingGc')
    BY DEF AllRows, AllGcs, Reach, GcReach, RowsOf, GcsOf, ItemsOf, Cat
  <2>5. AllRows' = AllRows /\ AllGcs' = AllGcs
    BY <2>1, <2>2, <2>3, <2>4, Zenon
  <2>6. QED  BY <2>1, <2>5
<1>3. CASE Ask
  <2>1. channel' = Append(channel, Query)
        /\ UNCHANGED <<toDb, given, pending, pendingGc, df, queued, gcs, stream, decoded, cur>>
    BY <1>3 DEF Ask, vars, frame
  <2>2. channel \in Seq(Cmd) /\ Query \in Cmd /\ <<Query>> \in Seq(Cmd)
    BY <1>0 DEF StoreTypes, Cmd
  <2>3. channel' = channel \o <<Query>>
    BY <2>1, <2>2, AppendIsConcat
  <2>4. RowsOf(<<Query>>) = << >> /\ GcsOf(<<Query>>) = << >>
    BY <2>2, FewCommands DEF Query
  <2>5. /\ RowsOf(channel') = RowsOf(channel) \o << >> /\ RowsOf(channel) \in Seq(Execution)
        /\ GcsOf(channel') = GcsOf(channel) \o << >> /\ GcsOf(channel) \in Seq(1..MaxFrames)
    BY <2>2, <2>3, <2>4, RowsConcat, GcsConcat
  <2>6. RowsOf(channel') = RowsOf(channel) /\ GcsOf(channel') = GcsOf(channel)
    BY <2>5, NothingJoined
  <2>7. Calls' = Calls /\ Held' = Held
    BY <2>1 DEF Calls, Held
  <2>8. /\ AllRows' = Cat(Cat(Cat(Held', RowsOf(channel')), RowsOf(Calls')), pending')
        /\ AllGcs' = Cat(Cat(Cat(gcs', GcsOf(channel')), GcsOf(Calls')), pendingGc')
    BY DEF AllRows, AllGcs, Held, RowsOf, GcsOf, ItemsOf, Cat
  <2>9. AllRows' = AllRows /\ AllGcs' = AllGcs
    BY <2>1, <2>6, <2>7, <2>8, Zenon DEF AllRows, AllGcs
  <2>10. QED  BY <2>1, <2>9
<1>4. CASE OutsideMoves \/ AddTotal \/ SetOrigin \/ RaiseSpan \/ PoolAnswers \/ UNCHANGED pipeVars
  <2>1. UNCHANGED <<toDb, given, pending, pendingGc, df, queued, gcs, channel, decoded, cur>>
    BY <1>4 DEF OutsideMoves, AddTotal, SetOrigin, RaiseSpan, PoolAnswers, pipeVars, vars, dbThread, frame,
                Send, Close, AskStop
  <2>2. AllRows' = AllRows /\ AllGcs' = AllGcs
    BY <2>1 DEF AllRows, AllGcs, Calls, Held, RowsOf, GcsOf, ItemsOf, Cat
  <2>3. \A i \in 1..decoded : stream'[i] = stream[i]
    <3>1. CASE Send
      <4>1. PICK f \in Frame : stream' = Append(stream, f)
        BY <3>1, FrameTypes DEF Send
      <4>2. \A i \in 1..Len(stream) : stream'[i] = stream[i]
        BY <4>1, Parts, AppendProperties
      <4>3. \A i \in 1..decoded : i \in 1..Len(stream)
        BY Parts
      <4>4. QED  BY <4>2, <4>3
    <3>2. CASE ~Send
      BY <1>4, <3>2 DEF OutsideMoves, AddTotal, SetOrigin, RaiseSpan, PoolAnswers, pipeVars, vars,
                        Close, AskStop
    <3>3. QED  BY <3>1, <3>2
  <2>4. QED  BY <2>1, <2>2, <2>3
<1>5. QED  BY <1>1, <1>2, <1>3, <1>4 DEF PipeNext, HandleStep

LEMMA NextExact ==
  ASSUME IInv, Stamped, CurIsLast, PipeTypes, ExactRows, ExactGcs, [PipeNext]_pipeVars
  PROVE  ExactRows' /\ ExactGcs'
<1>0. TypeOK /\ HandleTypes /\ StoreTypes
  BY DEF IInv, PipeTypes
<1>1. CASE CollectorRuns
  <2>1. AllRows' = Cat(AllRows, NewRows) /\ AllGcs' = Cat(AllGcs, NewGcs)
        /\ NewRows \in Seq(Execution) /\ NewGcs \in Seq(1..MaxFrames)
    BY <1>0, <1>1, CollectorMoves
  <2>2. AllRows \in Seq(Execution) /\ AllGcs \in Seq(1..MaxFrames)
    BY <1>0, AllTypes
  <2>3. CASE Decode
    BY <1>0, <2>1, <2>2, <2>3, DecodeExact
  <2>4. CASE ~Decode
    <3>1. decoded' = decoded /\ stream' = stream
      BY <1>1, <2>4 DEF CollectorRuns, Step, Top, TimedFlush, ReadSome, ReadIdle, ReadEnd, Finish, source
    <3>2. NewRows = << >> /\ NewGcs = << >>
      BY <3>1 DEF NewRows, NewGcs
    <3>3. AllRows' = AllRows /\ AllGcs' = AllGcs
      BY <2>1, <2>2, <3>2, NothingJoined DEF Cat
    <3>4. QED  BY <1>0, <3>1, <3>3, SameEntries
  <2>5. QED  BY <2>3, <2>4
<1>2. CASE ~CollectorRuns
  <2>1. /\ AllRows' = AllRows /\ AllGcs' = AllGcs /\ decoded' = decoded
        /\ \A i \in 1..decoded : stream'[i] = stream[i]
    BY <1>0, <1>2, OthersKeepAll
  <2>2. QED  BY <1>0, <2>1, SameEntries
<1>3. QED  BY <1>1, <1>2

LEMMA InitExact == PipeInit => ExactRows /\ ExactGcs
<1> SUFFICES ASSUME PipeInit PROVE ExactRows /\ ExactGcs
  OBVIOUS
<1>1. /\ given = 0 /\ channel = << >> /\ queued = << >> /\ df = << >> /\ gcs = << >>
      /\ toDb = << >> /\ pending = << >> /\ pendingGc = << >> /\ decoded = 0
  BY DEF PipeInit, Init, T!Init
<1>2. Calls = << >>
  BY <1>1 DEF Calls
<1>3. AllRows = << >> /\ AllGcs = << >>
  BY <1>1, <1>2, FewCommands DEF AllRows, AllGcs, Held, Cat
<1>4. Closers = {} /\ GcPlaces = {}
  BY <1>1 DEF Closers, GcPlaces
<1>5. Cardinality({}) = 0
  BY FS_EmptySet
<1>6. QED  BY <1>3, <1>4, <1>5 DEF ExactRows, ExactGcs
-----------------------------------------------------------------------------
(* The inductive invariant: the collector's, the types, what the collector   *)
(* takes to run, and the rows and pauses by place.                           *)

PipeInv == IInv /\ Stamped /\ CurIsLast /\ PipeTypes /\ ExactRows /\ ExactGcs

LEMMA InitPipe == PipeInit => PipeInv
BY InitIsCollectors, InitInv, InitStamped, InitTypes, InitExact DEF PipeInv

LEMMA NextPipe == PipeInv /\ [PipeNext]_pipeVars => PipeInv'
<1> SUFFICES ASSUME PipeInv, [PipeNext]_pipeVars PROVE PipeInv'
  OBVIOUS
<1>1. IInv /\ Stamped /\ CurIsLast /\ PipeTypes /\ ExactRows /\ ExactGcs /\ TypeOK
  BY DEF PipeInv, IInv
<1>2. [Next]_vars
  BY StepIsCollectors
<1>3. IInv'
  BY <1>1, <1>2, NextInv
<1>4. Stamped' /\ CurIsLast'
  BY <1>1, <1>2, NextStamped
<1>5. PipeTypes'
  BY <1>1, NextTypes
<1>6. ExactRows' /\ ExactGcs'
  BY <1>1, NextExact
<1>7. QED  BY <1>3, <1>4, <1>5, <1>6 DEF PipeInv

LEMMA PipeInvAlways == PipeSpec => []PipeInv
BY InitPipe, NextPipe, PTL DEF PipeSpec

\* For any threads, clocks, batch and flush sizes, any number of frames and of
\* queries, and however the session ends: every row and every pause decoded is
\* in exactly one place between the collector and the frame, once, in order,
\* unaltered, and attributed to the greenlet that was switched in.
THEOREM PipelineIsExact == PipeSpec => []PipeExact
<1>1. PipeInv => PipeExact
  BY ExactIs DEF PipeInv, IInv, PipeTypes
<1>2. QED  BY <1>1, PipeInvAlways, PTL
-----------------------------------------------------------------------------
(* The counters lead what can be read. *)

\* The rows of the batch whose counters are being raised.
Counted == IF at # "total" /\ Call.kind = "executions" THEN Call.items ELSE << >>

\* A question moves no rows.
LEMMA AskMoves ==
  ASSUME StoreTypes, Ask
  PROVE  RowsOf(channel') = RowsOf(channel) /\ Reach' = Reach
<1>1. channel' = Append(channel, Query) /\ UNCHANGED <<df, queued>>
  BY DEF Ask, frame
<1>2. channel \in Seq(Cmd) /\ Query \in Cmd /\ <<Query>> \in Seq(Cmd)
  BY DEF StoreTypes, Cmd
<1>3. channel' = channel \o <<Query>>
  BY <1>1, <1>2, AppendIsConcat
<1>4. RowsOf(<<Query>>) = << >>
  BY <1>2, FewCommands DEF Query
<1>5. RowsOf(channel') = RowsOf(channel) \o << >> /\ RowsOf(channel) \in Seq(Execution)
  BY <1>2, <1>3, <1>4, RowsConcat
<1>6. RowsOf(channel') = RowsOf(channel)
  BY <1>5, NothingJoined
<1>7. Held' = Held /\ Reach' = Cat(Held', RowsOf(channel')) /\ Reach = Cat(Held, RowsOf(channel))
  BY <1>1 DEF Held, Reach, RowsOf, ItemsOf, Cat
<1>8. QED  BY <1>6, <1>7, Zenon

LEMMA ReachTypes ==
  ASSUME TypeOK, PipeTypes
  PROVE  Reach \in Seq(Execution) /\ Counted \in Seq(Execution)
<1>0. HandleTypes /\ StoreTypes
  BY DEF PipeTypes
<1>1. Held \in Seq(Execution) /\ RowsOf(channel) \in Seq(Execution)
  BY <1>0, AllTypes
<1>2. Reach \in Seq(Execution)
  BY <1>1, ConcatProperties DEF Reach, Cat
<1>3. CASE at # "total"
  BY <1>0, <1>2, <1>3, CallType, CmdTypes DEF Counted, HandleTypes, Calling
<1>4. CASE at = "total"
  BY <1>2, <1>4, CmdTypes DEF Counted
<1>5. QED  BY <1>3, <1>4

\* The rows a reader can get grow by the batch sent, and by nothing else.
LEMMA ReachMoves ==
  ASSUME TypeOK, PipeTypes, [PipeNext]_pipeVars
  PROVE  /\ ~SendCall => Reach' = Reach
         /\ SendCall => Reach' = Cat(Reach, Counted)
<1>0. HandleTypes /\ StoreTypes
  BY DEF PipeTypes
<1>1. Held \in Seq(Execution) /\ RowsOf(channel) \in Seq(Execution)
  BY <1>0, AllTypes
<1>3. Counted \in Seq(Execution)
  BY ReachTypes
<1>4. ASSUME ~SendCall PROVE Reach' = Reach
  <2>1. CASE DbStep
    BY <1>0, <2>1, DbMoves
  <2>2. CASE Ask
    BY <1>0, <2>2, AskMoves
  <2>3. CASE UNCHANGED <<df, queued, channel>>
    BY <2>3 DEF Reach, Held, RowsOf, ItemsOf, Cat
  <2>4. QED  BY <1>4, <2>1, <2>2, <2>3 DEF PipeNext, HandleStep, AddTotal, SetOrigin, RaiseSpan,
                 CollectorRuns, OutsideMoves, PoolAnswers, pipeVars, dbThread, frame
<1>5. ASSUME SendCall PROVE Reach' = Cat(Reach, Counted)
  <2>1. RowsOf(channel') = RowsOf(channel) \o RowsOf(<<Call>>) /\ Call \in Cmd
    BY <1>0, <1>5, SendMoves
  <2>2. RowsOf(<<Call>>) = Counted
    BY <1>5, <2>1, FewCommands DEF Counted, SendCall
  <2>3. Held' = Held /\ Reach' = Cat(Held', RowsOf(channel'))
    BY <1>5 DEF SendCall, Held, Reach, RowsOf, ItemsOf, Cat, frame
  <2> DEFINE h == Held
             c == RowsOf(channel)
             x == Counted
  <2>4. h \in Seq(Execution) /\ c \in Seq(Execution) /\ x \in Seq(Execution)
    BY <1>1, <1>3
  <2>5. Reach' = Cat(h, Cat(c, x)) /\ Reach = Cat(h, c)
    BY <2>1, <2>2, <2>3, Zenon DEF Cat, Reach
  <2>6. Associative(Execution)
    BY CatLaws
  <2> HIDE DEF h, c, x
  <2>7. Cat(Cat(h, c), x) = Cat(h, Cat(c, x))
    BY <2>4, <2>6 DEF Associative
  <2>8. QED  BY <2>5, <2>7, Zenon DEF x
<1>6. QED  BY <1>4, <1>5

\* The start of the first row of two lists put together; -1 if there is none.
FirstStart(a, b) ==
  IF a # << >> THEN a[1].start ELSE IF b # << >> THEN b[1].start ELSE -1

\* What is under way is in the counters up to where the call has got.
CountInv ==
  /\ total = Len(Reach) + Len(Counted)
  /\ \A i \in 1..Len(Reach) : EndOf(Reach[i]) <= span
  /\ at = "send" => \A i \in 1..Len(Counted) : EndOf(Counted[i]) <= span
  /\ origin = FirstStart(Reach, IF at \in {"span", "send"} THEN Counted ELSE << >>)
\* What is in two lists put together, and where.
InBoth(c, a, b) ==
  /\ Len(a) \in Nat /\ Len(b) \in Nat /\ Len(c) = Len(a) + Len(b)
  /\ \A i \in 1..Len(c) : i \in 1..Len(a) \/ i - Len(a) \in 1..Len(b)
  /\ \A i \in 1..Len(a) : c[i] = a[i] /\ i \in 1..Len(c)
  /\ \A i \in 1..Len(b) : c[Len(a) + i] = b[i] /\ Len(a) + i \in 1..Len(c)
  /\ \A i \in 1..Len(c) : i - Len(a) \in 1..Len(b) => c[i] = b[i - Len(a)]

LEMMA CatHas ==
  ASSUME NEW S, NEW a \in Seq(S), NEW b \in Seq(S)
  PROVE  InBoth(Cat(a, b), a, b)
<1>1. /\ Len(a \o b) = Len(a) + Len(b) /\ Len(a) \in Nat /\ Len(b) \in Nat
      /\ \A i \in 1..(Len(a) + Len(b)) : (a \o b)[i] = IF i <= Len(a) THEN a[i] ELSE b[i - Len(a)]
  BY ConcatProperties, LenProperties
<1> DEFINE c == a \o b
<1>2. /\ Len(c) = Len(a) + Len(b) /\ Len(a) \in Nat /\ Len(b) \in Nat
      /\ \A i \in 1..(Len(a) + Len(b)) : c[i] = IF i <= Len(a) THEN a[i] ELSE b[i - Len(a)]
  BY <1>1
<1> HIDE DEF c
<1>3. \A i \in 1..Len(c) : i \in 1..Len(a) \/ i - Len(a) \in 1..Len(b)
  BY <1>2
<1>4. \A i \in 1..Len(a) : c[i] = a[i] /\ i \in 1..Len(c)
  BY <1>2
<1>5. ASSUME NEW i \in 1..Len(b) PROVE c[Len(a) + i] = b[i] /\ Len(a) + i \in 1..Len(c)
  <2>1. Len(a) + i \in 1..(Len(a) + Len(b)) /\ ~(Len(a) + i <= Len(a)) /\ (Len(a) + i) - Len(a) = i
    BY <1>2
  <2>2. QED  BY <1>2, <2>1
<1>6. \A i \in 1..Len(c) : i - Len(a) \in 1..Len(b) => c[i] = b[i - Len(a)]
  BY <1>2
<1>7. InBoth(c, a, b)
  BY <1>2, <1>3, <1>4, <1>5, <1>6 DEF InBoth
<1>8. QED  BY <1>7 DEF c, Cat

LEMMA FirstOfBoth ==
  ASSUME NEW a \in Seq(Execution), NEW b \in Seq(Execution), NEW c \in Seq(Execution), InBoth(c, a, b)
  PROVE  FirstStart(c, << >>) = FirstStart(a, b)
<1>1. CASE a # << >>
  <2>1. 1 \in 1..Len(a) /\ Len(c) # 0
    BY <1>1 DEF InBoth
  <2>2. c[1] = a[1] /\ c # << >>
    BY <2>1 DEF InBoth
  <2>3. QED  BY <1>1, <2>2 DEF FirstStart
<1>2. CASE a = << >> /\ b # << >>
  <2>1. Len(a) = 0 /\ 1 \in 1..Len(b) /\ Len(c) # 0
    BY <1>2 DEF InBoth
  <2>2. c[0 + 1] = b[1] /\ c # << >>
    BY <2>1 DEF InBoth
  <2>3. QED  BY <1>2, <2>2 DEF FirstStart
<1>3. CASE a = << >> /\ b = << >>
  <2>1. c = << >>
    BY <1>3 DEF InBoth
  <2>2. QED  BY <1>3, <2>1 DEF FirstStart
<1>4. QED  BY <1>1, <1>2, <1>3

LEMMA NextCount ==
  ASSUME TypeOK, PipeTypes, CountInv, [PipeNext]_pipeVars
  PROVE  CountInv'
<1>0. HandleTypes /\ StoreTypes
  BY DEF PipeTypes
<1>1. Reach \in Seq(Execution) /\ Counted \in Seq(Execution)
      /\ (~SendCall => Reach' = Reach) /\ (SendCall => Reach' = Cat(Reach, Counted))
  BY ReachTypes, ReachMoves
<1>2. total = Len(Reach) + Len(Counted) /\ Len(Reach) \in Nat /\ Len(Counted) \in Nat /\ Len(<< >>) = 0
  BY <1>1, LenProperties DEF CountInv
<1>3. \A i \in 1..Len(Reach) : Reach[i] \in Execution
  BY <1>1, ElementOfSeq
<1>4. \A i \in 1..Len(Reach) : EndOf(Reach[i]) \in Nat /\ Reach[i].start \in Nat /\ EndOf(Reach[i]) <= span
  BY <1>3 DEF Execution, EndOf, CountInv
<1>5. span \in Nat /\ origin \in Nat \cup {-1} /\ total \in Nat
  BY <1>0 DEF HandleTypes
<1>6. CASE AddTotal
  <2>1. Reach' = Reach /\ at = "total" /\ UNCHANGED <<origin, span>> /\ Call' = Call
    BY <1>1, <1>6 DEF AddTotal, SendCall, Call, vars
  <2>2. Counted = << >>
    BY <2>1 DEF Counted
  <2>3. CASE Call.kind = "gc"
    <3>1. at' = "send" /\ total' = total /\ Counted' = << >>
      BY <1>6, <2>1, <2>3 DEF AddTotal, Counted
    <3>2. QED  BY <1>2, <1>4, <2>1, <2>2, <3>1 DEF CountInv
  <2>4. CASE Call.kind # "gc"
    <3>1. Call.kind = "executions" /\ Call.items \in Seq(Execution)
      BY <1>0, <1>6, <2>4, CallType DEF AddTotal
    <3>2. at' = "origin" /\ total' = total + Len(Call.items) /\ Counted' = Call.items
      BY <1>6, <2>1, <2>4, <3>1 DEF AddTotal, Counted
    <3>3. total' = Len(Reach) + Len(Counted')
      BY <1>2, <2>2, <3>1, <3>2, LenProperties
    <3>4. QED  BY <1>4, <2>1, <2>2, <3>2, <3>3 DEF CountInv
  <2>5. QED  BY <2>3, <2>4
<1>7. CASE SetOrigin
  <2>1. Reach' = Reach /\ at = "origin" /\ at' = "span" /\ UNCHANGED <<total, span>> /\ Call' = Call
    BY <1>1, <1>7 DEF SetOrigin, SendCall, Call, vars
  <2>2. Call.kind = "executions" /\ Calling
    BY <1>0, <2>1 DEF HandleTypes, Calling
  <2>3. Counted = Call.items /\ Counted' = Counted /\ Counted # << >>
    BY <1>0, <2>1, <2>2, CallType DEF Counted
  <2>4. origin = FirstStart(Reach, << >>)
    BY <2>1 DEF CountInv
  <2>5. Reach # << >> => Reach[1].start \in Nat
    <3>1. Reach # << >> => 1 \in 1..Len(Reach)
      BY <1>1, <1>2
    <3>2. QED  BY <1>4, <3>1
  <2>6. origin' = FirstStart(Reach, Counted)
    BY <1>7, <2>3, <2>4, <2>5 DEF SetOrigin, FirstStart
  <2>7. QED  BY <1>2, <1>4, <2>1, <2>3, <2>6 DEF CountInv
<1>8. CASE RaiseSpan
  <2>1. Reach' = Reach /\ at = "span" /\ at' = "send" /\ UNCHANGED <<total, origin>> /\ Call' = Call
    BY <1>1, <1>8 DEF RaiseSpan, SendCall, Call, vars
  <2>2. Call.kind = "executions" /\ Calling
    BY <1>0, <2>1 DEF HandleTypes, Calling
  <2>3. Counted = Call.items /\ Counted' = Counted
    BY <2>1, <2>2 DEF Counted
  <2>4. span' \in Nat /\ span <= span' /\ \A e \in Ends(Counted) : e <= span'
    BY <1>1, <1>5, <1>8, <2>3, SpanRaised DEF RaiseSpan
  <2>5. \A i \in 1..Len(Counted) : EndOf(Counted[i]) <= span'
    BY <2>4 DEF Ends, EndOf
  <2>6. \A i \in 1..Len(Reach) : EndOf(Reach[i]) <= span'
    BY <1>4, <1>5, <2>4
  <2>7. QED  BY <1>2, <2>1, <2>3, <2>5, <2>6 DEF CountInv
<1>9. CASE SendCall
  <2>1. Reach' = Cat(Reach, Counted) /\ at = "send" /\ at' = "total" /\ UNCHANGED <<total, origin, span>>
    BY <1>1, <1>9 DEF SendCall, counters
  <2>2. Counted' = << >>
    BY <2>1 DEF Counted
  <2>3. InBoth(Reach', Reach, Counted)
    BY <1>1, <2>1, CatHas
  <2>4. total' = Len(Reach') + Len(Counted')
    BY <1>2, <2>1, <2>2, <2>3 DEF InBoth
  <2>5. ASSUME NEW i \in 1..Len(Reach') PROVE EndOf(Reach'[i]) <= span'
    <3>1. CASE i \in 1..Len(Reach)
      BY <1>4, <2>1, <2>3, <3>1 DEF InBoth
    <3>2. CASE i - Len(Reach) \in 1..Len(Counted)
      BY <2>1, <2>3, <3>2 DEF InBoth, CountInv
    <3>3. QED  BY <2>3, <3>1, <3>2 DEF InBoth
  <2>6. Reach' \in Seq(Execution)
    BY <1>1, <2>1, CatLaws DEF Associative
  <2>7. origin' = FirstStart(Reach', << >>)
    BY <1>1, <2>1, <2>3, <2>6, FirstOfBoth DEF CountInv
  <2>8. QED  BY <2>1, <2>2, <2>4, <2>5, <2>7 DEF CountInv
<1>10. CASE ~HandleStep
  <2>1. Reach' = Reach /\ UNCHANGED <<at, total, origin, span>>
    <3>1. CASE DbStep
      BY <1>0, <3>1, <1>1, <1>10, DbMoves DEF HandleStep
    <3>2. CASE ~DbStep
      BY <1>1, <1>10, <3>2 DEF HandleStep, PipeNext, CollectorRuns, OutsideMoves, Ask, PoolAnswers, counters, pipeVars
    <3>3. QED  BY <3>1, <3>2
  <2>2. Counted' = Counted
    <3>1. CASE CollectorRuns
      <4>1. at = "total"
        BY <1>0, <3>1 DEF CollectorRuns, HandleTypes, Calling
      <4>2. QED  BY <2>1, <4>1 DEF Counted
    <3>2. CASE ~CollectorRuns
      <4>1. UNCHANGED <<toDb, given>>
        <5>1. CASE DbStep
          BY <1>0, <5>1, DbMoves
        <5>2. CASE ~DbStep
          BY <1>10, <3>2, <5>2 DEF PipeNext, OutsideMoves, Ask, PoolAnswers, pipeVars, vars, Send, Close, AskStop
        <5>3. QED  BY <5>1, <5>2
      <4>2. QED  BY <2>1, <4>1 DEF Counted, Call
    <3>3. QED  BY <3>1, <3>2
  <2>3. QED  BY <2>1, <2>2 DEF CountInv
<1>11. QED  BY <1>6, <1>7, <1>8, <1>9, <1>10 DEF HandleStep

LEMMA InitCount == PipeInit => CountInv
<1> SUFFICES ASSUME PipeInit PROVE CountInv
  OBVIOUS
<1>1. /\ at = "total" /\ total = 0 /\ origin = -1 /\ channel = << >> /\ queued = << >> /\ df = << >>
  BY DEF PipeInit, T!Init
<1>2. Reach = << >> /\ Counted = << >>
  BY <1>1, FewCommands DEF Reach, Held, Cat, Counted
<1>3. QED  BY <1>1, <1>2 DEF CountInv, FirstStart

\* For any batches and any interleaving with the DB thread: a reader of the
\* counters is never told of fewer rows, an earlier end or a later origin than
\* the rows it can already get have.
THEOREM PipelineCountersLead == PipeSpec => []CountersLead
<1>1. PipeInv /\ CountInv /\ [PipeNext]_pipeVars => CountInv'
  BY NextCount DEF PipeInv, IInv
<1>2. PipeInv /\ CountInv => CountersLead
  <2> SUFFICES ASSUME PipeInv, CountInv PROVE CountersLead
    OBVIOUS
  <2>1. df \o queued \o RowsOf(channel) = Reach
    BY DEF Reach, Held, Cat
  <2>2. Reach \in Seq(Execution) /\ Counted \in Seq(Execution)
    BY ReachTypes DEF PipeInv, IInv
  <2>3. Len(Reach) <= total
    BY <2>2, LenProperties DEF CountInv
  <2>4. \A e \in Ends(Reach) : e <= span
    BY DEF CountInv, Ends, EndOf
  <2>5. Reach # << >> => origin = Reach[1].start
    BY DEF CountInv, FirstStart
  <2>6. QED  BY <2>1, <2>3, <2>4, <2>5, Zenon DEF CountersLead
<1>3. QED  BY <1>1, <1>2, InitCount, PipeInvAlways, PTL DEF PipeSpec
-----------------------------------------------------------------------------
(* An answer holds what was sent before the question. *)

Sent == SubSeq(toDb, 1, given)

\* As many rows were sent as can be read: none is lost on the way.
SentInv == Len(RowsOf(Sent)) = Len(Reach)

\* The question is somewhere in the channel; ahead of it, or held already, are
\* the rows it expects.
IsQueued(pre, post) ==
  /\ pre \in Seq(Command) /\ post \in Seq(Command)
  /\ channel = Cat(pre, Cat(<<Query>>, post))
  /\ query.expects <= Len(Held) + Len(RowsOf(pre))

QueryInv ==
  /\ query.stage = "queued" => \E pre, post : IsQueued(pre, post)
  /\ query.stage # "queued" => channel \in Seq(Command)
  /\ query.stage \in {"snapshot", "answered"} => query.rows >= query.expects

LEMMA SentGrows ==
  ASSUME TypeOK, HandleTypes, SendCall
  PROVE  Sent' = Sent \o <<Call>> /\ Sent \in Seq(Cmd) /\ Call \in Command
<1>1. toDb' = toDb /\ given' = given + 1 /\ Calling
  BY DEF SendCall, vars, HandleTypes, Calling
<1>2. toDb \in Seq(Command) /\ given \in Nat /\ Len(toDb) \in Nat /\ given < Len(toDb)
  BY <1>1, Parts, LenProperties DEF HandleTypes, Calling
<1>3. 1 \in 1..Len(toDb) /\ given + 1 \in 1..Len(toDb) /\ (given + 1) - 1 = given
  BY <1>2
<1>4. SubSeq(toDb, 1, given + 1) = SubSeq(toDb, 1, (given + 1) - 1) \o <<toDb[given + 1]>>
  BY <1>2, <1>3, SubSeqRecursiveSecond
<1>5. Sent' = Sent \o <<Call>>
  BY <1>1, <1>3, <1>4 DEF Sent, Call
<1>6. \A i \in 1..given : toDb[i] \in Command
  BY <1>2, ElementOfSeq
<1>7. Sent \in Seq(Command)
  BY <1>2, <1>6, SubSeqProperties DEF Sent
<1>8. Sent \in Seq(Cmd)
  BY <1>7, CmdTypes
<1>9. Call \in Command
  BY <1>1, CallType
<1>10. QED  BY <1>5, <1>8, <1>9

LEMMA SentStays ==
  ASSUME IInv, HandleTypes, CollectorRuns
  PROVE  Sent' = Sent
<1>0. TypeOK /\ EndClosesNothing
  BY DEF IInv
<1>1. Step /\ given' = given /\ given \in Nat /\ given <= Len(toDb) /\ toDb \in Seq(Command)
  BY <1>0, Parts DEF CollectorRuns, HandleTypes
<1>2. PICK new : Delivers(new, NewRows, NewGcs)
  BY <1>0, <1>1, StepDelivers
<1>3. new \in Seq(Command) /\ toDb' = toDb \o new
  BY <1>2 DEF Delivers
<1>4. CASE given = 0
  BY <1>1, <1>4, SubSeqEmpty DEF Sent
<1>5. CASE given # 0
  <2>1. 1 \in 1..Len(toDb) /\ given \in 1..Len(toDb)
    BY <1>1, <1>5, LenProperties
  <2>2. SubSeq(toDb \o new, 1, given) = SubSeq(toDb, 1, given)
    BY <1>1, <1>3, <2>1, SubSeqOfConcat1
  <2>3. QED  BY <1>1, <1>3, <2>2 DEF Sent
<1>6. QED  BY <1>4, <1>5

LEMMA NextSent ==
  ASSUME IInv, PipeTypes, SentInv, [PipeNext]_pipeVars
  PROVE  SentInv'
<1>0. HandleTypes /\ StoreTypes /\ TypeOK
  BY DEF PipeTypes, IInv
<1>1. /\ (~SendCall => Reach' = Reach) /\ (SendCall => Reach' = Cat(Reach, Counted))
      /\ Reach \in Seq(Execution) /\ Counted \in Seq(Execution)
  BY <1>0, ReachTypes, ReachMoves
<1>2. CASE SendCall
  <2>1. Sent' = Sent \o <<Call>> /\ Sent \in Seq(Cmd) /\ Call \in Command
    BY <1>0, <1>2, SentGrows
  <2>2. Call \in Cmd /\ <<Call>> \in Seq(Cmd)
    BY <2>1 DEF Cmd
  <2>3. RowsOf(<<Call>>) = Counted
    BY <1>2, <2>2, FewCommands DEF SendCall, Counted
  <2>4. RowsOf(Sent') = Cat(RowsOf(Sent), Counted) /\ RowsOf(Sent) \in Seq(Execution)
    BY <2>1, <2>2, <2>3, RowsConcat DEF Cat
  <2>5. InBoth(RowsOf(Sent'), RowsOf(Sent), Counted) /\ InBoth(Reach', Reach, Counted)
    BY <1>1, <1>2, <2>4, CatHas
  <2>6. Len(RowsOf(Sent')) = Len(Reach')
    BY <2>5 DEF InBoth, SentInv
  <2>7. RowsOf(Sent)' = RowsOf(Sent')
    BY DEF RowsOf, ItemsOf
  <2>8. QED  BY <2>6, <2>7 DEF SentInv
<1>3. CASE ~SendCall
  <2>1. Sent' = Sent
    <3>1. CASE CollectorRuns
      BY <1>0, <3>1, SentStays
    <3>2. CASE DbStep
      BY <1>0, <3>2, DbMoves DEF Sent
    <3>3. CASE UNCHANGED <<toDb, given>>
      BY <3>3 DEF Sent
    <3>4. QED  BY <1>3, <3>1, <3>2, <3>3 DEF PipeNext, HandleStep, AddTotal, SetOrigin, RaiseSpan, OutsideMoves,
                   Send, Close, AskStop, Ask, PoolAnswers, pipeVars, vars
  <2>2. RowsOf(Sent)' = RowsOf(Sent)
    BY <2>1 DEF RowsOf, ItemsOf
  <2>3. QED  BY <1>1, <1>3, <2>2 DEF SentInv
<1>4. QED  BY <1>2, <1>3

\* Taking the front of two lists put together takes it from the first one.
LEMMA FrontOf ==
  ASSUME NEW S, NEW a \in Seq(S), NEW b \in Seq(S), a # << >>
  PROVE  /\ Cat(a, b)[1] = a[1] /\ Tail(Cat(a, b)) = Cat(Tail(a), b) /\ Tail(a) \in Seq(S)
         /\ a = Cat(<<a[1]>>, Tail(a)) /\ a[1] \in S
<1> DEFINE c == Cat(a, b)
           t == Tail(a)
<1>1. c \in Seq(S) /\ InBoth(c, a, b) /\ Len(a) \in Nat \ {0}
  BY CatHas, CatLaws, EmptySeq DEF Associative
<1>2. t \in Seq(S) /\ Len(t) = Len(a) - 1 /\ \A i \in 1..Len(t) : t[i] = a[i + 1]
  BY HeadTailProperties
<1>3. c # << >> /\ c[1] = a[1] /\ 1 \in 1..Len(a)
  <2>1. 1 \in 1..Len(a) /\ Len(c) # 0
    BY <1>1 DEF InBoth
  <2>2. QED  BY <2>1, <1>1 DEF InBoth
<1> HIDE DEF c, t
<1>4. Tail(c) \in Seq(S) /\ Len(Tail(c)) = Len(c) - 1 /\ \A i \in 1..Len(Tail(c)) : Tail(c)[i] = c[i + 1]
  BY <1>1, <1>3, HeadTailProperties
<1> DEFINE d == Cat(t, b)
           u == Tail(c)
<1>5. d \in Seq(S) /\ InBoth(d, t, b)
  BY <1>2, CatHas, CatLaws DEF Associative
<1>6. u \in Seq(S) /\ Len(u) = Len(c) - 1 /\ \A i \in 1..Len(u) : u[i] = c[i + 1]
  BY <1>4
<1> HIDE DEF d, u
<1>7. Len(u) = Len(d) /\ Len(u) \in Nat /\ Len(b) \in Nat
  BY <1>1, <1>2, <1>5, <1>6 DEF InBoth
<1>8. ASSUME NEW i \in 1..Len(u) PROVE u[i] = d[i]
  <2>1. u[i] = c[i + 1]
    BY <1>6
  <2>2. CASE i \in 1..Len(t)
    <3>1. i + 1 \in 1..Len(a)
      BY <1>1, <1>2, <2>2
    <3>2. c[i + 1] = a[i + 1]
      BY <1>1, <3>1 DEF InBoth
    <3>3. d[i] = t[i] /\ t[i] = a[i + 1]
      BY <1>2, <1>5, <2>2 DEF InBoth
    <3>4. QED  BY <2>1, <3>2, <3>3
  <2>3. CASE ~(i \in 1..Len(t))
    <3>1. i - Len(t) \in 1..Len(b) /\ (i + 1) - Len(a) = i - Len(t) /\ i + 1 \in 1..Len(c) /\ i \in 1..Len(d)
      BY <1>1, <1>2, <1>5, <1>7, <2>3 DEF InBoth
    <3>2. d[i] = b[i - Len(t)]
      BY <1>5, <3>1 DEF InBoth
    <3>3. c[i + 1] = b[(i + 1) - Len(a)]
      BY <1>1, <3>1 DEF InBoth
    <3>4. QED  BY <2>1, <3>1, <3>2, <3>3
  <2>4. QED  BY <2>2, <2>3
<1>9. u = d
  BY <1>5, <1>6, <1>7, <1>8, SeqEqual
<1>10. a = Cat(<<a[1]>>, t) /\ a[1] \in S
  <2>1. Len(a) \in 1..Len(a) /\ 1 \in 1..Len(a)
    BY <1>1
  <2>2. SubSeq(a, 1, Len(a)) = <<a[1]>> \o SubSeq(a, 1 + 1, Len(a))
    BY <2>1, SubSeqRecursiveFirst
  <2>3. SubSeq(a, 1, Len(a)) = a /\ t = SubSeq(a, 2, Len(a))
    BY SubSeqFull, TailIsSubSeq DEF t
  <2>4. a[1] \in S
    BY <2>1, ElementOfSeq
  <2>5. QED  BY <2>2, <2>3, <2>4 DEF Cat
<1>11. QED  BY <1>2, <1>3, <1>9, <1>10 DEF c, d, t, u
\* The DB thread takes a batch that is ahead of the question.
LEMMA TakenAhead ==
  ASSUME StoreTypes, NEW pre, NEW post, IsQueued(pre, post),
         channel # << >>, channel[1].kind # "query", channel' = Tail(channel), query' = query,
         Len(Held') = Len(Held) + Len(RowsOf(<<channel[1]>>)), Len(Held) \in Nat,
         query.expects \in Nat
  PROVE  IsQueued(Tail(pre), post)'
<1>1. /\ pre \in Seq(Command) /\ post \in Seq(Command) /\ pre \in Seq(Cmd) /\ post \in Seq(Cmd)
      /\ <<Query>> \in Seq(Cmd) /\ channel = Cat(pre, Cat(<<Query>>, post))
      /\ query.expects <= Len(Held) + Len(RowsOf(pre))
  BY CmdTypes DEF IsQueued, Cmd
<1> DEFINE rest == Cat(<<Query>>, post)
<1>2. rest \in Seq(Cmd) /\ rest[1] = Query
  <2>1. rest \in Seq(Cmd) /\ <<Query>> # << >> /\ <<Query>>[1] = Query
    BY <1>1, CatLaws DEF Associative
  <2>2. Cat(<<Query>>, post)[1] = <<Query>>[1]
    BY <1>1, <2>1, FrontOf, ZenonT(60)
  <2>3. QED  BY <2>1, <2>2
<1>3. channel = Cat(pre, rest)
  BY <1>1
<1> HIDE DEF rest
<1>4. pre # << >>
  <2>1. ASSUME pre = << >> PROVE FALSE
    <3>1. channel = rest
      BY <1>2, <1>3, <2>1, NothingJoined DEF Cat
    <3>2. QED  BY <1>2, <3>1 DEF Query
  <2>2. QED  BY <2>1
<1>5. /\ channel[1] = pre[1] /\ Tail(channel) = Cat(Tail(pre), rest)
      /\ pre = Cat(<<pre[1]>>, Tail(pre)) /\ pre[1] \in Cmd /\ Tail(pre) \in Seq(Cmd)
  <2>1. pre \in Seq(Cmd) /\ rest \in Seq(Cmd) /\ pre # << >>
    BY <1>1, <1>2, <1>4
  <2>2. /\ Cat(pre, rest)[1] = pre[1] /\ Tail(Cat(pre, rest)) = Cat(Tail(pre), rest)
        /\ pre = Cat(<<pre[1]>>, Tail(pre)) /\ pre[1] \in Cmd /\ Tail(pre) \in Seq(Cmd)
    BY ONLY <2>1, FrontOf, ZenonT(60)
  <2>3. QED  BY <1>3, <2>2
<1>6. Tail(pre) \in Seq(Command)
  BY <1>1, <1>4, HeadTailProperties
<1>7. RowsOf(pre) = Cat(RowsOf(<<pre[1]>>), RowsOf(Tail(pre)))
      /\ RowsOf(<<pre[1]>>) \in Seq(Execution) /\ RowsOf(Tail(pre)) \in Seq(Execution)
  <2>1. <<pre[1]>> \in Seq(Cmd)
    BY <1>5
  <2>2. QED  BY <1>5, <2>1, RowsConcat, Zenon DEF Cat
<1>8. InBoth(RowsOf(pre), RowsOf(<<pre[1]>>), RowsOf(Tail(pre)))
  BY <1>7, CatHas
<1>9. query.expects <= Len(Held') + Len(RowsOf(Tail(pre)))
  <2>1. /\ Len(RowsOf(pre)) = Len(RowsOf(<<pre[1]>>)) + Len(RowsOf(Tail(pre)))
        /\ Len(RowsOf(<<pre[1]>>)) \in Nat /\ Len(RowsOf(Tail(pre))) \in Nat
    BY <1>8 DEF InBoth
  <2>2. Len(Held') = Len(Held) + Len(RowsOf(<<pre[1]>>))
    BY <1>5
  <2>3. QED  BY <1>1, <2>1, <2>2
<1>10. channel' = Cat(Tail(pre), Cat(<<Query>>, post))
  BY <1>5 DEF rest
<1>11. QED  BY <1>1, <1>6, <1>9, <1>10 DEF IsQueued, RowsOf, ItemsOf

\* What a step of the DB thread does to the number of rows held.
LEMMA HeldGrows ==
  ASSUME StoreTypes, TakeRows \/ TakeGc
  PROVE  Len(Held') = Len(Held) + Len(RowsOf(<<channel[1]>>)) /\ Len(Held) \in Nat
<1>1. channel # << >> /\ channel[1] \in Cmd
      /\ (channel[1].kind = "executions" => channel[1].items \in Seq(Execution))
  BY TakenType DEF TakeRows, TakeGc, Takes
<1>2. df \in Seq(Execution) /\ queued \in Seq(Execution)
  BY DEF StoreTypes
<1>3. Len(Held) = Len(df) + Len(queued) /\ Len(df) \in Nat /\ Len(queued) \in Nat
  BY <1>2, ConcatProperties, LenProperties DEF Held
<1>4. CASE TakeRows
  <2>1. channel[1].kind = "executions" /\ StoreMoves(queued \o channel[1].items)
    BY <1>4, TakeRowsMoves DEF TakeRows, Takes
  <2> DEFINE x == channel[1].items
             n == queued \o x
  <2>2. x \in Seq(Execution) /\ RowsOf(<<channel[1]>>) = x
    BY <1>1, <2>1, FewCommands
  <2>3. Held' = df \o n
    BY <2>1, HeldAfter
  <2> HIDE DEF x
  <2>4. n \in Seq(Execution) /\ Len(n) = Len(queued) + Len(x) /\ Len(x) \in Nat
    BY <1>2, <2>2, ConcatProperties, LenProperties
  <2> HIDE DEF n
  <2>5. Len(df \o n) = Len(df) + Len(n)
    BY <1>2, <2>4, ConcatProperties
  <2>6. QED  BY <1>3, <2>2, <2>3, <2>4, <2>5
<1>5. CASE TakeGc
  <2>1. channel[1].kind = "gc" /\ Held' = Held
    BY <1>5 DEF TakeGc, Takes, Held, frame
  <2>2. RowsOf(<<channel[1]>>) = << >>
    BY <1>1, <2>1, FewCommands
  <2>3. QED  BY <1>3, <2>1, <2>2
<1>6. QED  BY <1>4, <1>5

\* The DB thread takes the question: all that was ahead of it is in the frame.
LEMMA QueryTaken ==
  ASSUME StoreTypes, ViewerTypes, QueryInv, TakeQuery
  PROVE  QueryInv'
<1>1. channel # << >> /\ channel[1].kind = "query" /\ channel' = Tail(channel) /\ channel \in Seq(Cmd)
      /\ 1 \in 1..Len(channel)
  BY LenProperties DEF TakeQuery, Takes, StoreTypes
<1>2. query.stage = "queued"
  <2>1. ASSUME query.stage # "queued" PROVE FALSE
    <3>1. channel \in Seq(Command)
      BY <2>1 DEF QueryInv
    <3>2. channel[1] \in Command
      BY <1>1, <3>1, ElementOfSeq
    <3>3. QED  BY <1>1, <3>2 DEF Command
  <2>2. QED  BY <2>1
<1>3. PICK pre, post : IsQueued(pre, post)
  BY <1>2 DEF QueryInv
<1>4. /\ pre \in Seq(Command) /\ post \in Seq(Command) /\ pre \in Seq(Cmd) /\ post \in Seq(Cmd)
      /\ <<Query>> \in Seq(Cmd) /\ Cat(<<Query>>, post) \in Seq(Cmd)
      /\ channel = Cat(pre, Cat(<<Query>>, post))
      /\ query.expects <= Len(Held) + Len(RowsOf(pre))
  <2>1. /\ pre \in Seq(Command) /\ post \in Seq(Command) /\ <<Query>> \in Seq(Cmd)
        /\ channel = Cat(pre, Cat(<<Query>>, post)) /\ query.expects <= Len(Held) + Len(RowsOf(pre))
    BY <1>3 DEF IsQueued, Cmd
  <2>2. pre \in Seq(Cmd) /\ post \in Seq(Cmd)
    BY <2>1, CmdTypes
  <2>3. Cat(<<Query>>, post) \in Seq(Cmd)
    BY <2>1, <2>2, CatLaws DEF Associative
  <2>4. QED  BY <2>1, <2>2, <2>3
<1>5. pre = << >>
  <2>1. ASSUME pre # << >> PROVE FALSE
    <3>1. channel[1] = pre[1]
      BY <1>4, <2>1, FrontOf
    <3>2. 1 \in 1..Len(pre)
      BY <1>4, <2>1, EmptySeq
    <3>3. pre[1] \in Command
      BY <1>4, <3>2, ElementOfSeq
    <3>4. QED  BY <1>1, <3>1, <3>3 DEF Command
  <2>2. QED  BY <2>1
<1>6. channel' = post
  <2>1. channel = Cat(<<Query>>, post)
    BY <1>4, <1>5, NothingJoined DEF Cat
  <2>2. <<Query>> # << >> /\ Tail(<<Query>>) = << >>
    OBVIOUS
  <2>3. Tail(channel) = Cat(Tail(<<Query>>), post)
    <3> DEFINE one == <<Query>>
    <3>1. one \in Seq(Cmd) /\ post \in Seq(Cmd) /\ one # << >>
      BY <1>4, <2>2
    <3> HIDE DEF one
    <3>2. Tail(Cat(one, post)) = Cat(Tail(one), post)
      BY ONLY <3>1, FrontOf, ZenonT(60)
    <3>3. QED  BY <2>1, <3>2 DEF one
  <2>4. QED  BY <1>1, <1>4, <2>2, <2>3, NothingJoined DEF Cat
<1>7. query.expects <= Len(df')
  <2>1. Appends(queued)
    BY FlushMoves
  <2>2. df' = Held
    BY <2>1 DEF Appends, Held
  <2>3. Len(RowsOf(pre)) = 0 /\ Len(Held) \in Nat
    <3>1. df' \in Seq(Execution)
      BY <2>1 DEF Appends
    <3>2. QED  BY <1>5, <2>2, <3>1, FewCommands, LenProperties
  <2>4. QED  BY <1>4, <2>2, <2>3
<1>8. /\ query'.stage \in {"answered", "snapshot"} /\ query'.rows = Len(df')
      /\ query'.expects = query.expects
  BY DEF TakeQuery, ViewerTypes
<1>9. query.expects \in Nat /\ Len(df') \in Nat
  <2>1. df' \in Seq(Execution)
    BY FlushMoves DEF Appends
  <2>2. QED  BY <2>1, LenProperties DEF ViewerTypes
<1>10. query'.stage # "queued" /\ query'.rows >= query'.expects
  BY <1>7, <1>8, <1>9
<1>11. QED  BY <1>4, <1>6, <1>10 DEF QueryInv
LEMMA QueryAsked ==
  ASSUME TypeOK, PipeTypes, SentInv, QueryInv, Ask
  PROVE  QueryInv'
<1>0. HandleTypes /\ StoreTypes
  BY DEF PipeTypes
<1>1. /\ query.stage # "queued" /\ channel' = Append(channel, Query) /\ UNCHANGED <<df, queued>>
      /\ query'.stage = "queued" /\ query'.expects = Len(RowsOf(Sent))
  BY DEF Ask, frame, Sent
<1>2. channel \in Seq(Command)
  BY <1>1 DEF QueryInv
<1>3. channel \in Seq(Cmd) /\ Query \in Cmd /\ <<Query>> \in Seq(Cmd) /\ << >> \in Seq(Command)
  BY <1>2, CmdTypes DEF Cmd
<1>4. channel' = Cat(channel, Cat(<<Query>>, << >>))
  <2>1. channel' = channel \o <<Query>>
    BY <1>1, <1>3, AppendIsConcat
  <2>2. <<Query>> \o << >> = <<Query>>
    BY <1>3, NothingJoined
  <2>3. QED  BY <2>1, <2>2 DEF Cat
<1>5. Len(RowsOf(Sent)) = Len(Held) + Len(RowsOf(channel)) /\ Len(Held) \in Nat /\ Len(RowsOf(channel)) \in Nat
  <2>1. Held \in Seq(Execution) /\ RowsOf(channel) \in Seq(Execution)
    BY <1>0, AllTypes
  <2>2. InBoth(Reach, Held, RowsOf(channel))
    BY <2>1, CatHas DEF Reach
  <2>3. QED  BY <2>2 DEF SentInv, InBoth
<1>6. Held' = Held
  BY <1>1 DEF Held
<1> DEFINE pre == channel
<1>7. pre \in Seq(Command) /\ channel' = Cat(pre, Cat(<<Query>>, << >>))
      /\ query'.expects <= Len(Held') + Len(RowsOf(pre))
  BY <1>1, <1>2, <1>4, <1>5, <1>6
<1> HIDE DEF pre
<1>8. \E p, q : /\ p \in Seq(Command) /\ q \in Seq(Command)
                 /\ channel' = Cat(p, Cat(<<Query>>, q))
                 /\ query'.expects <= Len(Held') + Len(RowsOf(p))
  BY <1>3, <1>7
<1>9. QED  BY <1>1, <1>8 DEF QueryInv, IsQueued, RowsOf, ItemsOf

\* A batch sent after the question is behind it.
LEMMA SendKeepsQuery ==
  ASSUME TypeOK, PipeTypes, QueryInv, SendCall
  PROVE  QueryInv'
<1>0. HandleTypes /\ StoreTypes
  BY DEF PipeTypes
<1>1. channel' = Append(channel, Call) /\ UNCHANGED <<df, queued, query>>
  BY DEF SendCall, frame, viewer
<1>2. Call \in Command /\ channel \in Seq(Cmd) /\ Call \in Cmd
  BY <1>0, SentGrows DEF StoreTypes, Cmd
<1>3. CASE query.stage = "queued"
  <2>1. PICK pre, post : IsQueued(pre, post)
    BY <1>3 DEF QueryInv
  <2>2. /\ pre \in Seq(Command) /\ post \in Seq(Command)
        /\ channel = Cat(pre, Cat(<<Query>>, post))
        /\ query.expects <= Len(Held) + Len(RowsOf(pre))
    BY <2>1 DEF IsQueued
  <2> DEFINE one == <<Query>>
             next == <<Call>>
  <2>3. /\ pre \in Seq(Cmd) /\ post \in Seq(Cmd) /\ one \in Seq(Cmd) /\ next \in Seq(Cmd)
        /\ next \in Seq(Command)
    <3>1. pre \in Seq(Cmd) /\ post \in Seq(Cmd)
      BY <2>2, CmdTypes
    <3>2. <<Query>> \in Seq(Cmd)
      BY DEF Cmd
    <3>3. <<Call>> \in Seq(Cmd) /\ <<Call>> \in Seq(Command)
      BY <1>2
    <3>4. QED  BY <3>1, <3>2, <3>3
  <2>4. channel' = Cat(channel, next)
    BY <1>1, <1>2, AppendIsConcat DEF Cat
  <2>5. Associative(Cmd) /\ Associative(Command)
    BY CatLaws
  <2> HIDE DEF one, next
  <2>6. Cat(Cat(pre, Cat(one, post)), next) = Cat(pre, Cat(one, Cat(post, next)))
    BY <2>3, <2>5 DEF Associative
  <2>7. Cat(post, next) \in Seq(Command)
    BY <2>2, <2>3, <2>5 DEF Associative
  <2>8. channel' = Cat(pre, Cat(one, Cat(post, next)))
    BY <2>2, <2>4, <2>6 DEF one
  <2>9. Held' = Held
    BY <1>1 DEF Held
  <2> DEFINE behind == Cat(post, next)
  <2>10. behind \in Seq(Command) /\ channel' = Cat(pre, Cat(<<Query>>, behind))
    BY <2>7, <2>8 DEF one
  <2> HIDE DEF behind
  <2>11. \E p, q : /\ p \in Seq(Command) /\ q \in Seq(Command)
                   /\ channel' = Cat(p, Cat(<<Query>>, q))
                   /\ query'.expects <= Len(Held') + Len(RowsOf(p))
    BY <1>1, <2>2, <2>9, <2>10
  <2>12. QED  BY <1>1, <1>3, <2>11 DEF QueryInv, IsQueued, RowsOf, ItemsOf
<1>4. CASE query.stage # "queued"
  <2>1. channel \in Seq(Command)
    BY <1>4 DEF QueryInv
  <2>2. channel' \in Seq(Command)
    BY <1>1, <1>2, <2>1, AppendProperties
  <2>3. QED  BY <1>1, <1>4, <2>2 DEF QueryInv
<1>5. QED  BY <1>3, <1>4

\* The DB thread takes anything else.
LEMMA TakeKeepsQuery ==
  ASSUME StoreTypes, ViewerTypes, QueryInv, TakeRows \/ TakeGc
  PROVE  QueryInv'
<1>1. channel # << >> /\ channel[1].kind # "query" /\ channel' = Tail(channel) /\ query' = query
  BY DEF TakeRows, TakeGc, Takes, viewer
<1>2. Len(Held') = Len(Held) + Len(RowsOf(<<channel[1]>>)) /\ Len(Held) \in Nat
  BY HeldGrows
<1>3. query.expects \in Nat
  BY DEF ViewerTypes
<1>4. CASE query.stage = "queued"
  <2>1. PICK pre, post : IsQueued(pre, post)
    BY <1>4 DEF QueryInv
  <2>2. IsQueued(Tail(pre), post)'
    BY <1>1, <1>2, <1>3, <2>1, TakenAhead
  <2>3. \E p, q : IsQueued(p, q)'
    BY <2>2
  <2>4. QED  BY <1>1, <1>4, <2>3 DEF QueryInv
<1>5. CASE query.stage # "queued"
  <2>1. channel' \in Seq(Command)
    BY <1>1, <1>5, HeadTailProperties DEF QueryInv
  <2>2. QED  BY <1>1, <1>5, <2>1 DEF QueryInv
<1>6. QED  BY <1>4, <1>5

LEMMA NextQuery ==
  ASSUME IInv, PipeTypes, SentInv, QueryInv, [PipeNext]_pipeVars
  PROVE  QueryInv'
<1>0. HandleTypes /\ StoreTypes /\ ViewerTypes /\ TypeOK
  BY DEF PipeTypes, IInv
<1>1. CASE SendCall
  BY <1>0, <1>1, SendKeepsQuery
<1>2. CASE Ask
  BY <1>0, <1>2, QueryAsked
<1>3. CASE TakeQuery
  BY <1>0, <1>3, QueryTaken
<1>4. CASE TakeRows \/ TakeGc
  BY <1>0, <1>4, TakeKeepsQuery
<1>5. ASSUME channel' = channel, Held' = Held, query' = query PROVE QueryInv'
  BY <1>5 DEF QueryInv, IsQueued, RowsOf, ItemsOf
<1>6. CASE IdleFlush
  <2>1. Appends(queued) /\ channel' = channel /\ query' = query
    BY <1>0, <1>6, FlushMoves DEF IdleFlush, viewer
  <2>2. Held' = Held
    <3>1. queued' = << >> /\ df' = Held /\ df' \in Seq(Execution)
      BY <2>1 DEF Appends, Held
    <3>2. df' \o << >> = df'
      BY <3>1, NothingJoined
    <3>3. QED  BY <3>1, <3>2 DEF Held
  <2>3. QED  BY <1>5, <2>1, <2>2
<1>7. CASE PoolAnswers
  <2>1. channel' = channel /\ Held' = Held /\ query.stage = "snapshot"
    BY <1>7 DEF PoolAnswers, dbThread, frame, Held
  <2>2. query'.stage = "answered" /\ query'.rows = query.rows /\ query'.expects = query.expects
    BY <1>0, <1>7 DEF PoolAnswers, ViewerTypes
  <2>3. QED  BY <2>1, <2>2 DEF QueryInv
<1>8. CASE CollectorRuns \/ OutsideMoves \/ AddTotal \/ SetOrigin \/ RaiseSpan \/ UNCHANGED pipeVars
  <2>1. channel' = channel /\ Held' = Held /\ query' = query
    BY <1>8 DEF CollectorRuns, OutsideMoves, AddTotal, SetOrigin, RaiseSpan, pipeVars, dbThread, viewer, frame, Held
  <2>2. QED  BY <1>5, <2>1
<1>9. QED  BY <1>1, <1>2, <1>3, <1>4, <1>6, <1>7, <1>8 DEF PipeNext, HandleStep, DbStep

LEMMA InitQuery == PipeInit => SentInv /\ QueryInv
<1> SUFFICES ASSUME PipeInit PROVE SentInv /\ QueryInv
  OBVIOUS
<1>1. /\ toDb = << >> /\ given = 0 /\ channel = << >> /\ queued = << >> /\ df = << >> /\ query = NoQuery
  BY DEF PipeInit, Init, T!Init
<1>2. Sent = << >>
  BY <1>1, SubSeqEmpty DEF Sent
<1>3. Reach = << >>
  BY <1>1, FewCommands DEF Reach, Held, Cat
<1>4. SentInv
  BY <1>2, <1>3, FewCommands DEF SentInv
<1>5. QueryInv
  BY <1>1, CmdTypes DEF QueryInv, NoQuery
<1>6. QED  BY <1>4, <1>5

\* For any number of questions and batches, and any schedule of the DB thread
\* and the read pool: an answer holds every row that had been sent when the
\* question was asked.
THEOREM PipelineAnswersFresh == PipeSpec => []AnswersFresh
<1>1. PipeInv /\ SentInv /\ QueryInv /\ [PipeNext]_pipeVars => SentInv' /\ QueryInv'
  BY NextSent, NextQuery DEF PipeInv
<1>2. QueryInv => AnswersFresh
  BY DEF QueryInv, AnswersFresh
<1>3. QED  BY <1>1, <1>2, InitQuery, PipeInvAlways, PTL DEF PipeSpec
-----------------------------------------------------------------------------
(* One hub thread: rows in start order. *)

OneHub ==
  \A i, j \in 1..decoded :
    stream[i].kind = "switch" /\ stream[j].kind = "switch" => stream[i].thread = stream[j].thread

\* No row starts before the end of an earlier one, and what runs began after
\* the end of every row there is.
RowsOrdered == \A a, b \in 1..Len(AllRows) : a < b => EndOf(AllRows[a]) <= AllRows[b].start
CurAfter ==
  \A th \in Threads, a \in 1..Len(AllRows) :
    cur[th] # NotRunning => EndOf(AllRows[a]) <= cur[th].start

OrderInv == OneHub => sorted /\ RowsOrdered /\ CurAfter

\* The end the DB thread compares with is that of a row of the frame.
MaxInv == maxEnd = -1 \/ \E a \in 1..Len(df) : maxEnd = EndOf(df[a])

\* What runs on a thread began no later than that thread's next switch.
LEMMA RunsBefore ==
  ASSUME TypeOK, Stamped, CurIsLast, pc # "stopped",
         decoded + 1 \in 1..Len(stream), Frame1.kind = "switch",
         NEW th \in Threads, cur[th] # NotRunning
  PROVE  /\ \E i \in 1..decoded : stream[i].kind = "switch" /\ stream[i].thread = th
         /\ th = Frame1.thread => cur[th].start <= Frame1.ts
<1> DEFINE ks == Seen(th)
<1>1. decoded \in Nat /\ ks # {} /\ ks \in SUBSET (1..decoded)
  BY Parts DEF CurIsLast, Seen
<1>2. PICK i \in ks : \A k \in ks : k <= i
  <2> HIDE DEF ks
  <2>1. QED  BY <1>1, LastPlace
<1>3. cur[th] = [target |-> stream[i].target, start |-> stream[i].ts]
  BY <1>2 DEF CurIsLast, RunsSince
<1>4. i \in 1..decoded /\ stream[i].kind = "switch" /\ stream[i].thread = th
  BY <1>2 DEF Seen, IsSwitchOf
<1>5. i \in 1..Len(stream) /\ i < decoded + 1
  BY <1>1, <1>4, Parts
<1>6. th = Frame1.thread => stream[i].ts <= Frame1.ts
  BY <1>4, <1>5 DEF Stamped, IsSwitchOf, Frame1
<1>7. QED  BY <1>3, <1>4, <1>6

\* A row there is was closed by a switch.
LEMMA RowsNeedSwitch ==
  ASSUME ExactRows, AllRows \in Seq(Execution), AllRows # << >>
  PROVE  \E j \in 1..decoded : stream[j].kind = "switch"
<1>1. Len(AllRows) # 0
  BY EmptySeq
<1>2. Closers # {}
  BY <1>1, FS_EmptySet DEF ExactRows
<1>3. QED  BY <1>2 DEF Closers

LEMMA DecodeOrder ==
  ASSUME TypeOK, Stamped, CurIsLast, ExactRows, OneHub => RowsOrdered /\ CurAfter, Decode,
         AllRows \in Seq(Execution), AllRows' = Cat(AllRows, NewRows), OneHub'
  PROVE  OneHub /\ RowsOrdered' /\ CurAfter'
<1>1. /\ decoded \in Nat /\ decoded + 1 \in 1..Len(stream) /\ decoded + 1 # decoded /\ pc # "stopped"
      /\ decoded' \in {decoded, decoded + 1} /\ stream' = stream
      /\ cur \in [Threads -> {NotRunning} \cup [target : 1..MaxFrames, start : Nat]]
  BY Parts DEF Decode, source
<1>2. 1..decoded \subseteq 1..decoded'
  BY <1>1
<1>3. OneHub /\ RowsOrdered /\ CurAfter
  BY <1>1, <1>2 DEF OneHub
<1>4. CASE ~(decoded' = decoded + 1 /\ Frame1.kind = "switch")
  <2>1. NewRows = << >>
    BY <1>1, <1>4 DEF NewRows
  <2>2. cur' = cur
    BY <1>1, <1>4 DEF Decode, DecodeGc, Frame1
  <2>3. AllRows' = AllRows
    BY <2>1, NothingJoined DEF Cat
  <2>4. QED  BY <1>3, <2>2, <2>3 DEF RowsOrdered, CurAfter
<1>5. CASE decoded' = decoded + 1 /\ Frame1.kind = "switch"
  <2> DEFINE th == Frame1.thread
  <2>1. Frame1 \in Frame /\ th \in Threads /\ Frame1.ts \in Nat
    <3>1. Frame1 \in Frame
      BY <1>1, Parts, ElementOfSeq DEF Frame1
    <3>2. QED  BY <1>5, <3>1, ClosedType
  <2>2. cur' = [cur EXCEPT ![th] = [target |-> Frame1.target, start |-> Frame1.ts]]
    BY <1>5 DEF Decode, DecodeSwitch, SwitchIn, Frame1
  <2>3. ASSUME NEW h \in Threads, cur[h] # NotRunning
        PROVE  h = th /\ cur[h].start <= Frame1.ts /\ cur[h].start \in Nat
    <3>1. PICK i \in 1..decoded : stream[i].kind = "switch" /\ stream[i].thread = h
      BY <1>1, <1>5, <2>3, RunsBefore
    <3>2. i \in 1..decoded' /\ decoded + 1 \in 1..decoded'
      BY <1>1, <1>5
    <3>3. h = th
      BY <1>1, <1>5, <3>1, <3>2 DEF OneHub, Frame1
    <3>4. cur[h].start <= Frame1.ts
      BY <1>1, <1>5, <2>3, <3>3, RunsBefore
    <3>5. QED  BY <1>1, <2>3, <3>3, <3>4
  <2>4. ASSUME NEW a \in 1..Len(AllRows)
        PROVE  EndOf(AllRows[a]) \in Nat /\ EndOf(AllRows[a]) <= Frame1.ts /\ cur[th] # NotRunning
    <3>1. AllRows # << >> /\ AllRows[a] \in Execution
      BY ElementOfSeq
    <3>2. EndOf(AllRows[a]) \in Nat
      BY <3>1 DEF Execution, EndOf
    <3>3. PICK j \in 1..decoded : stream[j].kind = "switch"
      BY <3>1, RowsNeedSwitch
    <3>4. j \in 1..decoded' /\ decoded + 1 \in 1..decoded'
      BY <1>1, <1>5
    <3>5. stream[j].thread = th
      BY <1>1, <1>5, <3>3, <3>4 DEF OneHub, Frame1
    <3>6. j \in Seen(th)
      BY <3>3, <3>5 DEF Seen, IsSwitchOf
    <3>7. cur[th] # NotRunning
      <4>1. Earlier(decoded + 1) # {}
        BY <1>1, <3>6 DEF Earlier, Seen, Frame1
      <4>2. Closed(Frame1) # << >>
        <5>1. Closed(Frame1) = <<RowOf(decoded + 1)>>
          BY <1>1, <1>5, <4>1, ClosedIsRow
        <5>2. \A x : <<x>> # << >>
          OBVIOUS
        <5>3. QED  BY <5>1, <5>2
      <4>3. QED  BY <4>2 DEF Closed
    <3>8. EndOf(AllRows[a]) <= cur[th].start
      BY <1>3, <2>1, <3>7 DEF CurAfter
    <3>9. QED  BY <2>1, <2>3, <3>2, <3>7, <3>8
  <2>5. CASE cur[th] = NotRunning
    <3>1. NewRows = << >>
      BY <1>1, <1>5, <2>5 DEF NewRows, Closed
    <3>2. AllRows' = AllRows
      BY <3>1, NothingJoined DEF Cat
    <3>3. 1..Len(AllRows) = {}
      BY <2>4, <2>5
    <3>4. QED  BY <1>3, <3>2, <3>3 DEF RowsOrdered, CurAfter
  <2>6. CASE cur[th] # NotRunning
    <3> DEFINE row == [gid |-> cur[th].target, start |-> cur[th].start,
                       dur |-> Monus(Frame1.ts, cur[th].start)]
               one == <<row>>
    <3>1. NewRows = one
      BY <1>1, <1>5, <2>6 DEF NewRows, Closed
    <3>2. row.start = cur[th].start /\ EndOf(row) = Frame1.ts
      BY <2>1, <2>3, <2>6 DEF EndOf, Monus
    <3>3. NewRows \in Seq(Execution) /\ Len(one) = 1 /\ one[1] = row
      BY <1>1, <1>5, <2>1, ClosedType DEF NewRows
    <3> HIDE DEF row, one
    <3>4. InBoth(AllRows', AllRows, one)
      BY <3>1, <3>3, CatHas
    <3> DEFINE rows == AllRows'
               n == Len(AllRows)
    <3>5. /\ n \in Nat /\ Len(rows) = n + 1 /\ rows[n + 1] = row
          /\ \A a \in 1..n : rows[a] = AllRows[a]
      BY <3>3, <3>4 DEF InBoth
    <3> HIDE DEF rows, n
    <3>6. ASSUME NEW a \in 1..Len(rows) PROVE EndOf(rows[a]) <= Frame1.ts
      <4>1. CASE a = n + 1
        BY <2>1, <3>2, <3>5, <4>1
      <4>2. CASE a # n + 1
        <5>1. a \in 1..n
          BY <3>5, <4>2
        <5>2. QED  BY <2>4, <3>5, <5>1 DEF n
      <4>3. QED  BY <4>1, <4>2
    <3>7. ASSUME NEW a \in 1..Len(rows), NEW b \in 1..Len(rows), a < b
          PROVE  EndOf(rows[a]) <= rows[b].start
      <4>1. a \in 1..n
        BY <3>5, <3>7
      <4>2. CASE b = n + 1
        <5>1. EndOf(AllRows[a]) <= cur[th].start
          BY <1>3, <2>1, <2>6, <4>1 DEF CurAfter, n
        <5>2. QED  BY <3>2, <3>5, <4>1, <4>2, <5>1
      <4>3. CASE b # n + 1
        <5>1. b \in 1..n
          BY <3>5, <4>3
        <5>2. QED  BY <1>3, <3>5, <3>7, <4>1, <5>1 DEF RowsOrdered, n
      <4>4. QED  BY <4>2, <4>3
    <3>8. ASSUME NEW h \in Threads, NEW a \in 1..Len(rows), cur'[h] # NotRunning
          PROVE  EndOf(rows[a]) <= cur'[h].start
      <4>1. h = th
        <5>1. ASSUME h # th PROVE FALSE
          <6>1. cur'[h] = cur[h]
            BY <1>1, <2>2, <5>1
          <6>2. QED  BY <2>3, <3>8, <5>1, <6>1
        <5>2. QED  BY <5>1
      <4>2. cur'[h].start = Frame1.ts
        BY <1>1, <2>1, <2>2, <4>1
      <4>3. QED  BY <3>6, <4>2
    <3>9. QED  BY <1>3, <3>7, <3>8 DEF RowsOrdered, CurAfter, rows
  <2>7. QED  BY <2>5, <2>6
<1>6. QED  BY <1>4, <1>5
\* What is held comes first.
LEMMA FirstIsHeld ==
  ASSUME NEW S, NEW h \in Seq(S), NEW c \in Seq(S), NEW r \in Seq(S), NEW p \in Seq(S)
  PROVE  \A k \in 1..Len(h) : /\ Cat(Cat(Cat(h, c), r), p)[k] = h[k]
                              /\ k \in 1..Len(Cat(Cat(Cat(h, c), r), p))
<1> DEFINE hc == Cat(h, c)
           hcr == Cat(hc, r)
           all == Cat(hcr, p)
<1>1. hc \in Seq(S) /\ InBoth(hc, h, c)
  BY CatHas, CatLaws DEF Associative
<1> HIDE DEF hc
<1>2. hcr \in Seq(S) /\ InBoth(hcr, hc, r)
  BY <1>1, CatHas, CatLaws DEF Associative
<1> HIDE DEF hcr
<1>3. InBoth(all, hcr, p)
  BY <1>2, CatHas
<1> HIDE DEF all
<1>4. \A k \in 1..Len(h) : hc[k] = h[k] /\ k \in 1..Len(hc)
  BY <1>1 DEF InBoth
<1>5. \A k \in 1..Len(h) : hcr[k] = h[k] /\ k \in 1..Len(hcr)
  BY <1>2, <1>4 DEF InBoth
<1>6. \A k \in 1..Len(h) : all[k] = h[k] /\ k \in 1..Len(all)
  BY <1>3, <1>5 DEF InBoth
<1>7. QED  BY <1>6 DEF all, hcr, hc

\* Rows from the whole, appended in their place, are in order.
LEMMA AppendOrder ==
  ASSUME df \in Seq(Execution), NEW rows \in Seq(Execution), MaxInv, RowsOrdered,
         \A k \in 1..Len(df \o rows) : AllRows[k] = (df \o rows)[k] /\ k \in 1..Len(AllRows)
  PROVE  T!InOrder(rows)
<1>a. df \in Seq(Execution) /\ rows \in Seq(Execution)
  OBVIOUS
<1>b. /\ \A i \in 1..Len(rows) : rows[i] \in Execution
      /\ \A i \in 1..Len(df) : df[i] \in Execution
  BY ONLY <1>a, ElementOfSeq
<1>c. /\ \A i \in 1..Len(rows) : rows[i].start \in Nat /\ EndOf(rows[i]) \in Nat
      /\ \A i \in 1..Len(df) : EndOf(df[i]) \in Nat
  <2>1. \A row \in Execution : row.start \in Nat /\ EndOf(row) \in Nat
    BY DEF Execution, EndOf
  <2>2. QED  BY ONLY <1>b, <2>1
<1> DEFINE held == Cat(df, rows)
<1>1. InBoth(held, df, rows)
  BY CatHas
<1>2. \A k \in 1..Len(held) : AllRows[k] = held[k] /\ k \in 1..Len(AllRows)
  BY DEF Cat
<1> HIDE DEF held
<1>3. \A a \in 1..Len(df) : AllRows[a] = df[a] /\ a \in 1..Len(AllRows)
  BY <1>1, <1>2 DEF InBoth
<1>4. \A i \in 1..Len(rows) : AllRows[Len(df) + i] = rows[i] /\ Len(df) + i \in 1..Len(AllRows)
  BY <1>1, <1>2 DEF InBoth
<1>5. Len(df) \in Nat /\ Len(rows) \in Nat
  BY LenProperties
<1>6. ASSUME NEW i \in 1..Len(rows) PROVE rows[i].start >= maxEnd
  <2>1. rows[i].start \in Nat
    BY <1>c
  <2>2. CASE maxEnd = -1
    BY <2>1, <2>2
  <2>3. CASE \E a \in 1..Len(df) : maxEnd = EndOf(df[a])
    <3>1. PICK a \in 1..Len(df) : maxEnd = EndOf(df[a])
      BY <2>3
    <3>2. a < Len(df) + i /\ a \in 1..Len(AllRows) /\ Len(df) + i \in 1..Len(AllRows)
      BY <1>3, <1>4, <1>5
    <3>3. EndOf(AllRows[a]) <= AllRows[Len(df) + i].start
      BY <3>2 DEF RowsOrdered
    <3>4. maxEnd <= rows[i].start
      BY <1>3, <1>4, <3>1, <3>3
    <3>5. maxEnd \in Nat
      BY <1>c, <3>1
    <3>6. QED  BY <2>1, <3>4, <3>5
  <2>4. QED  BY <2>2, <2>3 DEF MaxInv
<1>7. ASSUME NEW i \in 1..Len(rows), NEW j \in 1..(i - 1) PROVE rows[i].start >= T!EndOf(rows[j])
  <2>1. j \in 1..Len(rows) /\ Len(df) + j < Len(df) + i
    BY <1>5
  <2>2. EndOf(AllRows[Len(df) + j]) <= AllRows[Len(df) + i].start
    BY <1>4, <2>1 DEF RowsOrdered
  <2>3. EndOf(rows[j]) <= rows[i].start
    BY <1>4, <2>1, <2>2
  <2>4. EndOf(rows[j]) \in Nat /\ rows[i].start \in Nat
    BY <1>c, <2>1
  <2>5. QED  BY <2>3, <2>4 DEF EndOf, T!EndOf
<1>8. QED  BY <1>6, <1>7 DEF T!InOrder

\* A step of the DB thread keeps the fast path if the rows are in order.
LEMMA DbOrder ==
  ASSUME TypeOK, HandleTypes, StoreTypes, MaxInv, DbStep
  PROVE  MaxInv' /\ (sorted /\ RowsOrdered => sorted')
<1>1. df \in Seq(Execution) /\ queued \in Seq(Execution) /\ sorted \in BOOLEAN
  BY DEF StoreTypes
<1>2. ASSUME NEW rows, Appends(rows), rows \in Seq(Execution), Held' = df \o rows
      PROVE  MaxInv' /\ (sorted /\ RowsOrdered => sorted')
  <2>1. df' = df \o rows /\ (sorted' = sorted \/ sorted' = (sorted /\ T!InOrder(rows)))
        /\ (maxEnd' = maxEnd \/ \E i \in 1..Len(rows) : maxEnd' = EndOf(rows[i]))
    BY <1>2 DEF Appends
  <2>2. InBoth(df', df, rows)
    BY <1>1, <1>2, <2>1, CatHas DEF Cat
  <2>3. MaxInv'
    <3>1. CASE maxEnd' = maxEnd
      BY <2>2, <3>1 DEF MaxInv, InBoth
    <3>2. CASE \E i \in 1..Len(rows) : maxEnd' = EndOf(rows[i])
      <4>1. PICK i \in 1..Len(rows) : maxEnd' = EndOf(rows[i])
        BY <3>2
      <4>2. df'[Len(df) + i] = rows[i] /\ Len(df) + i \in 1..Len(df')
        BY <2>2 DEF InBoth
      <4>3. \E a \in 1..Len(df') : maxEnd' = EndOf(df'[a])
        BY <4>1, <4>2
      <4>4. QED  BY <4>3 DEF MaxInv
    <3>3. QED  BY <2>1, <3>1, <3>2
  <2>4. ASSUME sorted, RowsOrdered PROVE sorted'
    <3>1. Reach' = Reach /\ pending' = pending /\ UNCHANGED <<toDb, given>> /\ StoreTypes'
      BY DbMoves
    <3>2. AllRows = Cat(Cat(Reach', RowsOf(Calls)), pending) /\ Reach' = Cat(Held', RowsOf(channel'))
      BY <3>1 DEF AllRows, Reach, RowsOf, ItemsOf, Cat
    <3>3. AllRows = Cat(Cat(Cat(df \o rows, RowsOf(channel')), RowsOf(Calls)), pending)
      BY <1>2, <3>2
    <3>4. /\ df \o rows \in Seq(Execution) /\ RowsOf(channel') \in Seq(Execution)
          /\ RowsOf(Calls) \in Seq(Execution) /\ pending \in Seq(Execution)
      <4>1. channel' \in Seq(Cmd)
        BY <3>1 DEF StoreTypes
      <4>2. RowsOf(channel') \in Seq(Execution)
        BY <4>1, RowsConcat
      <4>3. df \o rows \in Seq(Execution)
        BY <1>1, <1>2, Joined
      <4>4. QED  BY <4>2, <4>3, AllTypes
    <3> DEFINE h == df \o rows
               c == RowsOf(channel')
               r == RowsOf(Calls)
    <3>5. h \in Seq(Execution) /\ c \in Seq(Execution) /\ r \in Seq(Execution)
          /\ pending \in Seq(Execution) /\ AllRows = Cat(Cat(Cat(h, c), r), pending)
      BY <3>3, <3>4
    <3> HIDE DEF h, c, r
    <3>6. \A k \in 1..Len(h) : AllRows[k] = h[k] /\ k \in 1..Len(AllRows)
      <4>1. h \in Seq(Execution) /\ c \in Seq(Execution) /\ r \in Seq(Execution) /\ pending \in Seq(Execution)
        BY <3>5
      <4>2. \A k \in 1..Len(h) : /\ Cat(Cat(Cat(h, c), r), pending)[k] = h[k]
                                 /\ k \in 1..Len(Cat(Cat(Cat(h, c), r), pending))
        BY ONLY <4>1, FirstIsHeld
      <4>3. QED  BY <3>5, <4>2
    <3>7. T!InOrder(rows)
      BY <1>1, <1>2, <2>4, <3>6, AppendOrder DEF h
    <3>8. QED  BY <2>1, <2>4, <3>7
  <2>5. QED  BY <2>3, <2>4
<1>3. ASSUME UNCHANGED <<df, sorted, maxEnd>>
      PROVE  MaxInv' /\ (sorted /\ RowsOrdered => sorted')
  BY <1>3 DEF MaxInv
<1>4. ASSUME NEW rows, StoreMoves(rows)
      PROVE  MaxInv' /\ (sorted /\ RowsOrdered => sorted')
  <2>1. Held' = df \o rows
    BY <1>4, HeldAfter
  <2>2. QED  BY <1>2, <1>3, <1>4, <2>1 DEF StoreMoves
<1>5. CASE TakeRows
  BY <1>4, <1>5, TakeRowsMoves
<1>6. CASE TakeQuery \/ IdleFlush
  BY <1>4, <1>6, FlushMoves
<1>7. CASE TakeGc
  BY <1>3, <1>7 DEF TakeGc, frame
<1>8. QED  BY <1>5, <1>6, <1>7 DEF DbStep

LEMMA NextOrder ==
  ASSUME PipeInv, OrderInv, MaxInv, [PipeNext]_pipeVars
  PROVE  OrderInv' /\ MaxInv'
<1>0. /\ TypeOK /\ IInv /\ Stamped /\ CurIsLast /\ PipeTypes /\ HandleTypes /\ StoreTypes /\ ExactRows
  BY DEF PipeInv, IInv, PipeTypes
<1>1. CASE CollectorRuns
  <2>1. UNCHANGED <<df, sorted, maxEnd>> /\ Step
    BY <1>1 DEF CollectorRuns, dbThread, frame
  <2>2. MaxInv'
    BY <2>1 DEF MaxInv
  <2>3. AllRows' = Cat(AllRows, NewRows) /\ AllRows \in Seq(Execution)
    BY <1>0, <1>1, CollectorMoves, AllTypes
  <2>4. CASE Decode
    <3>1. OneHub => RowsOrdered /\ CurAfter
      BY DEF OrderInv
    <3>2. ASSUME OneHub' PROVE OneHub /\ RowsOrdered' /\ CurAfter'
      BY <1>0, <2>3, <2>4, <3>1, <3>2, DecodeOrder
    <3>3. QED  BY <2>1, <2>2, <3>2 DEF OrderInv
  <2>5. CASE ~Decode
    <3>1. decoded' = decoded /\ stream' = stream
          /\ (cur' = cur \/ cur' = [th \in Threads |-> NotRunning])
      BY <2>1, <2>5 DEF Step, Top, TimedFlush, ReadSome, ReadIdle, ReadEnd, Finish, source
    <3>2. NewRows = << >>
      BY <3>1 DEF NewRows
    <3>3. AllRows' = AllRows
      BY <2>3, <3>2, NothingJoined DEF Cat
    <3>4. CurAfter => CurAfter'
      BY <3>1, <3>3 DEF CurAfter
    <3>5. OneHub' = OneHub /\ RowsOrdered' = RowsOrdered
      BY <3>1, <3>3 DEF OneHub, RowsOrdered
    <3>6. QED  BY <2>1, <2>2, <3>4, <3>5 DEF OrderInv
  <2>6. QED  BY <2>4, <2>5
<1>2. CASE ~CollectorRuns
  <2>1. /\ AllRows' = AllRows /\ decoded' = decoded /\ cur' = cur
        /\ \A i \in 1..decoded : stream'[i] = stream[i]
    BY <1>0, <1>2, OthersKeepAll
  <2>2. (OneHub' => OneHub) /\ (RowsOrdered => RowsOrdered') /\ (CurAfter => CurAfter')
    BY <2>1 DEF OneHub, RowsOrdered, CurAfter
  <2>3. MaxInv' /\ (sorted /\ RowsOrdered => sorted')
    <3>1. CASE DbStep
      BY <1>0, <3>1, DbOrder
    <3>2. CASE ~DbStep
      <4>1. UNCHANGED <<df, sorted, maxEnd>>
        BY <1>2, <3>2 DEF PipeNext, HandleStep, AddTotal, SetOrigin, RaiseSpan, SendCall, OutsideMoves, Ask,
                          PoolAnswers, pipeVars, dbThread, frame
      <4>2. QED  BY <4>1 DEF MaxInv
    <3>3. QED  BY <3>1, <3>2
  <2>4. QED  BY <2>2, <2>3 DEF OrderInv
<1>3. QED  BY <1>1, <1>2

LEMMA InitOrder == PipeInit => OrderInv /\ MaxInv
<1> SUFFICES ASSUME PipeInit PROVE OrderInv /\ MaxInv
  OBVIOUS
<1>1. sorted = TRUE /\ maxEnd = -1 /\ cur = [th \in Threads |-> NotRunning]
  BY DEF PipeInit, Init, T!Init
<1>2. ExactRows /\ decoded = 0
  BY InitExact DEF PipeInit, Init
<1>3. Closers = {} /\ Cardinality({}) = 0
  BY <1>2, FS_EmptySet DEF Closers
<1>4. 1..Len(AllRows) = {}
  BY <1>2, <1>3 DEF ExactRows
<1>5. QED  BY <1>1, <1>4 DEF OrderInv, MaxInv, RowsOrdered, CurAfter

\* While only one hub thread has switched, every append leaves the frame
\* sorted, whatever the batches and wherever the flushes cut them: the windows
\* of a single-threaded target are always answered by binary search.
THEOREM PipelineOneHubSorted == PipeSpec => []OneHubSorted
<1>1. PipeInv /\ OrderInv /\ MaxInv /\ [PipeNext]_pipeVars => OrderInv' /\ MaxInv'
  BY NextOrder
<1>2. OrderInv => OneHubSorted
  BY DEF OrderInv, OneHub, OneHubSorted
<1>3. QED  BY <1>1, <1>2, InitOrder, PipeInvAlways, PTL DEF PipeSpec
=============================================================================
