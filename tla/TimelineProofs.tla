--------------------------- MODULE TimelineProofs ---------------------------
(***************************************************************************)
(* Machine-checked theorems about Timeline and Reports: type correctness,  *)
(* the mirror and order invariants of the frame, what they buy the binary  *)
(* searches, that the slow log's totals and pages tell the truth about a   *)
(* tier whatever order its sort gives to equal rows, and that the figures  *)
(* of a report do not contradict one another.                              *)
(***************************************************************************)
EXTENDS Reports, SequenceLemmas, FunctionTheorems

-----------------------------------------------------------------------------
(* The eviction slice. *)

\* How many rows the cap removes from the front of a sequence.
Cut(s) == IF Capped /\ Len(s) > CapRows THEN Len(s) - CapRows ELSE 0

\* Newest keeps a suffix: row i of the result is row Cut + i of the input.
LEMMA NewestIsSuffix ==
  ASSUME NEW S, NEW s \in Seq(S)
  PROVE  /\ Newest(s) \in Seq(S)
         /\ Cut(s) \in 0..Len(s)
         /\ Len(Newest(s)) = Len(s) - Cut(s)
         /\ Len(s) > 0 => Len(Newest(s)) > 0
         /\ \A i \in 1..Len(Newest(s)) : Newest(s)[i] = s[Cut(s) + i]
<1>1. CASE Capped /\ Len(s) > CapRows
  <2>1. \A i \in (Len(s) - CapRows + 1)..Len(s) : s[i] \in S
    BY TimelineAssumption, ElementOfSeq, <1>1
  <2>2. /\ Newest(s) \in Seq(S)
        /\ Len(Newest(s)) = CapRows
        /\ \A i \in 1..CapRows : Newest(s)[i] = s[Len(s) - CapRows + i]
    BY <2>1, <1>1, TimelineAssumption, SubSeqProperties DEF Newest
  <2>3. QED  BY <2>2, <1>1, TimelineAssumption DEF Cut
<1>2. CASE ~(Capped /\ Len(s) > CapRows)
  BY <1>2 DEF Newest, Cut
<1>3. QED  BY <1>1, <1>2

LEMMA StartsOfType ==
  ASSUME NEW batch \in Seq(Row)
  PROVE  /\ StartsOf(batch) \in Seq(Starts)
         /\ Len(StartsOf(batch)) = Len(batch)
         /\ \A i \in 1..Len(batch) : StartsOf(batch)[i] = batch[i].start
<1>1. \A i \in 1..Len(batch) : batch[i] \in Row
  BY ElementOfSeq
<1>2. StartsOf(batch) \in [1..Len(batch) -> Starts]
  BY <1>1 DEF StartsOf, Row
<1>3. QED  BY <1>2 DEF StartsOf

LEMMA RowType ==
  ASSUME NEW row \in Row
  PROVE  row.start \in Nat /\ row.dur \in Nat /\ EndOf(row) \in Nat /\ row.start <= EndOf(row)
<1>1. row.start \in Starts /\ row.dur \in Durs
  BY DEF Row
<1>2. row.start \in Nat /\ row.dur \in Nat
  BY <1>1, TimelineAssumption
<1>3. QED  BY <1>2 DEF EndOf

LEMMA BatchType ==
  ASSUME NEW batch \in Batches
  PROVE  batch \in Seq(Row) /\ batch # << >>
<1>1. PICK n \in 1..MaxBatch : batch \in [1..n -> Row]
  BY DEF Batches
<1>2. n \in Nat \ {0}
  BY <1>1, TimelineAssumption
<1>3. batch \in Seq(Row) /\ Len(batch) = n
  BY <1>1, <1>2
<1>4. QED  BY <1>2, <1>3, EmptySeq

-----------------------------------------------------------------------------
(* The inductive invariant. Type correctness alone bounds nothing: that a   *)
(* row is noticed as out of order rests on maxEnd covering every held row,  *)
(* and the horizon is read off the mirror, so it needs Aligned.             *)

IInv == TypeOK /\ Aligned /\ SortedContract /\ MaxEndCovers /\ HorizonExact

\* Appending keeps the types of everything it writes.
LEMMA AppendTypes ==
  ASSUME TypeOK, NEW batch \in Seq(Row), batch # << >>, AppendBatch(batch)
  PROVE  /\ df' \in Seq(Row) /\ df' = Newest(df \o batch)
         /\ starts' \in Seq(Starts) /\ starts' = Newest(starts \o StartsOf(batch))
         /\ Len(df') > 0 /\ Len(starts') > 0
         /\ sorted' \in BOOLEAN
         /\ maxEnd' \in Nat
         /\ \A e \in Ends(batch) : maxEnd' >= e
<1> USE DEF TypeOK
<1>1. df \o batch \in Seq(Row) /\ Len(df \o batch) = Len(df) + Len(batch)
  BY ConcatProperties
<1>2. Len(batch) \in Nat \ {0} /\ Len(df) \in Nat /\ Len(starts) \in Nat
  BY EmptySeq, LenProperties
<1>3. /\ starts \o StartsOf(batch) \in Seq(Starts)
      /\ Len(starts \o StartsOf(batch)) = Len(starts) + Len(batch)
  <2>1. StartsOf(batch) \in Seq(Starts) /\ Len(StartsOf(batch)) = Len(batch)
    BY StartsOfType
  <2>2. starts \in Seq(Starts)
    OBVIOUS
  <2>3. /\ starts \o StartsOf(batch) \in Seq(Starts)
        /\ Len(starts \o StartsOf(batch)) = Len(starts) + Len(StartsOf(batch))
    <3> HIDE DEF TypeOK
    <3>1. QED  BY <2>1, <2>2, ConcatProperties
  <2>4. QED  BY <2>1, <2>3
<1>4. Len(df') > 0 /\ df' \in Seq(Row)
  <2>1. Len(df \o batch) > 0
    BY <1>1, <1>2
  <2>2. QED  BY <1>1, <2>1, NewestIsSuffix DEF AppendBatch
<1>5. Len(starts') > 0 /\ starts' \in Seq(Starts)
  <2>1. Len(starts \o StartsOf(batch)) > 0
    BY <1>2, <1>3
  <2>2. QED  BY <1>3, <2>1, NewestIsSuffix DEF AppendBatch
<1>6. sorted' \in BOOLEAN
  BY DEF AppendBatch, InOrder
<1>7. maxEnd' \in Ends(batch) /\ \A e \in Ends(batch) : maxEnd' >= e
  BY DEF AppendBatch, MaxEndAfter
<1>8. maxEnd' \in Nat
  <2>1. 1 \in 1..Len(batch) /\ batch[1] \in Row
    BY <1>2, ElementOfSeq
  <2>2. EndOf(batch[1]) \in Ends(batch) /\ EndOf(batch[1]) \in Nat
    BY <2>1, RowType DEF Ends
  <2>3. CASE maxEnd' = maxEnd
    BY <2>2, <2>3, <1>7
  <2>4. CASE maxEnd' # maxEnd
    <3>1. PICK i \in 1..Len(batch) : maxEnd' = EndOf(batch[i])
      BY <2>4, <1>7 DEF Ends
    <3>2. QED  BY <3>1, RowType, ElementOfSeq
  <2>5. QED  BY <2>3, <2>4
<1>9. QED  BY <1>4, <1>5, <1>6, <1>7, <1>8 DEF AppendBatch

\* Rows of the concatenation, old first.
LEMMA ConcatRows ==
  ASSUME TypeOK, NEW batch \in Seq(Row)
  PROVE  /\ df \o batch \in Seq(Row)
         /\ Len(df \o batch) = Len(df) + Len(batch)
         /\ Len(df) \in Nat /\ Len(batch) \in Nat
         /\ \A i \in 1..Len(df) : (df \o batch)[i] = df[i]
         /\ \A i \in 1..(Len(df) + Len(batch)) :
              i > Len(df) => /\ i - Len(df) \in 1..Len(batch)
                             /\ (df \o batch)[i] = batch[i - Len(df)]
<1>1. df \in Seq(Row)
  BY DEF TypeOK
<1>2. QED  BY <1>1, ConcatProperties, LenProperties

\* Before eviction: an in-order batch after a sorted frame stays sorted, and
\* the new maximum covers old and new rows.
LEMMA ConcatInOrder ==
  ASSUME TypeOK, SortedContract, MaxEndCovers, NEW batch \in Seq(Row),
         AppendBatch(batch)
  PROVE  /\ sorted' => \A i, j \in 1..(Len(df) + Len(batch)) :
                          i < j => EndOf((df \o batch)[i]) <= (df \o batch)[j].start
         /\ \A i \in 1..(Len(df) + Len(batch)) : EndOf((df \o batch)[i]) <= maxEnd'
<1> DEFINE cat == df \o batch
<1>1. \A e \in Ends(batch) : maxEnd' >= e
  BY DEF AppendBatch, MaxEndAfter
<1>2. maxEnd \in Int /\ maxEnd' \in Int
  <2>1. \A e \in Ends(batch) : e \in Int
    BY RowType, ElementOfSeq DEF Ends, TypeOK
  <2>2. QED  BY <2>1 DEF TypeOK, AppendBatch, MaxEndAfter
<1>3. ASSUME NEW i \in 1..Len(df)
      PROVE  cat[i] = df[i] /\ EndOf(df[i]) \in Nat /\ EndOf(df[i]) <= maxEnd
  BY ConcatRows, RowType, ElementOfSeq DEF TypeOK, MaxEndCovers
<1>4. ASSUME NEW i \in 1..Len(batch)
      PROVE  batch[i] \in Row /\ batch[i].start \in Nat /\ EndOf(batch[i]) \in Nat
  BY RowType, ElementOfSeq
<1>5. ASSUME NEW i \in 1..(Len(df) + Len(batch))
      PROVE  EndOf(cat[i]) <= maxEnd'
  <2>1. CASE i <= Len(df)
    <3>1. maxEnd' >= maxEnd
      BY <1>1 DEF Ends
    <3>2. i \in 1..Len(df)
      BY <2>1, ConcatRows
    <3>3. QED  BY <3>1, <3>2, <1>2, <1>3
  <2>2. CASE i > Len(df)
    <3>1. i - Len(df) \in 1..Len(batch) /\ cat[i] = batch[i - Len(df)]
      BY <2>2, ConcatRows
    <3>2. QED  BY <3>1, <1>1 DEF Ends
  <2>3. QED  BY <2>1, <2>2, ConcatRows
<1>6. ASSUME sorted', NEW i \in 1..(Len(df) + Len(batch)),
             NEW j \in 1..(Len(df) + Len(batch)), i < j
      PROVE  EndOf(cat[i]) <= cat[j].start
  <2>1. sorted /\ InOrder(batch)
    BY <1>6 DEF AppendBatch
  <2>2. CASE j <= Len(df)
    <3>1. i \in 1..Len(df) /\ j \in 1..Len(df)
      BY <2>2, <1>6, ConcatRows
    <3>2. EndOf(df[i]) <= df[j].start
      BY <3>1, <2>1, <1>6 DEF SortedContract
    <3>3. cat[i] = df[i] /\ cat[j] = df[j]
      BY <3>1, <1>3
    <3>4. QED  BY <3>2, <3>3
  <2>3. CASE i <= Len(df) /\ j > Len(df)
    <3>1. i \in 1..Len(df) /\ j - Len(df) \in 1..Len(batch)
          /\ cat[j] = batch[j - Len(df)]
      BY <2>3, ConcatRows
    <3>2. batch[j - Len(df)].start >= maxEnd
      BY <3>1, <2>1 DEF InOrder
    <3>3. cat[i] = df[i] /\ EndOf(df[i]) <= maxEnd /\ EndOf(df[i]) \in Nat
      BY <3>1, <1>3
    <3>4. batch[j - Len(df)].start \in Nat
      BY <3>1, <1>4
    <3>5. QED  BY <3>1, <3>2, <3>3, <3>4, <1>2
  <2>4. CASE i > Len(df)
    <3>1. /\ i - Len(df) \in 1..Len(batch) /\ cat[i] = batch[i - Len(df)]
          /\ j - Len(df) \in 1..Len(batch) /\ cat[j] = batch[j - Len(df)]
      BY <2>4, <1>6, ConcatRows
    <3>2. i - Len(df) \in 1..((j - Len(df)) - 1)
      BY <3>1, <1>6, ConcatRows
    <3>3. batch[j - Len(df)].start >= EndOf(batch[i - Len(df)])
      BY <3>1, <3>2, <2>1 DEF InOrder
    <3>4. QED  BY <3>1, <3>3, <1>4
  <2>5. QED  BY <2>2, <2>3, <2>4, ConcatRows
<1>7. QED  BY <1>5, <1>6

\* What eviction leaves of the concatenation: cut rows are gone from its front.
LEMMA AppendSuffix ==
  ASSUME TypeOK, NEW batch \in Seq(Row), AppendBatch(batch)
  PROVE  \E cut \in 0..(Len(df) + Len(batch)) :
           /\ Len(df') = Len(df) + Len(batch) - cut
           /\ \A i \in 1..Len(df') :
                /\ cut + i \in 1..(Len(df) + Len(batch))
                /\ df'[i] = (df \o batch)[cut + i]
<1> DEFINE cat == df \o batch
<1>1. cat \in Seq(Row) /\ Len(cat) = Len(df) + Len(batch)
  BY ConcatRows
<1>2. df' = Newest(cat)
  BY DEF AppendBatch
<1>3. /\ Cut(cat) \in 0..Len(cat)
      /\ Len(df') = Len(cat) - Cut(cat)
      /\ \A i \in 1..Len(df') : df'[i] = cat[Cut(cat) + i]
  BY <1>1, <1>2, NewestIsSuffix
<1>4. Len(df) \in Nat /\ Len(batch) \in Nat
  BY ConcatRows
<1> HIDE DEF cat
<1>5. \A i \in 1..Len(df') : Cut(cat) + i \in 1..(Len(df) + Len(batch))
  BY <1>1, <1>3, <1>4
<1>6. Cut(cat) \in 0..(Len(df) + Len(batch))
  BY <1>1, <1>3
<1>7. Len(df') = Len(df) + Len(batch) - Cut(cat)
  BY <1>1, <1>3
<1> USE DEF cat
<1>8. QED  BY <1>3, <1>5, <1>6, <1>7

LEMMA AppendAligned ==
  ASSUME TypeOK, Aligned, NEW batch \in Seq(Row), AppendBatch(batch)
  PROVE  Aligned'
<1> DEFINE cat == df \o batch
           ss  == starts \o StartsOf(batch)
<1>1. cat \in Seq(Row) /\ Len(cat) = Len(df) + Len(batch)
  BY ConcatRows
<1>2. starts \in Seq(Starts) /\ StartsOf(batch) \in Seq(Starts)
      /\ Len(StartsOf(batch)) = Len(batch)
  BY StartsOfType DEF TypeOK
<1>3. /\ ss \in Seq(Starts)
      /\ Len(ss) = Len(starts) + Len(StartsOf(batch))
      /\ \A i \in 1..(Len(starts) + Len(StartsOf(batch))) :
           ss[i] = IF i <= Len(starts) THEN starts[i] ELSE StartsOf(batch)[i - Len(starts)]
  BY <1>2, ConcatProperties
<1>4. Len(ss) = Len(cat)
  BY <1>1, <1>2, <1>3 DEF Aligned
<1>5. ASSUME NEW i \in 1..Len(cat)
      PROVE  ss[i] = cat[i].start
  <2>1. Len(df) \in Nat /\ Len(batch) \in Nat /\ Len(starts) = Len(df)
    BY ConcatRows DEF Aligned
  <2>2. CASE i <= Len(df)
    <3>1. ss[i] = starts[i] /\ cat[i] = df[i] /\ i \in 1..Len(df)
      BY <1>1, <1>2, <1>3, <2>1, <2>2, ConcatRows
    <3>2. QED  BY <3>1 DEF Aligned
  <2>3. CASE i > Len(df)
    <3>1. /\ i - Len(df) \in 1..Len(batch)
          /\ ss[i] = StartsOf(batch)[i - Len(df)]
          /\ cat[i] = batch[i - Len(df)]
      BY <1>1, <1>2, <1>3, <2>1, <2>3, ConcatRows
    <3>2. StartsOf(batch)[i - Len(df)] = batch[i - Len(df)].start
      BY <3>1 DEF StartsOf
    <3>3. QED  BY <3>1, <3>2
  <2>4. i <= Len(df) \/ i > Len(df)
    BY <1>1, <2>1
  <2>5. QED  BY <2>2, <2>3, <2>4
<1>6. df' = Newest(cat) /\ starts' = Newest(ss)
  BY DEF AppendBatch
<1>7. Cut(ss) = Cut(cat)
  BY <1>4 DEF Cut
<1>8. /\ Cut(cat) \in 0..Len(cat) /\ Len(df') = Len(cat) - Cut(cat)
      /\ \A i \in 1..Len(df') : df'[i] = cat[Cut(cat) + i]
  BY <1>1, <1>6, NewestIsSuffix
<1>9. /\ Len(starts') = Len(ss) - Cut(ss)
      /\ \A i \in 1..Len(starts') : starts'[i] = ss[Cut(ss) + i]
  BY <1>3, <1>6, NewestIsSuffix
<1>10. Len(cat) \in Nat
  BY <1>1
<1> HIDE DEF cat, ss
<1>11. Len(starts') = Len(df')
  BY <1>4, <1>7, <1>8, <1>9
<1>12. ASSUME NEW i \in 1..Len(df')
       PROVE  starts'[i] = df'[i].start
  <2>1. Cut(cat) + i \in 1..Len(cat)
    BY <1>8, <1>10
  <2>2. QED  BY <2>1, <1>5, <1>7, <1>8, <1>9, <1>11
<1>13. QED  BY <1>11, <1>12 DEF Aligned

LEMMA AppendSorted ==
  ASSUME TypeOK, SortedContract, MaxEndCovers, NEW batch \in Seq(Row),
         AppendBatch(batch)
  PROVE  SortedContract' /\ MaxEndCovers'
<1>1. PICK cut \in 0..(Len(df) + Len(batch)) :
           /\ Len(df') = Len(df) + Len(batch) - cut
           /\ \A i \in 1..Len(df') :
                /\ cut + i \in 1..(Len(df) + Len(batch))
                /\ df'[i] = (df \o batch)[cut + i]
  BY AppendSuffix
<1>2. ASSUME sorted', NEW i \in 1..Len(df'), NEW j \in 1..Len(df'), i < j
      PROVE  EndOf(df'[i]) <= df'[j].start
  <2>1. cut + i < cut + j
    BY <1>2, ConcatRows
  <2>2. EndOf((df \o batch)[cut + i]) <= (df \o batch)[cut + j].start
    BY <1>1, <1>2, <2>1, ConcatInOrder
  <2>3. QED  BY <1>1, <2>2
<1>3. ASSUME NEW i \in 1..Len(df')
      PROVE  EndOf(df'[i]) <= maxEnd'
  BY <1>1, ConcatInOrder
<1>4. QED  BY <1>2, <1>3 DEF SortedContract, MaxEndCovers

LEMMA AppendHorizon ==
  ASSUME TypeOK, Aligned, HorizonExact, SortedContract, MaxEndCovers,
         NEW batch \in Seq(Row), batch # << >>, AppendBatch(batch)
  PROVE  HorizonExact' /\ retainedFrom' \in Nat
<1>1. CASE ~Capped
  BY <1>1 DEF AppendBatch, HorizonExact, TypeOK
<1>2. CASE Capped
  <2>1. /\ df' \in Seq(Row) /\ starts' \in Seq(Starts) /\ Len(df') > 0
        /\ sorted' \in BOOLEAN
    BY AppendTypes
  <2>2. /\ Len(starts') = Len(df')
        /\ \A i \in 1..Len(df') : starts'[i] = df'[i].start
    BY AppendAligned DEF Aligned
  <2>3. retainedFrom' \in HorizonOf(starts', sorted')
    BY <1>2 DEF AppendBatch
  <2>4. Len(df') \in Nat /\ 1 \in 1..Len(df')
    BY <2>1
  <2>5. \A i \in 1..Len(df') : df'[i] \in Row /\ df'[i].start \in Nat
                               /\ df'[i].start <= EndOf(df'[i]) /\ EndOf(df'[i]) \in Nat
    BY <2>1, RowType, ElementOfSeq
  <2>6. CASE sorted'
    <3>1. retainedFrom' = df'[1].start
      BY <2>2, <2>3, <2>4, <2>6 DEF HorizonOf
    <3>2. ASSUME NEW i \in 1..Len(df')
          PROVE  df'[1].start <= df'[i].start
      <4>1. CASE i = 1
        BY <4>1, <2>4, <2>5
      <4>2. CASE i > 1
        <5>1. EndOf(df'[1]) <= df'[i].start
          BY <4>2, <2>4, <2>6, AppendSorted DEF SortedContract
        <5>2. QED  BY <5>1, <2>4, <2>5
      <4>3. QED  BY <4>1, <4>2, <2>4
    <3>3. QED  BY <1>2, <2>4, <2>5, <3>1, <3>2 DEF HorizonExact
  <2>7. CASE ~sorted'
    <3>1. /\ \E i \in 1..Len(starts') : retainedFrom' = starts'[i]
          /\ \A i \in 1..Len(starts') : retainedFrom' <= starts'[i]
      BY <2>3, <2>7 DEF HorizonOf
    <3>2. /\ \E i \in 1..Len(df') : df'[i].start = retainedFrom'
          /\ \A i \in 1..Len(df') : retainedFrom' <= df'[i].start
      BY <3>1, <2>2
    <3>3. QED  BY <1>2, <2>5, <3>2 DEF HorizonExact
  <2>8. QED  BY <2>1, <2>6, <2>7
<1>3. QED  BY <1>1, <1>2

\* One whole append preserves the invariant.
LEMMA AppendInv ==
  ASSUME IInv, NEW batch \in Seq(Row), batch # << >>, AppendBatch(batch),
         pending' = << >>
  PROVE  IInv'
<1> USE DEF IInv
<1>1. TypeOK'
  BY AppendTypes, AppendHorizon DEF TypeOK
<1>2. QED  BY <1>1, AppendAligned, AppendSorted, AppendHorizon

LEMMA FlushInv ==
  ASSUME IInv, NEW rows \in Seq(Row), FlushPending(rows)
  PROVE  IInv'
<1>1. pending' = << >>
  BY DEF FlushPending
<1>2. CASE UNCHANGED store
  BY <1>1, <1>2 DEF IInv, store, TypeOK, Aligned, SortedContract, MaxEndCovers, HorizonExact
<1>3. CASE rows # << >> /\ AppendBatch(rows)
  BY <1>1, <1>3, AppendInv
<1>4. QED  BY <1>2, <1>3 DEF FlushPending, DropBatch

\* The two facts that make IInv an invariant of the specification.
LEMMA InitInv == Init => IInv
<1> SUFFICES ASSUME Init PROVE IInv
  OBVIOUS
<1> USE DEF Init
<1>1. TypeOK
  BY DEF TypeOK
<1>2. Len(df) = 0 /\ Len(starts) = 0
  OBVIOUS
<1>3. Aligned /\ SortedContract /\ MaxEndCovers
  BY <1>2 DEF Aligned, SortedContract, MaxEndCovers
<1>4. HorizonExact
  BY DEF HorizonExact
<1>5. QED  BY <1>1, <1>3, <1>4 DEF IInv

LEMMA NextInv == IInv /\ [Next]_vars => IInv'
<1> SUFFICES ASSUME IInv, [Next]_vars PROVE IInv'
  OBVIOUS
<1>1. pending \in Seq(Row)
  BY DEF IInv, TypeOK
<1>2. ASSUME NEW batch \in Batches, Receive(batch)
      PROVE  IInv'
  <2>1. pending \o batch \in Seq(Row)
    BY <1>1, <1>2, BatchType, ConcatProperties
  <2>2. CASE FlushPending(pending \o batch)
    BY <2>1, <2>2, FlushInv
  <2>3. CASE pending' = pending \o batch /\ UNCHANGED store
    BY <2>1, <2>3
       DEF IInv, store, TypeOK, Aligned, SortedContract, MaxEndCovers, HorizonExact
  <2>4. QED  BY <1>2, <2>2, <2>3 DEF Receive
<1>3. CASE Flush
  BY <1>1, <1>3, FlushInv DEF Flush
<1>4. CASE UNCHANGED vars
  BY <1>4 DEF vars, IInv, TypeOK, Aligned, SortedContract, MaxEndCovers, HorizonExact
<1>5. QED  BY <1>2, <1>3, <1>4 DEF Next

\* Every reachable state satisfies the inductive invariant.
LEMMA Invariance == Spec => []IInv
BY InitInv, NextInv, PTL DEF Spec

-----------------------------------------------------------------------------
\* Type correctness for every value of the constants.
THEOREM TypeCorrect == Spec => []TypeOK
<1>1. IInv => TypeOK
  BY DEF IInv
<1>2. QED  BY <1>1, Invariance, PTL

\* The mirror of the start column never drifts from the frame (flush_pending).
THEOREM MirrorAligned == Spec => []Aligned
<1>1. IInv => Aligned
  BY DEF IInv
<1>2. QED  BY <1>1, Invariance, PTL

\* The `sorted` flag never promises what the rows do not keep.
THEOREM SortedIsHonest == Spec => []SortedContract
<1>1. IInv => SortedContract
  BY DEF IInv
<1>2. QED  BY <1>1, Invariance, PTL

\* The published horizon is the oldest retained start, sorted or not.
THEOREM HorizonIsExact == Spec => []HorizonExact
<1>1. IInv => HorizonExact
  BY DEF IInv
<1>2. QED  BY <1>1, Invariance, PTL

-----------------------------------------------------------------------------
(* The binary searches. *)

\* The search always has somewhere to stop.
LEMMA CutExists ==
  ASSUME TypeOK, NEW t \in Int
  PROVE  CountBefore(t) \in 0..Len(starts) /\ IsCut(CountBefore(t), t)
<1> DEFINE K == {k \in 0..Len(starts) : k = Len(starts) \/ starts[k + 1] >= t}
<1>1. Len(starts) \in Nat /\ \A i \in 1..Len(starts) : starts[i] \in Nat
  BY TimelineAssumption, ElementOfSeq, LenProperties DEF TypeOK
<1>2. K \in SUBSET Nat /\ Len(starts) \in K
  BY <1>1
<1>3. PICK k \in K : \A j \in K : k <= j
  BY <1>2, LeastOf
<1>4. k \in 0..Len(starts)
  OBVIOUS
<1>5. ASSUME k > 0 PROVE starts[k] < t
  <2>1. k - 1 \notin K /\ k - 1 \in 0..Len(starts)
    <3>1. ~(k <= k - 1) /\ k - 1 \in 0..Len(starts)
      BY <1>1, <1>4, <1>5
    <3> HIDE DEF K
    <3>2. QED  BY <1>3, <3>1
  <2>2. ~(starts[k] >= t)
    <3>1. (k - 1) + 1 = k
      BY <1>4
    <3>2. QED  BY <2>1, <3>1
  <2>3. k \in 1..Len(starts)
    BY <1>1, <1>4, <1>5
  <2>4. QED  BY <2>2, <2>3, <1>1
<1>6. ASSUME k < Len(starts) PROVE starts[k + 1] >= t
  BY <1>1, <1>3, <1>4, <1>6
<1>7. IsCut(k, t)
  BY <1>5, <1>6 DEF IsCut
<1>8. QED  BY <1>4, <1>7 DEF CountBefore

\* In a sorted frame the local stopping condition is global.
LEMMA CutSplits ==
  ASSUME IInv, sorted, NEW t \in Int, NEW i \in 1..Len(df)
  PROVE  /\ i <= CountBefore(t) <=> df[i].start < t
         /\ CountBefore(t) \in 0..Len(df)
<1> DEFINE k == CountBefore(t)
<1>1. /\ Len(starts) = Len(df) /\ Len(df) \in Nat
      /\ \A j \in 1..Len(df) : starts[j] = df[j].start
  BY LenProperties DEF IInv, TypeOK, Aligned
<1>2. \A j \in 1..Len(df) : /\ df[j] \in Row /\ df[j].start \in Nat
                            /\ EndOf(df[j]) \in Nat /\ df[j].start <= EndOf(df[j])
  BY RowType, ElementOfSeq DEF IInv, TypeOK
<1>3. ASSUME NEW a \in 1..Len(df), NEW b \in 1..Len(df), a <= b
      PROVE  df[a].start <= df[b].start
  <2>1. CASE a = b
    BY <2>1, <1>2
  <2>2. CASE a < b
    <3>1. EndOf(df[a]) <= df[b].start
      BY <2>2, <1>3 DEF IInv, SortedContract
    <3>2. QED  BY <3>1, <1>2
  <2>3. QED  BY <2>1, <2>2, <1>3
<1>4. k \in 0..Len(df) /\ IsCut(k, t)
  BY <1>1, CutExists DEF IInv
<1> HIDE DEF k
<1>5. CASE i <= k
  <2>1. k \in 1..Len(df) /\ starts[k] < t
    BY <1>1, <1>4, <1>5 DEF IsCut
  <2>2. df[k].start < t
    BY <2>1, <1>1
  <2>3. df[i].start <= df[k].start
    BY <2>1, <1>3, <1>5
  <2>4. df[i].start < t
    BY <2>1, <2>2, <2>3, <1>2
  <2>5. QED  BY <2>4, <1>4, <1>5 DEF k
<1>6. CASE ~(i <= k)
  <2>1. k < Len(starts) /\ k + 1 \in 1..Len(df) /\ k + 1 <= i
    BY <1>1, <1>4, <1>6
  <2>2. df[k + 1].start >= t
    BY <2>1, <1>1, <1>4 DEF IsCut
  <2>3. df[k + 1].start <= df[i].start
    BY <2>1, <1>3
  <2>4. ~(df[i].start < t)
    BY <2>1, <2>2, <2>3, <1>2
  <2>5. QED  BY <2>4, <1>4, <1>6 DEF k
<1>7. QED  BY <1>5, <1>6

\* A binary-searched tail range is exactly the rows past the frontier.
LEMMA TailRangeHolds ==
  ASSUME IInv, sorted, NEW from \in Nat, NEW t1 \in Nat, NEW i \in 1..Len(df)
  PROVE  IsTail(df[i], from, t1) <=> CountUpTo(from) < i /\ i <= CountBefore(t1)
<1>1. t1 \in Int /\ from + 1 \in Int
  OBVIOUS
<1>2. df[i].start \in Nat
  BY RowType, ElementOfSeq DEF IInv, TypeOK
<1>3. Len(df) \in Nat
  BY LenProperties DEF IInv, TypeOK
<1>4. i <= CountBefore(t1) <=> df[i].start < t1
  BY <1>1, CutSplits
<1>5. /\ i <= CountBefore(from + 1) <=> df[i].start < from + 1
      /\ CountBefore(from + 1) \in 0..Len(df)
  BY <1>1, CutSplits
<1>6. CountUpTo(from) < i <=> from < df[i].start
  BY <1>1, <1>2, <1>3, <1>5 DEF CountUpTo
<1>7. QED  BY <1>4, <1>6 DEF IsTail

\* A binary-searched window range holds what overlaps, its first row apart.
LEMMA WindowRangeHolds ==
  ASSUME IInv, sorted, NEW t0 \in Nat, NEW t1 \in Nat, NEW i \in 1..Len(df)
  PROVE  /\ Overlaps(df[i], t0, t1) => WindowLo(t0, t1) < i /\ i <= WindowHi(t1)
         /\ WindowLo(t0, t1) + 1 < i /\ i <= WindowHi(t1) => Overlaps(df[i], t0, t1)
<1> DEFINE hi   == CountBefore(t1)
           upTo == CountBefore(t0 + 1)
<1>1. t1 \in Int /\ t0 + 1 \in Int /\ Len(df) \in Nat
  BY LenProperties DEF IInv, TypeOK
<1>2. /\ df[i].start \in Nat /\ EndOf(df[i]) \in Nat /\ df[i].start <= EndOf(df[i])
  BY RowType, ElementOfSeq DEF IInv, TypeOK
<1>3. /\ hi \in 0..Len(df) /\ upTo \in 0..Len(df)
      /\ i <= hi <=> df[i].start < t1
      /\ i <= upTo <=> df[i].start < t0 + 1
  BY <1>1, CutSplits
<1>4. WindowHi(t1) = hi
      /\ WindowLo(t0, t1) = Smaller(AtLeastZero(upTo - 1), hi)
  BY DEF WindowHi, WindowLo, CountUpTo
<1> HIDE DEF hi, upTo
<1>5. ASSUME Overlaps(df[i], t0, t1)
      PROVE  WindowLo(t0, t1) < i /\ i <= WindowHi(t1)
  <2>1. i <= hi /\ EndOf(df[i]) > t0
    BY <1>3, <1>5 DEF Overlaps
  <2>2. i >= upTo
    <3>1. SUFFICES ASSUME i < upTo PROVE FALSE
      BY <1>1, <1>3
    <3>2. upTo \in 1..Len(df) /\ df[upTo].start < t0 + 1
      <4>1. upTo \in 1..Len(df)
        BY <1>1, <1>3, <3>1
      <4>2. upTo <= CountBefore(t0 + 1) <=> df[upTo].start < t0 + 1
        BY <1>1, <4>1, CutSplits
      <4>3. QED  BY <4>1, <4>2, <1>1 DEF upTo
    <3>3. EndOf(df[i]) <= df[upTo].start
      BY <3>1, <3>2 DEF IInv, SortedContract
    <3>4. df[upTo].start \in Nat
      BY <3>2, RowType, ElementOfSeq DEF IInv, TypeOK
    <3>5. QED  BY <1>1, <1>2, <2>1, <3>2, <3>3, <3>4
  <2>3. QED  BY <1>1, <1>3, <1>4, <2>1, <2>2 DEF Smaller, AtLeastZero
<1>6. ASSUME WindowLo(t0, t1) + 1 < i, i <= WindowHi(t1)
      PROVE  Overlaps(df[i], t0, t1)
  <2>1. upTo < i /\ i <= hi
    BY <1>1, <1>3, <1>4, <1>6 DEF Smaller, AtLeastZero
  <2>2. ~(df[i].start < t0 + 1) /\ df[i].start < t1
    BY <1>1, <1>3, <2>1
  <2>3. QED  BY <1>1, <1>2, <2>2 DEF Overlaps
<1>7. QED  BY <1>5, <1>6

\* While `sorted` is up a binary-searched window loses no overlapping row and a
\* binary-searched tail is exactly the rows past the frontier (window_contiguous,
\* tail_frame).
THEOREM RangesAreExact == Spec => []RangesExact
<1>1. IInv => RangesExact
  <2> SUFFICES ASSUME IInv, sorted PROVE WindowRange /\ TailRange
    BY DEF RangesExact
  <2>1. Asked \subseteq Nat
    BY TimelineAssumption
  <2>2. WindowRange
    BY <2>1, WindowRangeHolds DEF WindowRange
  <2>3. TailRange
    BY <2>1, TailRangeHolds DEF TailRange
  <2>4. QED  BY <2>2, <2>3
<1>2. QED  BY <1>1, Invariance, PTL

-----------------------------------------------------------------------------
(* What the queries return. *)

LEMMA RowsTyped ==
  ASSUME IInv, NEW i \in 1..Len(df)
  PROVE  /\ df[i] \in Row /\ df[i].gid \in Gids
         /\ df[i].start \in Nat /\ EndOf(df[i]) \in Nat
         /\ df[i].start <= EndOf(df[i])
         /\ EndOf(df[i]) < I64Max /\ I64Max \in Nat
<1>1. df[i] \in Row
  BY ElementOfSeq DEF IInv, TypeOK
<1>2. df[i].start \in Starts /\ df[i].dur \in Durs /\ df[i].gid \in Gids
  BY <1>1 DEF Row
<1>3. df[i].start + df[i].dur < I64Max /\ I64Max \in Nat
  BY <1>2, TimelineAssumption
<1>4. QED  BY <1>1, <1>2, <1>3, RowType DEF EndOf

\* The k-th place of a set exists and is a place of it.
LEMMA NthPlace ==
  ASSUME NEW places \in SUBSET Int, IsFiniteSet(places), NEW k \in 1..Cardinality(places)
  PROVE  Nth(places, k) \in places /\ Rank(places, Nth(places, k)) = k
<1>1. \E p \in places : Rank(places, p) = k
  BY RankOnto
<1>2. QED  BY <1>1 DEF Rank, Nth

LEMMA PlacesFinite ==
  ASSUME IInv, NEW places \in SUBSET (1..Len(df))
  PROVE  /\ Len(df) \in Nat /\ places \in SUBSET Int
         /\ IsFiniteSet(places) /\ Cardinality(places) \in Nat
<1>1. Len(df) \in Nat
  BY LenProperties DEF IInv, TypeOK
<1>2. IsFiniteSet(1..Len(df))
  BY <1>1, FS_Interval
<1>3. IsFiniteSet(places)
  BY <1>2, FS_Subset
<1>4. QED  BY <1>1, <1>3, FS_CardinalityType

LEMMA RowsAtAre ==
  ASSUME IInv, NEW places \in SUBSET (1..Len(df))
  PROVE  /\ RowsAt(places) \in Seq(Row)
         /\ Len(RowsAt(places)) = Cardinality(places)
         /\ \A k \in 1..Cardinality(places) :
              Nth(places, k) \in places /\ RowsAt(places)[k] = df[Nth(places, k)]
<1>1. /\ Len(df) \in Nat /\ places \in SUBSET Int
      /\ IsFiniteSet(places) /\ Cardinality(places) \in Nat
  BY PlacesFinite
<1>2. \A k \in 1..Cardinality(places) : Nth(places, k) \in places
  BY <1>1, NthPlace
<1>3. \A i \in 1..Len(df) : df[i] \in Row
  BY RowsTyped
<1>4. \A k \in 1..Cardinality(places) : df[Nth(places, k)] \in Row
  BY <1>2, <1>3
<1>5. RowsAt(places) \in [1..Cardinality(places) -> Row]
  BY <1>4 DEF RowsAt
<1>6. RowsAt(places) \in Seq(Row) /\ Len(RowsAt(places)) = Cardinality(places)
  <2> DEFINE r == RowsAt(places)
             n == Cardinality(places)
  <2>1. r \in [1..n -> Row] /\ n \in Nat
    BY <1>1, <1>5
  <2> HIDE DEF r, n
  <2>2. r \in Seq(Row) /\ Len(r) = n
    BY <2>1
  <2>3. QED  BY <2>2 DEF r, n
<1>7. QED  BY <1>2, <1>6 DEF RowsAt

\* A prefix of the rows at some places, flagged when it is not all of them.
CutOff(places, cap) ==
  Reply(SubSeq(RowsAt(places), 1, Smaller(Len(RowsAt(places)), cap)),
        Len(RowsAt(places)) > cap)

LEMMA CutOffIs ==
  ASSUME IInv, NEW places \in SUBSET (1..Len(df)), NEW cap \in Nat
  PROVE  /\ CutOff(places, cap).rows \in Seq(Row)
         /\ Len(CutOff(places, cap).rows) = Smaller(Cardinality(places), cap)
         /\ Smaller(Cardinality(places), cap) \in Nat
         /\ Cardinality(places) \in Nat
         /\ CutOff(places, cap).capped <=> Cardinality(places) > cap
         /\ \A k \in 1..Smaller(Cardinality(places), cap) :
              /\ k \in 1..Cardinality(places)
              /\ CutOff(places, cap).rows[k] = df[Nth(places, k)]
<1> DEFINE r == RowsAt(places)
           n == Cardinality(places)
           m == Smaller(n, cap)
<1>1. n \in Nat
  BY PlacesFinite
<1>2. r \in Seq(Row) /\ Len(r) = n /\ \A k \in 1..n : r[k] = df[Nth(places, k)]
  BY RowsAtAre
<1>3. CutOff(places, cap) = Reply(SubSeq(r, 1, Smaller(Len(r), cap)), Len(r) > cap)
  BY DEF CutOff
<1>4. m \in Nat /\ m <= n
  BY <1>1 DEF Smaller
<1> HIDE DEF r, n
<1>5. SubSeq(r, 1, m) \in Seq(Row) /\ Len(SubSeq(r, 1, m)) = m
      /\ \A k \in 1..m : SubSeq(r, 1, m)[k] = r[k]
  <2>1. \A i \in 1..m : r[i] \in Row
    BY <1>1, <1>2, <1>4, ElementOfSeq
  <2> HIDE DEF m
  <2>2. /\ SubSeq(r, 1, m) \in Seq(Row)
        /\ Len(SubSeq(r, 1, m)) = IF 1 <= m THEN m - 1 + 1 ELSE 0
        /\ \A k \in 1..(m - 1 + 1) : SubSeq(r, 1, m)[k] = r[1 + k - 1]
    BY <1>4, <2>1, SubSeqProperties
  <2>3. QED  BY <1>4, <2>2
<1>6. CutOff(places, cap).rows = SubSeq(r, 1, m) /\ (CutOff(places, cap).capped <=> n > cap)
  <2>1. Len(r) = n
    BY <1>2
  <2>2. CutOff(places, cap) = Reply(SubSeq(r, 1, Smaller(n, cap)), n > cap)
    BY <1>3, <2>1, Zenon
  <2> DEFINE t == SubSeq(r, 1, m)
  <2>3. CutOff(places, cap) = Reply(t, n > cap)
    BY <2>2
  <2> DEFINE c == CutOff(places, cap)
             over == n > cap
  <2>4. c = [rows |-> t, capped |-> over]
    BY <2>3 DEF Reply
  <2> HIDE DEF t, m, c, over
  <2>5. c.rows = t /\ c.capped = over
    BY <2>4
  <2>6. QED  BY <2>5 DEF t, c, over
<1>7. \A k \in 1..m : k \in 1..n /\ SubSeq(r, 1, m)[k] = df[Nth(places, k)]
  BY <1>1, <1>2, <1>4, <1>5
<1>8. /\ CutOff(places, cap).rows \in Seq(Row) /\ Len(CutOff(places, cap).rows) = m
      /\ m \in Nat /\ n \in Nat /\ (CutOff(places, cap).capped <=> n > cap)
      /\ \A k \in 1..m : k \in 1..n /\ CutOff(places, cap).rows[k] = df[Nth(places, k)]
  BY <1>1, <1>4, <1>5, <1>6, <1>7
<1>9. QED  BY <1>8 DEF n

\* Below i64::MAX the clamp changes no comparison.
LEMMA ClampKeeps ==
  ASSUME IInv, NEW i \in 1..Len(df), NEW t0 \in Nat, NEW t1 \in Nat
  PROVE  /\ OverlapsI64(df[i], t0, t1) <=> Overlaps(df[i], t0, t1)
         /\ IsTail(df[i], ToI64(t0), ToI64(t1)) <=> IsTail(df[i], t0, t1)
<1>1. /\ df[i].start \in Nat /\ EndOf(df[i]) \in Nat /\ df[i].start <= EndOf(df[i])
      /\ EndOf(df[i]) < I64Max /\ I64Max \in Nat
  BY RowsTyped
<1>2. QED
  BY <1>1 DEF OverlapsI64, Overlaps, IsTail, ToI64, Smaller

\* The places a window, and a tail, should return.
WindowPlaces(t0, t1) == {i \in 1..Len(df) : Overlaps(df[i], t0, t1)}
TailPlaces(from, t1) == {i \in 1..Len(df) : IsTail(df[i], from, t1)}

LEMMA ScansAre ==
  ASSUME IInv, NEW t0 \in Nat, NEW t1 \in Nat, NEW cap \in Nat
  PROVE  /\ WindowScan(t0, t1, cap) = CutOff(WindowPlaces(t0, t1), cap)
         /\ TailScan(t0, t1, cap) = CutOff(TailPlaces(t0, t1), cap)
<1>1. {i \in 1..Len(df) : OverlapsI64(df[i], t0, t1)} = WindowPlaces(t0, t1)
  BY ClampKeeps DEF WindowPlaces
<1>2. {i \in 1..Len(df) : IsTail(df[i], ToI64(t0), ToI64(t1))} = TailPlaces(t0, t1)
  BY ClampKeeps DEF TailPlaces
<1>3. WindowScan(t0, t1, cap) = CutOff({i \in 1..Len(df) : OverlapsI64(df[i], t0, t1)}, cap)
  BY DEF WindowScan, Scan, CutOff
<1>4. TailScan(t0, t1, cap) = CutOff({i \in 1..Len(df) : IsTail(df[i], ToI64(t0), ToI64(t1))}, cap)
  BY DEF TailScan, Scan, CutOff
<1>5. QED  BY <1>1, <1>2, <1>3, <1>4

\* A slice within the frame.
LEMMA SliceIs ==
  ASSUME IInv, NEW offset \in Nat, NEW n \in Nat, offset + n <= Len(df)
  PROVE  /\ Slice(offset, n) \in Seq(Row) /\ Len(Slice(offset, n)) = n
         /\ \A k \in 1..n : /\ offset + k \in 1..Len(df)
                            /\ Slice(offset, n)[k] = df[offset + k]
<1>1. Len(df) \in Nat
  BY LenProperties DEF IInv, TypeOK
<1>2. \A k \in 1..Len(df) : df[k] \in Row
  BY RowsTyped
<1>3. \A k \in (offset + 1)..(offset + n) : df[k] \in Row
  BY <1>1, <1>2
<1>4. offset + 1 \in Int /\ offset + n \in Int
  OBVIOUS
<1> DEFINE r == SubSeq(df, offset + 1, offset + n)
<1>5. /\ r \in Seq(Row)
      /\ Len(r) = IF offset + 1 <= offset + n THEN offset + n - (offset + 1) + 1 ELSE 0
      /\ \A k \in 1..(offset + n - (offset + 1) + 1) : r[k] = df[offset + 1 + k - 1]
  BY ONLY <1>3, <1>4, SubSeqProperties
<1>6. Slice(offset, n) = r
  BY DEF Slice
<1> HIDE DEF r
<1>7. \A k \in 1..n : offset + 1 + k - 1 = offset + k /\ offset + k \in 1..Len(df)
  BY <1>1
<1>8. QED  BY <1>5, <1>6, <1>7

\* How much of a sorted frame a window, and a tail, take.
LEMMA SortedCounts ==
  ASSUME IInv, sorted, NEW t0 \in Nat, NEW t1 \in Nat
  PROVE  /\ WindowLo(t0, t1) \in 0..WindowHi(t1) /\ WindowHi(t1) \in 0..Len(df)
         /\ Cardinality(WindowPlaces(t0, t1)) <= WindowHi(t1) - WindowLo(t0, t1)
         /\ WindowHi(t1) - WindowLo(t0, t1) <= Cardinality(WindowPlaces(t0, t1)) + 1
         /\ CountUpTo(t0) \in 0..Len(df) /\ CountBefore(t1) \in 0..Len(df)
         /\ Cardinality(TailPlaces(t0, t1)) = AtLeastZero(CountBefore(t1) - CountUpTo(t0))
<1> DEFINE lo == WindowLo(t0, t1)
           hi == WindowHi(t1)
           wp == WindowPlaces(t0, t1)
           tp == TailPlaces(t0, t1)
           begin == CountUpTo(t0)
           end == CountBefore(t1)
<1>1. Len(df) \in Nat /\ Len(starts) = Len(df) /\ t0 + 1 \in Int /\ t1 \in Int
  BY LenProperties DEF IInv, TypeOK, Aligned
<1>2. end \in 0..Len(df)
  BY <1>1, CutExists DEF IInv
<1>3. begin \in 0..Len(df)
  <2>1. CountBefore(t0 + 1) \in 0..Len(starts)
    BY <1>1, CutExists DEF IInv
  <2>2. QED  BY <1>1, <2>1 DEF CountUpTo
<1>4. hi \in 0..Len(df)
  BY <1>2 DEF WindowHi
<1>5. lo \in 0..hi
  <2>1. lo = Smaller(AtLeastZero(begin - 1), hi)
    BY DEF WindowLo
  <2> HIDE DEF lo, hi, begin
  <2>2. QED  BY <1>1, <1>3, <1>4, <2>1 DEF Smaller, AtLeastZero
<1>6. \A i \in 1..Len(df) :
         /\ Overlaps(df[i], t0, t1) => lo < i /\ i <= hi
         /\ lo + 1 < i /\ i <= hi => Overlaps(df[i], t0, t1)
  BY WindowRangeHolds
<1>7. \A i \in 1..Len(df) : IsTail(df[i], t0, t1) <=> begin < i /\ i <= end
  BY TailRangeHolds
<1>8. wp \in SUBSET (1..Len(df)) /\ tp \in SUBSET (1..Len(df))
  BY DEF WindowPlaces, TailPlaces
<1>9. \A i \in 1..Len(df) : i \in wp <=> Overlaps(df[i], t0, t1)
  BY DEF WindowPlaces
<1>10. \A i \in 1..Len(df) : i \in tp <=> IsTail(df[i], t0, t1)
  BY DEF TailPlaces
<1> HIDE DEF lo, hi, wp, tp, begin, end
<1>11. Cardinality(wp) \in Nat /\ IsFiniteSet(wp)
  BY <1>8, PlacesFinite
<1>12. Cardinality(wp) <= hi - lo
  <2>1. wp \in SUBSET ((lo + 1)..hi)
    <3>1. \A i \in wp : i \in 1..Len(df) /\ lo < i /\ i <= hi
      <4>1. \A i \in wp : i \in 1..Len(df)
        BY <1>8
      <4>2. \A i \in wp : Overlaps(df[i], t0, t1)
        BY <1>9, <4>1
      <4>3. QED  BY <1>6, <4>1, <4>2
    <3>2. \A i \in wp : i \in (lo + 1)..hi
      BY <1>1, <1>4, <1>5, <3>1
    <3>3. QED  BY <3>2
  <2>2. /\ IsFiniteSet((lo + 1)..hi)
        /\ Cardinality((lo + 1)..hi) = IF lo + 1 > hi THEN 0 ELSE hi - (lo + 1) + 1
    BY <1>4, <1>5, FS_Interval
  <2>3. Cardinality(wp) <= Cardinality((lo + 1)..hi)
    BY <2>1, <2>2, FS_Subset
  <2>4. QED  BY <1>1, <1>4, <1>5, <1>11, <2>2, <2>3
<1>13. hi - lo <= Cardinality(wp) + 1
  <2>1. (lo + 2)..hi \in SUBSET wp
    <3>1. \A i \in (lo + 2)..hi : i \in 1..Len(df) /\ lo + 1 < i /\ i <= hi
      BY <1>1, <1>4, <1>5
    <3>2. \A i \in (lo + 2)..hi : i \in wp
      <4>1. \A i \in (lo + 2)..hi : Overlaps(df[i], t0, t1)
        BY <1>6, <3>1
      <4>2. QED  BY <1>9, <3>1, <4>1
    <3>3. QED  BY <3>2
  <2>2. /\ IsFiniteSet((lo + 2)..hi)
        /\ Cardinality((lo + 2)..hi) = IF lo + 2 > hi THEN 0 ELSE hi - (lo + 2) + 1
    BY <1>4, <1>5, FS_Interval
  <2>3. Cardinality((lo + 2)..hi) <= Cardinality(wp)
    BY <1>11, <2>1, FS_Subset
  <2>4. QED  BY <1>1, <1>4, <1>5, <1>11, <2>2, <2>3
<1>14. Cardinality(tp) = AtLeastZero(end - begin)
  <2>1. tp = (begin + 1)..end
    <3>1. \A i \in tp : i \in (begin + 1)..end
      BY <1>1, <1>2, <1>3, <1>7, <1>8, <1>10
    <3>2. \A i \in (begin + 1)..end : i \in 1..Len(df) /\ begin < i /\ i <= end
      BY <1>1, <1>2, <1>3
    <3>3. \A i \in (begin + 1)..end : i \in tp
      BY <1>7, <1>10, <3>2
    <3>4. QED  BY <3>1, <3>3
  <2>2. Cardinality((begin + 1)..end) = IF begin + 1 > end THEN 0 ELSE end - (begin + 1) + 1
    BY <1>1, <1>2, <1>3, FS_Interval
  <2>3. QED  BY <1>1, <1>2, <1>3, <2>1, <2>2 DEF AtLeastZero
<1>15. QED
  BY <1>2, <1>3, <1>4, <1>5, <1>12, <1>13, <1>14 DEF lo, hi, wp, tp, begin, end

LEMMA WindowHonest ==
  ASSUME IInv, NEW t0 \in Nat, NEW t1 \in Nat, NEW cap \in Nat
  PROVE  LET w  == Window(t0, t1, cap)
             wn == Cardinality(WindowPlaces(t0, t1))
         IN  /\ Len(w.rows) <= cap
             /\ wn > cap => w.capped
             /\ w.capped => wn + (IF sorted THEN 1 ELSE 0) > cap
             /\ ~w.capped => Len(w.rows) - wn \in {0, IF sorted THEN 1 ELSE 0}
<1> DEFINE wp == WindowPlaces(t0, t1)
           wn == Cardinality(wp)
           w == Window(t0, t1, cap)
<1>2. wp \in SUBSET (1..Len(df))
  BY DEF WindowPlaces
<1>3. CASE sorted
  <2> DEFINE lo == WindowLo(t0, t1)
             hi == WindowHi(t1)
             n == hi - lo
             mid == lo + (n - cap) \div 2
  <2>1. /\ lo \in 0..hi /\ hi \in 0..Len(df) /\ wn <= hi - lo /\ hi - lo <= wn + 1
        /\ Len(df) \in Nat /\ wn \in Nat
    BY <1>2, <1>3, SortedCounts, PlacesFinite
  <2>2. w = IF n > cap THEN Reply(Slice(mid, cap), TRUE) ELSE Reply(Slice(lo, n), FALSE)
    BY <1>3 DEF Window, WindowContiguous
  <2> HIDE DEF lo, hi, w, wn
  <2>3. CASE n > cap
    <3>1. mid \in Nat /\ mid + cap <= Len(df)
      <4>1. (n - cap) \div 2 \in Nat /\ (n - cap) \div 2 <= n - cap
        BY <2>1, <2>3
      <4>2. QED  BY <2>1, <2>3, <4>1
    <3> HIDE DEF mid
    <3>2. Len(Slice(mid, cap)) = cap
      BY <3>1, SliceIs
    <3>3. w = [rows |-> Slice(mid, cap), capped |-> TRUE]
      BY <2>2, <2>3 DEF Reply
    <3>4. Len(w.rows) = cap /\ w.capped /\ wn + 1 > cap
      BY <2>1, <2>3, <3>2, <3>3
    <3>5. QED  BY <1>3, <3>4 DEF w, wn
  <2>4. CASE ~(n > cap)
    <3>1. n \in Nat /\ lo \in Nat /\ lo + n <= Len(df)
      BY <2>1
    <3>2. Len(Slice(lo, n)) = n
      BY <3>1, SliceIs
    <3>3. w = [rows |-> Slice(lo, n), capped |-> FALSE]
      BY <2>2, <2>4 DEF Reply
    <3>4. Len(w.rows) = n /\ ~w.capped
      BY <3>2, <3>3
    <3>5. Len(w.rows) <= cap /\ ~(wn > cap) /\ Len(w.rows) - wn \in {0, 1}
      BY <2>1, <2>4, <3>1, <3>4
    <3>6. QED  BY <1>3, <3>4, <3>5 DEF w, wn
  <2>5. QED  BY <2>3, <2>4
<1>4. CASE ~sorted
  <2>1. w = CutOff(wp, cap)
    BY <1>4, ScansAre DEF Window
  <2>2. /\ Len(CutOff(wp, cap).rows) = Smaller(wn, cap) /\ wn \in Nat
        /\ CutOff(wp, cap).capped <=> wn > cap
    BY <1>2, CutOffIs
  <2> HIDE DEF w, wn, wp
  <2>3. Len(w.rows) = Smaller(wn, cap) /\ (w.capped <=> wn > cap)
    BY <2>1, <2>2
  <2>4. /\ Len(w.rows) <= cap /\ (~w.capped => Len(w.rows) - wn \in {0})
    BY <2>2, <2>3 DEF Smaller
  <2>5. w.capped => wn + 0 > cap
    BY <2>2, <2>3
  <2>6. QED  BY <1>4, <2>3, <2>4, <2>5 DEF w, wn, wp
<1>5. QED  BY <1>3, <1>4

LEMMA TailHonest ==
  ASSUME IInv, NEW from \in Nat, NEW t1 \in Nat, NEW cap \in Nat
  PROVE  LET t  == TailFrame(from, t1, cap)
             tn == Cardinality(TailPlaces(from, t1))
         IN  /\ Len(t.rows) <= cap
             /\ t.capped <=> tn > cap
             /\ ~t.capped => Len(t.rows) = tn
<1> DEFINE tp == TailPlaces(from, t1)
           tn == Cardinality(tp)
           t == TailFrame(from, t1, cap)
<1>2. tp \in SUBSET (1..Len(df)) /\ tn \in Nat
  <2>1. tp \in SUBSET (1..Len(df))
    BY DEF TailPlaces
  <2>2. QED  BY <2>1, PlacesFinite
<1>3. Len(t.rows) = Smaller(tn, cap) /\ (t.capped <=> tn > cap)
  <2>1. CASE sorted
    <3> DEFINE begin == CountUpTo(from)
               end == CountBefore(t1)
               n == AtLeastZero(end - begin)
    <3>1. begin \in 0..Len(df) /\ end \in 0..Len(df) /\ tn = n /\ Len(df) \in Nat
      BY <1>2, <2>1, SortedCounts, PlacesFinite
    <3>2. t = Reply(Slice(begin, Smaller(n, cap)), n > cap)
      BY <2>1 DEF TailFrame, TailContiguous
    <3>3. begin + n <= Len(df) \/ n = 0
      BY <3>1 DEF AtLeastZero
    <3> HIDE DEF begin, end, n, t, tn
    <3>4. Smaller(n, cap) \in Nat /\ begin \in Nat /\ begin + Smaller(n, cap) <= Len(df)
      BY <1>2, <3>1, <3>3 DEF Smaller
    <3>5. Len(Slice(begin, Smaller(n, cap))) = Smaller(n, cap)
      BY <3>4, SliceIs
    <3>6. t = [rows |-> Slice(begin, Smaller(n, cap)), capped |-> n > cap]
      BY <3>2 DEF Reply
    <3>7. Len(t.rows) = Smaller(n, cap) /\ (t.capped <=> n > cap)
      BY <3>5, <3>6
    <3>8. QED  BY <3>1, <3>7 DEF t, tn
  <2>2. CASE ~sorted
    <3>1. t = CutOff(tp, cap)
      BY <2>2, ScansAre DEF TailFrame
    <3>2. Len(CutOff(tp, cap).rows) = Smaller(tn, cap) /\ (CutOff(tp, cap).capped <=> tn > cap)
      BY <1>2, CutOffIs
    <3> HIDE DEF t, tn, tp
    <3>3. QED  BY <3>1, <3>2
  <2>3. QED  BY <2>1, <2>2
<1> HIDE DEF t, tn, tp
<1>4. Len(t.rows) <= cap /\ (~t.capped => Len(t.rows) = tn)
  BY <1>2, <1>3 DEF Smaller
<1>5. QED  BY <1>3, <1>4 DEF t, tn, tp

\* No query passes a truncated answer off as a complete one, on either of its
\* two paths and for any instants a viewer may ask about (window, tail_frame).
THEOREM TruncationIsHonest == Spec => []TruncationHonest
<1>1. IInv => TruncationHonest
  <2> SUFFICES ASSUME IInv, NEW t0 \in Asked, NEW t1 \in Asked, NEW cap \in Caps
               PROVE  LET w  == Window(t0, t1, cap)
                          wn == Cardinality(WindowPlaces(t0, t1))
                          t  == TailFrame(t0, t1, cap)
                          tn == Cardinality(TailPlaces(t0, t1))
                      IN  /\ Len(w.rows) <= cap /\ Len(t.rows) <= cap
                          /\ wn > cap => w.capped
                          /\ w.capped => wn + (IF sorted THEN 1 ELSE 0) > cap
                          /\ ~w.capped => Len(w.rows) - wn \in {0, IF sorted THEN 1 ELSE 0}
                          /\ t.capped <=> tn > cap
                          /\ ~t.capped => Len(t.rows) = tn
    BY DEF TruncationHonest, Matching, WindowPlaces, TailPlaces
  <2>1. t0 \in Nat /\ t1 \in Nat /\ cap \in Nat
    BY TimelineAssumption
  <2>2. QED  BY <2>1, WindowHonest, TailHonest
<1>2. QED  BY <1>1, Invariance, PTL

\* On either path the candidates are the rows of the greenlet that start between
\* the two bounds.
LEMMA CandidatesInRange ==
  ASSUME IInv, NEW gid, NEW at, NEW dur, DetailLo(at, dur) \in Int, DetailHi(at, dur) \in Int
  PROVE  DetailCandidates(gid, at, dur) =
           {i \in 1..Len(df) : /\ df[i].gid = gid
                               /\ DetailLo(at, dur) <= df[i].start /\ df[i].start <= DetailHi(at, dur)}
<1> DEFINE lo == DetailLo(at, dur)
           hi == DetailHi(at, dur)
           c == DetailCandidates(gid, at, dur)
           inside == {i \in 1..Len(df) : df[i].gid = gid /\ lo <= df[i].start /\ df[i].start <= hi}
<1>1. lo \in Int /\ hi \in Int /\ Len(df) \in Nat
  BY LenProperties DEF IInv, TypeOK
<1>2. \A i \in 1..Len(df) : df[i].start \in Nat
  BY RowsTyped
<1>3. CASE sorted
  <2>1. c = {i \in (CountBefore(lo) + 1)..CountUpTo(hi) : df[i].gid = gid}
    BY <1>3 DEF DetailCandidates
  <2>2. CountUpTo(hi) = CountBefore(hi + 1) /\ hi + 1 \in Int
    BY <1>1 DEF CountUpTo
  <2> HIDE DEF lo, hi, c
  <2>3. \A i \in 1..Len(df) :
          /\ i <= CountBefore(lo) <=> df[i].start < lo
          /\ i <= CountBefore(hi + 1) <=> df[i].start < hi + 1
          /\ CountBefore(lo) \in 0..Len(df) /\ CountBefore(hi + 1) \in 0..Len(df)
    BY <1>1, <1>3, <2>2, CutSplits
  <2>4. CountBefore(lo) \in 0..Len(df) /\ CountBefore(hi + 1) \in 0..Len(df)
    BY <1>1, <2>2, CutExists DEF IInv, Aligned
  <2>5. ASSUME NEW i PROVE i \in c <=> i \in inside
    <3>1. i \in c <=> i \in (CountBefore(lo) + 1)..CountBefore(hi + 1) /\ df[i].gid = gid
      BY <2>1, <2>2
    <3>2. i \in (CountBefore(lo) + 1)..CountBefore(hi + 1) <=>
            i \in 1..Len(df) /\ ~(i <= CountBefore(lo)) /\ i <= CountBefore(hi + 1)
      BY <1>1, <2>4
    <3>3. i \in 1..Len(df) =>
            ((~(i <= CountBefore(lo)) /\ i <= CountBefore(hi + 1)) <=>
               (lo <= df[i].start /\ df[i].start <= hi))
      BY <1>1, <1>2, <2>3
    <3>4. QED  BY <3>1, <3>2, <3>3
  <2>6. QED  BY <2>5 DEF c, lo, hi
<1>4. CASE ~sorted
  BY <1>4 DEF DetailCandidates, IsNear
<1>5. QED  BY <1>3, <1>4

\* The bounds of a lookup are i64 values. A length below 2^63 takes in the starts
\* within the larger of it and the tolerance, saturated or not; a greater one, none.
LEMMA DetailBounds ==
  ASSUME NEW at \in Asked, NEW dur \in Asked
  PROVE  /\ at \in Nat /\ dur \in Nat /\ Tolerance \in Nat /\ I64Max \in Nat
         /\ DetailLo(at, dur) \in Int /\ DetailHi(at, dur) \in Int
         /\ at <= I64Max => AsI64(at) = at
         /\ at <= I64Max /\ dur <= I64Max =>
              \A n \in Nat : n < I64Max =>
                (DetailLo(at, dur) <= n /\ n <= DetailHi(at, dur) <=>
                   Distance(n, at) <= Larger(dur, Tolerance))
         /\ dur > I64Max => \A n \in Nat : ~(DetailLo(at, dur) <= n /\ n <= DetailHi(at, dur))
<1>1. /\ at \in Nat /\ dur \in Nat /\ Tolerance \in Nat /\ I64Max \in Nat /\ Tolerance <= I64Max
      /\ at <= 2 * I64Max + 1 /\ dur <= 2 * I64Max + 1
  BY TimelineAssumption
<1> DEFINE t == AsI64(at)
           r == Radius(dur)
<1>2. /\ t \in Int /\ -(I64Max + 1) <= t /\ t <= I64Max
      /\ at <= I64Max => t = at
  BY <1>1 DEF AsI64
<1>3. Larger(dur, Tolerance) \in Nat /\ Larger(dur, Tolerance) <= 2 * I64Max + 1
  BY <1>1 DEF Larger
<1>4. /\ r \in Int
      /\ dur <= I64Max => r = Larger(dur, Tolerance) /\ r >= 0
      /\ dur > I64Max => r < 0
  <2>1. dur <= I64Max => Larger(dur, Tolerance) <= I64Max
    BY <1>1 DEF Larger
  <2>2. dur > I64Max => Larger(dur, Tolerance) > I64Max
    BY <1>1 DEF Larger
  <2>3. r = IF Larger(dur, Tolerance) > I64Max THEN Larger(dur, Tolerance) - 2 * (I64Max + 1)
                                               ELSE Larger(dur, Tolerance)
    BY DEF Radius, AsI64
  <2>4. QED  BY <1>1, <1>3, <2>1, <2>2, <2>3
<1>5. DetailLo(at, dur) = Saturated(t - r) /\ DetailHi(at, dur) = Saturated(t + r)
  BY DEF DetailLo, DetailHi
<1> HIDE DEF t, r
<1>6. \A n \in Int : /\ Saturated(n) \in Int
                     /\ Saturated(n) = IF n > I64Max THEN I64Max
                                       ELSE IF n < -(I64Max + 1) THEN -(I64Max + 1) ELSE n
  BY <1>1 DEF Saturated
<1>7. t - r \in Int /\ t + r \in Int
  BY <1>2, <1>4
<1>8. DetailLo(at, dur) \in Int /\ DetailHi(at, dur) \in Int
  BY <1>5, <1>6, <1>7
<1>9. ASSUME at <= I64Max, dur <= I64Max, NEW n \in Nat, n < I64Max
      PROVE  DetailLo(at, dur) <= n /\ n <= DetailHi(at, dur) <=>
               Distance(n, at) <= Larger(dur, Tolerance)
  <2>1. DetailLo(at, dur) <= n <=> t - r <= n
    BY <1>1, <1>2, <1>4, <1>5, <1>6, <1>7, <1>9
  <2>2. n <= DetailHi(at, dur) <=> n <= t + r
    BY <1>1, <1>2, <1>4, <1>5, <1>6, <1>7, <1>9
  <2>3. Distance(n, at) <= r <=> t - r <= n /\ n <= t + r
    BY <1>1, <1>2, <1>4, <1>9 DEF Distance
  <2>4. QED  BY <1>4, <1>9, <2>1, <2>2, <2>3
<1>10. ASSUME dur > I64Max, NEW n \in Nat
       PROVE  ~(DetailLo(at, dur) <= n /\ n <= DetailHi(at, dur))
  <2>1. DetailHi(at, dur) < DetailLo(at, dur)
    BY <1>1, <1>2, <1>4, <1>5, <1>6, <1>7, <1>10
  <2>2. QED  BY <1>8, <2>1
<1>11. QED  BY <1>1, <1>2, <1>8, <1>9, <1>10 DEF t

\* The places the answer is chosen among are those the viewer means.
LEMMA CandidatesMeant ==
  ASSUME IInv, NEW gid \in Gids, NEW at \in Asked, NEW dur \in Asked, at <= I64Max, dur <= I64Max
  PROVE  DetailCandidates(gid, at, dur) =
           {i \in 1..Len(df) : df[i].gid = gid /\ Distance(df[i].start, at) <= Larger(dur, Tolerance)}
<1>1. \A i \in 1..Len(df) : df[i].start \in Nat /\ df[i].start < I64Max
  BY RowsTyped
<1>2. \A i \in 1..Len(df) :
        DetailLo(at, dur) <= df[i].start /\ df[i].start <= DetailHi(at, dur) <=>
          Distance(df[i].start, at) <= Larger(dur, Tolerance)
  BY <1>1, DetailBounds
<1>3. DetailLo(at, dur) \in Int /\ DetailHi(at, dur) \in Int
  BY DetailBounds
<1>4. QED  BY <1>2, <1>3, CandidatesInRange

\* A viewer that asks about a row with a rounded start gets the nearest row of
\* that greenlet, on either path, and an answer whenever a row is near; a length
\* past 2^63 gets none (detail).
THEOREM DetailFinds == Spec => []DetailFindsRow
<1>1. IInv => DetailFindsRow
  <2> SUFFICES ASSUME IInv, NEW gid \in Gids, NEW at \in Asked, NEW dur \in Asked
               PROVE  LET found == Detail(gid, at, dur)
                          Far(i) == Distance(df[i].start, at)
                          near == {i \in 1..Len(df) : df[i].gid = gid
                                                      /\ Far(i) <= Larger(dur, Tolerance)}
                      IN  /\ at <= I64Max /\ dur <= I64Max =>
                               /\ near # {} => found # {}
                               /\ \A row \in found :
                                    \E i \in near : /\ row = df[i]
                                                    /\ \A j \in near : Far(i) <= Far(j)
                          /\ dur > I64Max => found = {}
    BY DEF DetailFindsRow
  <2> DEFINE c == DetailCandidates(gid, at, dur)
             d(k) == Distance(df[k].start, AsI64(at))
             far(k) == Distance(df[k].start, at)
             near == {i \in 1..Len(df) : df[i].gid = gid /\ far(i) <= Larger(dur, Tolerance)}
             best == {k \in c : \A j \in c : d(k) <= d(j) /\ (j < k => d(k) < d(j))}
             found == Detail(gid, at, dur)
  <2>1. found = {df[k] : k \in best}
    BY DEF Detail
  <2>2. CASE dur > I64Max
    <3>1. DetailLo(at, dur) \in Int /\ DetailHi(at, dur) \in Int
      BY DetailBounds
    <3>2. \A i \in 1..Len(df) : ~(DetailLo(at, dur) <= df[i].start /\ df[i].start <= DetailHi(at, dur))
      BY <2>2, RowsTyped, DetailBounds
    <3>3. c = {}
      BY <3>1, <3>2, CandidatesInRange
    <3> HIDE DEF c, d
    <3>4. found = {}
      BY <2>1, <3>3
    <3>5. dur \in Nat /\ I64Max \in Nat
      BY DetailBounds
    <3>6. QED  BY <2>2, <3>4, <3>5
  <2>3. CASE at <= I64Max /\ dur <= I64Max
    <3>1. c = near
      BY <2>3, CandidatesMeant
    <3>2. AsI64(at) = at /\ at \in Nat /\ dur \in Nat /\ I64Max \in Nat
      BY <2>3, DetailBounds
    <3>3. \A k : d(k) = far(k)
      BY <3>2
    <3>4. \A k \in near : k \in Nat /\ d(k) \in Nat
      <4>1. \A k \in near : k \in Nat /\ k \in 1..Len(df)
        OBVIOUS
      <4>2. \A k \in near : df[k].start \in Nat
        BY <4>1, RowsTyped
      <4>3. QED  BY <3>2, <4>1, <4>2 DEF Distance
    <3> HIDE DEF c, d, far, near
    <3>5. ASSUME near # {} PROVE best # {}
      <4> DEFINE ds == {d(k) : k \in near}
      <4>1. ds \in SUBSET Nat /\ ds # {}
        BY <3>4, <3>5
      <4> HIDE DEF ds
      <4>2. PICK m \in ds : \A e \in ds : m <= e
        BY <4>1, LeastOf
      <4> DEFINE closest == {k \in near : d(k) = m}
      <4>3. closest \in SUBSET Nat /\ closest # {}
        BY <3>4, <4>2 DEF ds
      <4> HIDE DEF closest
      <4>4. PICK first \in closest : \A k \in closest : first <= k
        BY <4>3, LeastOf
      <4>5. first \in near /\ d(first) = m
        BY <4>4 DEF closest
      <4>6. ASSUME NEW j \in near PROVE d(first) <= d(j) /\ (j < first => d(first) < d(j))
        <5>1. m <= d(j) /\ m \in Nat /\ d(j) \in Nat /\ j \in Nat /\ first \in Nat
          BY <3>4, <4>1, <4>2, <4>5, <4>6 DEF ds
        <5>2. d(j) = m => first <= j
          BY <4>4, <4>6 DEF closest
        <5>3. QED  BY <4>5, <5>1, <5>2
      <4>7. QED  BY <3>1, <4>5, <4>6
    <3>6. ASSUME NEW k \in best PROVE k \in near /\ \A j \in near : far(k) <= far(j)
      BY <3>1, <3>3, <3>6
    <3> HIDE DEF best
    <3>7. /\ near # {} => found # {}
          /\ \A row \in found : \E i \in near : row = df[i] /\ \A j \in near : far(i) <= far(j)
      BY <2>1, <3>5, <3>6
    <3>8. QED  BY <2>3, <3>2, <3>7 DEF near, far
  <2>4. CASE ~(at <= I64Max) /\ ~(dur > I64Max)
    BY <2>4
  <2>5. QED
    <3>1. at \in Nat /\ dur \in Nat /\ I64Max \in Nat
      BY DetailBounds
    <3>2. dur > I64Max \/ dur <= I64Max
      BY <3>1
    <3>3. QED  BY <2>2, <2>3, <2>4, <3>1, <3>2
<1>2. QED  BY <1>1, Invariance, PTL

\* In order, a window and a tail are slices of the frame.
LEMMA WindowIsSlice ==
  ASSUME IInv, sorted, NEW t0 \in Nat, NEW t1 \in Nat, NEW cap \in Nat
  PROVE  \E offset, n \in Nat :
           /\ offset + n <= Len(df) /\ n <= cap
           /\ \/ Window(t0, t1, cap) = Reply(Slice(offset, n), TRUE) /\ n = cap
              \/ /\ Window(t0, t1, cap) = Reply(Slice(offset, n), FALSE)
                 /\ offset = WindowLo(t0, t1) /\ offset + n = WindowHi(t1)
<1> DEFINE lo == WindowLo(t0, t1)
           hi == WindowHi(t1)
           n == hi - lo
           mid == lo + (n - cap) \div 2
<1>1. lo \in 0..hi /\ hi \in 0..Len(df) /\ Len(df) \in Nat
  BY SortedCounts, LenProperties DEF IInv, TypeOK
<1>2. Window(t0, t1, cap) = IF n > cap THEN Reply(Slice(mid, cap), TRUE)
                                       ELSE Reply(Slice(lo, n), FALSE)
  BY DEF Window, WindowContiguous
<1> HIDE DEF lo, hi
<1>3. CASE n > cap
  <2>1. (n - cap) \div 2 \in Nat /\ (n - cap) \div 2 <= n - cap
    BY <1>1, <1>3
  <2>2. mid \in Nat /\ mid + cap <= Len(df)
    BY <1>1, <1>3, <2>1
  <2>3. Window(t0, t1, cap) = Reply(Slice(mid, cap), TRUE)
    BY <1>2, <1>3
  <2> HIDE DEF mid, n
  <2>4. cap <= cap
    OBVIOUS
  <2>5. QED  BY <2>2, <2>3, <2>4
<1>4. CASE ~(n > cap)
  <2>1. lo \in Nat /\ n \in Nat /\ n <= cap /\ lo + n = hi /\ hi <= Len(df)
    BY <1>1, <1>4
  <2>2. Window(t0, t1, cap) = Reply(Slice(lo, n), FALSE)
    BY <1>2, <1>4
  <2> HIDE DEF n
  <2>3. QED  BY <2>1, <2>2 DEF lo, hi
<1>5. QED  BY <1>3, <1>4

LEMMA TailIsSlice ==
  ASSUME IInv, sorted, NEW from \in Nat, NEW t1 \in Nat, NEW cap \in Nat
  PROVE  \E offset, n \in Nat, flag \in BOOLEAN :
           /\ offset + n <= Len(df)
           /\ TailFrame(from, t1, cap) = Reply(Slice(offset, n), flag)
           /\ offset = CountUpTo(from)
           /\ n > 0 => offset + n <= CountBefore(t1)
           /\ ~flag => n = AtLeastZero(CountBefore(t1) - offset)
<1> DEFINE begin == CountUpTo(from)
           end == CountBefore(t1)
           n == AtLeastZero(end - begin)
           m == Smaller(n, cap)
           flag == n > cap
<1>1. begin \in 0..Len(df) /\ end \in 0..Len(df) /\ Len(df) \in Nat
  BY SortedCounts, LenProperties DEF IInv, TypeOK
<1>2. TailFrame(from, t1, cap) = Reply(Slice(begin, m), flag)
  BY DEF TailFrame, TailContiguous
<1> HIDE DEF begin, end
<1>3. /\ m \in Nat /\ begin + m <= Len(df) /\ (m > 0 => begin + m <= end)
      /\ flag \in BOOLEAN /\ (~flag => m = n)
  BY <1>1 DEF Smaller, AtLeastZero
<1> HIDE DEF m, flag
<1>4. QED  BY <1>1, <1>2, <1>3 DEF begin, end

\* p names the place each row of a reply was taken from, no place twice.
From(reply, p) ==
  /\ reply.rows \in Seq(Row) /\ reply.capped \in BOOLEAN
  /\ \A k \in 1..Len(reply.rows) : /\ p[k] \in 1..Len(df)
                                    /\ reply.rows[k] = df[p[k]]
  /\ \A k, m \in 1..Len(reply.rows) : p[k] = p[m] => k = m

LEMMA ReplyIs ==
  ASSUME NEW r, NEW flag
  PROVE  Reply(r, flag).rows = r /\ Reply(r, flag).capped = flag
BY DEF Reply

LEMMA SlicePlaces ==
  ASSUME IInv, NEW offset \in Nat, NEW n \in Nat, offset + n <= Len(df), NEW flag \in BOOLEAN
  PROVE  \E p : /\ From(Reply(Slice(offset, n), flag), p)
                /\ \A k \in 1..Len(Slice(offset, n)) : p[k] = offset + k
<1> DEFINE r == Slice(offset, n)
           p == [k \in 1..n |-> offset + k]
<1>1. r \in Seq(Row) /\ Len(r) = n
      /\ \A k \in 1..n : offset + k \in 1..Len(df) /\ r[k] = df[offset + k]
  BY SliceIs
<1>2. Reply(r, flag).rows = r /\ Reply(r, flag).capped = flag
  BY ReplyIs
<1> HIDE DEF r
<1>3. \A k \in 1..n : p[k] = offset + k
  OBVIOUS
<1> HIDE DEF p
<1>4. \A k, m \in 1..n : p[k] = p[m] => k = m
  BY <1>3
<1>5. From(Reply(r, flag), p)
  BY <1>1, <1>2, <1>3, <1>4 DEF From
<1>6. QED  BY <1>1, <1>3, <1>5 DEF r

LEMMA CutOffPlaces ==
  ASSUME IInv, NEW places \in SUBSET (1..Len(df)), NEW cap \in Nat
  PROVE  \E p : /\ From(CutOff(places, cap), p)
                /\ \A k \in 1..Len(CutOff(places, cap).rows) : p[k] \in places
<1> DEFINE c == CutOff(places, cap)
           m == Smaller(Cardinality(places), cap)
           p == [k \in 1..m |-> Nth(places, k)]
<1>1. /\ c.rows \in Seq(Row) /\ Len(c.rows) = m
      /\ \A k \in 1..m : k \in 1..Cardinality(places) /\ c.rows[k] = df[Nth(places, k)]
  BY CutOffIs
<1>2. c.capped \in BOOLEAN
  <2> DEFINE over == Len(RowsAt(places)) > cap
             r == SubSeq(RowsAt(places), 1, Smaller(Len(RowsAt(places)), cap))
  <2>1. over \in BOOLEAN /\ c = Reply(r, over)
    BY DEF CutOff
  <2> HIDE DEF over, c, r
  <2>2. QED  BY <2>1 DEF Reply
<1>3. places \in SUBSET Int /\ IsFiniteSet(places)
  BY PlacesFinite
<1>4. \A k \in 1..Cardinality(places) :
        Nth(places, k) \in places /\ Rank(places, Nth(places, k)) = k
  BY <1>3, NthPlace
<1> HIDE DEF c, m
<1>5. \A k \in 1..m : /\ p[k] \in places /\ p[k] \in 1..Len(df) /\ c.rows[k] = df[p[k]]
                       /\ Rank(places, p[k]) = k
  BY <1>1, <1>4
<1> HIDE DEF p
<1>6. \A k, h \in 1..m : p[k] = p[h] => k = h
  BY <1>5
<1>7. From(c, p)
  BY <1>1, <1>2, <1>5, <1>6 DEF From
<1>8. QED  BY <1>1, <1>5, <1>7 DEF c

LEMMA WindowPlacesOf ==
  ASSUME IInv, NEW t0 \in Nat, NEW t1 \in Nat, NEW cap \in Nat
  PROVE  \E p : From(Window(t0, t1, cap), p)
<1>1. CASE sorted
  <2>1. PICK offset \in Nat, n \in Nat, flag \in BOOLEAN :
           /\ offset + n <= Len(df)
           /\ Window(t0, t1, cap) = Reply(Slice(offset, n), flag)
    <3>1. PICK offset \in Nat, n \in Nat :
             /\ offset + n <= Len(df) /\ n <= cap
             /\ \/ Window(t0, t1, cap) = Reply(Slice(offset, n), TRUE) /\ n = cap
                \/ /\ Window(t0, t1, cap) = Reply(Slice(offset, n), FALSE)
                   /\ offset = WindowLo(t0, t1) /\ offset + n = WindowHi(t1)
      BY <1>1, WindowIsSlice
    <3>2. TRUE \in BOOLEAN /\ FALSE \in BOOLEAN
      OBVIOUS
    <3>3. QED  BY <3>1, <3>2, Zenon
  <2>2. \E p : From(Reply(Slice(offset, n), flag), p)
    BY <2>1, SlicePlaces
  <2>3. QED  BY <2>1, <2>2
<1>2. CASE ~sorted
  <2>1. Window(t0, t1, cap) = CutOff(WindowPlaces(t0, t1), cap)
    BY <1>2, ScansAre DEF Window
  <2>2. WindowPlaces(t0, t1) \in SUBSET (1..Len(df))
    BY DEF WindowPlaces
  <2>3. QED  BY <2>1, <2>2, CutOffPlaces
<1>3. QED  BY <1>1, <1>2

LEMMA TailPlacesOf ==
  ASSUME IInv, NEW from \in Nat, NEW t1 \in Nat, NEW cap \in Nat
  PROVE  \E p : /\ From(TailFrame(from, t1, cap), p)
                /\ \A k \in 1..Len(TailFrame(from, t1, cap).rows) : IsTail(df[p[k]], from, t1)
<1>1. CASE sorted
  <2>1. PICK offset \in Nat, n \in Nat, flag \in BOOLEAN :
           /\ offset + n <= Len(df)
           /\ TailFrame(from, t1, cap) = Reply(Slice(offset, n), flag)
           /\ offset = CountUpTo(from)
           /\ n > 0 => offset + n <= CountBefore(t1)
    BY <1>1, TailIsSlice
  <2>2. PICK p : /\ From(Reply(Slice(offset, n), flag), p)
                 /\ \A k \in 1..Len(Slice(offset, n)) : p[k] = offset + k
    BY <2>1, SlicePlaces
  <2>3. /\ Len(Slice(offset, n)) = n /\ TailFrame(from, t1, cap).rows = Slice(offset, n)
        /\ \A k \in 1..n : offset + k \in 1..Len(df)
    <3>1. Len(Slice(offset, n)) = n /\ \A k \in 1..n : offset + k \in 1..Len(df)
      BY <2>1, SliceIs
    <3>2. TailFrame(from, t1, cap).rows = Slice(offset, n)
      BY <2>1, ReplyIs
    <3>3. QED  BY <3>1, <3>2
  <2>4. \A k \in 1..n : IsTail(df[offset + k], from, t1)
    <3>1. CountUpTo(from) \in 0..Len(df) /\ CountBefore(t1) \in 0..Len(df) /\ Len(df) \in Nat
      BY <1>1, SortedCounts, LenProperties DEF IInv, TypeOK
    <3>2. \A k \in 1..n : CountUpTo(from) < offset + k /\ offset + k <= CountBefore(t1)
      BY <2>1, <3>1
    <3>3. ASSUME NEW i \in 1..Len(df), CountUpTo(from) < i, i <= CountBefore(t1)
          PROVE  IsTail(df[i], from, t1)
      BY <1>1, <3>3, TailRangeHolds
    <3>4. QED  BY <2>3, <3>2, <3>3
  <2>5. From(TailFrame(from, t1, cap), p)
    BY <2>1, <2>2
  <2>6. \A k \in 1..Len(TailFrame(from, t1, cap).rows) : IsTail(df[p[k]], from, t1)
    <3>1. Len(TailFrame(from, t1, cap).rows) = n
      BY <2>3
    <3>2. \A k \in 1..n : p[k] = offset + k
      BY <2>2, <2>3
    <3>3. QED  BY <2>4, <3>1, <3>2
  <2>7. QED  BY <2>5, <2>6
<1>2. CASE ~sorted
  <2>1. TailFrame(from, t1, cap) = CutOff(TailPlaces(from, t1), cap)
    BY <1>2, ScansAre DEF TailFrame
  <2>2. TailPlaces(from, t1) \in SUBSET (1..Len(df))
        /\ \A i \in TailPlaces(from, t1) : IsTail(df[i], from, t1)
    BY DEF TailPlaces
  <2>3. QED  BY <2>1, <2>2, CutOffPlaces
<1>3. QED  BY <1>1, <1>2

-----------------------------------------------------------------------------
(* Eviction. *)

KeepsRunningRows ==
  Capped /\ sorted' =>
    \A i \in 1..Len(df) :
      EndOf(df[i]) > retainedFrom' => \E k \in 1..Len(df') : df'[k] = df[i]

LEMMA AppendKeepsRunning ==
  ASSUME IInv, NEW batch \in Seq(Row), batch # << >>, AppendBatch(batch)
  PROVE  KeepsRunningRows
<1> SUFFICES ASSUME Capped, sorted', NEW i \in 1..Len(df), EndOf(df[i]) > retainedFrom'
             PROVE  \E k \in 1..Len(df') : df'[k] = df[i]
  BY DEF KeepsRunningRows
<1>1. PICK cut \in 0..(Len(df) + Len(batch)) :
           /\ Len(df') = Len(df) + Len(batch) - cut
           /\ \A j \in 1..Len(df') :
                /\ cut + j \in 1..(Len(df) + Len(batch))
                /\ df'[j] = (df \o batch)[cut + j]
  BY AppendSuffix DEF IInv
<1>2. /\ Len(df) \in Nat /\ Len(batch) \in Nat
      /\ (df \o batch)[i] = df[i]
  BY ConcatRows DEF IInv
<1>3. /\ df' \in Seq(Row) /\ starts' \in Seq(Starts)
      /\ Len(df') > 0 /\ Len(df') \in Nat /\ Len(starts') = Len(df')
      /\ starts'[1] = df'[1].start
  <2>1. df' \in Seq(Row) /\ starts' \in Seq(Starts) /\ Len(df') > 0
    BY AppendTypes DEF IInv
  <2>2. Len(df') \in Nat
    BY <2>1, LenProperties
  <2>3. Len(starts') = Len(df') /\ \A j \in 1..Len(df') : starts'[j] = df'[j].start
    BY AppendAligned DEF IInv, Aligned
  <2>4. 1 \in 1..Len(df')
    BY <2>1, <2>2
  <2>5. QED  BY <2>1, <2>2, <2>3, <2>4
<1>4. CASE i > cut
  <2>1. i - cut \in 1..Len(df')
    BY <1>1, <1>2, <1>4
  <2>2. cut + (i - cut) = i
    BY <1>1
  <2>3. df'[i - cut] = df[i]
    BY <1>1, <1>2, <2>1, <2>2
  <2>4. QED  BY <2>1, <2>3
<1>5. CASE i <= cut
  <2>1. 1 \in 1..Len(df') /\ cut + 1 \in 1..(Len(df) + Len(batch))
        /\ df'[1] = (df \o batch)[cut + 1]
    BY <1>1, <1>3
  <2>2. i < cut + 1 /\ i \in 1..(Len(df) + Len(batch))
    BY <1>1, <1>2, <1>5
  <2>3. EndOf((df \o batch)[i]) <= (df \o batch)[cut + 1].start
    BY <2>1, <2>2, ConcatInOrder DEF IInv
  <2>4. retainedFrom' = df'[1].start
    BY <1>3 DEF AppendBatch, HorizonOf
  <2>5. EndOf(df[i]) <= retainedFrom'
    BY <1>2, <2>1, <2>3, <2>4
  <2>6. EndOf(df[i]) \in Nat /\ retainedFrom' \in Nat
    BY RowType, ElementOfSeq, <2>1, <2>4, <1>3 DEF IInv, TypeOK
  <2>7. QED  BY <2>5, <2>6
<1>6. QED  BY <1>1, <1>4, <1>5

LEMMA StoreKeepsRunning ==
  ASSUME UNCHANGED store
  PROVE  KeepsRunningRows
BY DEF KeepsRunningRows, store

LEMMA FlushKeepsRunning ==
  ASSUME IInv, NEW rows \in Seq(Row), FlushPending(rows)
  PROVE  KeepsRunningRows
<1>1. CASE UNCHANGED store
  BY <1>1, StoreKeepsRunning
<1>2. CASE rows # << >> /\ AppendBatch(rows)
  BY <1>2, AppendKeepsRunning
<1>3. QED  BY <1>1, <1>2 DEF FlushPending, DropBatch

\* In order, eviction never discards a row still running at the horizon.
THEOREM EvictionIsSafe == Spec => EvictionBehindHorizon
<1>1. IInv /\ [Next]_vars => [KeepsRunningRows]_vars
  <2> SUFFICES ASSUME IInv, Next PROVE KeepsRunningRows
    OBVIOUS
  <2>1. pending \in Seq(Row)
    BY DEF IInv, TypeOK
  <2>2. ASSUME NEW batch \in Batches, Receive(batch)
        PROVE  KeepsRunningRows
    <3>1. pending \o batch \in Seq(Row)
      BY <2>1, <2>2, BatchType, ConcatProperties
    <3>2. QED  BY <2>2, <3>1, FlushKeepsRunning, StoreKeepsRunning DEF Receive
  <2>3. CASE Flush
    BY <2>1, <2>3, FlushKeepsRunning DEF Flush
  <2>4. QED  BY <2>2, <2>3 DEF Next
<1>2. EvictionBehindHorizon <=> [][KeepsRunningRows]_vars
  BY DEF EvictionBehindHorizon, KeepsRunningRows
<1>3. QED  BY <1>1, <1>2, Invariance, PTL DEF Spec

-----------------------------------------------------------------------------
(* The slow log of Reports. *)

\* Each place occurs in an order once or more, so the members of a finite set
\* that stand at the first n of its places are n or fewer.
LEMMA FirstPlaces ==
  ASSUME NEW s, NEW n \in Nat, NEW S \in SUBSET {s[m] : m \in 1..n}
  PROVE  IsFiniteSet(S) /\ Cardinality(S) \in Nat /\ Cardinality(S) <= n
<1> DEFINE T == {s[m] : m \in 1..n}
           f == [m \in 1..n |-> s[m]]
<1>1. IsFiniteSet(1..n) /\ Cardinality(1..n) = n
  BY FS_Interval
<1>2. f \in Surjection(1..n, T)
  <2>1. f \in [1..n -> T] /\ \A t \in T : \E m \in 1..n : f[m] = t
    OBVIOUS
  <2> HIDE DEF f, T
  <2>2. QED  BY <2>1, Fun_IsSurj
<1> HIDE DEF f
<1>3. IsFiniteSet(T) /\ Cardinality(T) <= n
  <2> HIDE DEF T
  <2>1. IsFiniteSet(T) /\ Cardinality(T) <= Cardinality(1..n)
    BY <1>1, <1>2, FS_Surjection
  <2>2. QED  BY <1>1, <2>1
<1>4. S \in SUBSET T
  OBVIOUS
<1> HIDE DEF T
<1>5. IsFiniteSet(S) /\ Cardinality(S) <= Cardinality(T)
  BY <1>3, <1>4, FS_Subset
<1>6. Cardinality(S) \in Nat /\ Cardinality(T) \in Nat
  BY <1>3, <1>5, FS_CardinalityType
<1>7. QED  BY <1>3, <1>5, <1>6

LEMMA DursTyped ==
  ASSUME IInv
  PROVE  \A i \in 1..Len(df) : df[i].dur \in Nat /\ df[i].start \in Nat
<1>1. \A row \in Row : row.dur \in Nat /\ row.start \in Nat
  BY TimelineAssumption DEF Row
<1>2. df \in Seq(Row)
  BY DEF IInv, TypeOK
<1>3. \A i \in 1..Len(df) : df[i] \in Row
  BY <1>2, ElementOfSeq
<1>4. QED  BY <1>1, <1>3

\* The thresholds cut the slow rows into the two tiers.
LEMMA TiersAre ==
  ASSUME IInv, LongNs <= BlockedNs
  PROVE  /\ TierPlaces("all") = {i \in 1..Len(df) : ~IsHub(df[i]) /\ df[i].dur >= LongNs}
         /\ TierPlaces("blocked") = {i \in 1..Len(df) : ~IsHub(df[i]) /\ df[i].dur >= BlockedNs}
         /\ TierPlaces("all") = TierPlaces("long") \cup TierPlaces("blocked")
         /\ TierPlaces("long") \cap TierPlaces("blocked") = {}
<1>1. \A i \in 1..Len(df) : df[i].dur \in Nat
  BY DursTyped
<1>2. LongNs \in Nat /\ BlockedNs \in Nat
  BY ReportsAssumption
<1>3. QED  BY <1>1, <1>2 DEF TierPlaces, InTier

LEMMA TotalsAre ==
  ASSUME IInv, LongNs <= BlockedNs, NEW tier \in Tiers
  PROVE  /\ Total(tier) = Cardinality(TierPlaces(tier))
         /\ IsFiniteSet(TierPlaces(tier)) /\ Cardinality(TierPlaces(tier)) \in Nat
<1>1. \A t : IsFiniteSet(TierPlaces(t)) /\ Cardinality(TierPlaces(t)) \in Nat
  <2>1. ASSUME NEW t PROVE IsFiniteSet(TierPlaces(t)) /\ Cardinality(TierPlaces(t)) \in Nat
    <3>1. TierPlaces(t) \in SUBSET (1..Len(df))
      BY DEF TierPlaces
    <3>2. QED  BY <3>1, PlacesFinite
  <2>2. QED  BY <2>1
<1>2. CASE tier = "all"
  <2> DEFINE L == TierPlaces("long")
             B == TierPlaces("blocked")
  <2>1. /\ IsFiniteSet(L) /\ IsFiniteSet(B) /\ Cardinality(L) \in Nat /\ Cardinality(B) \in Nat
        /\ TierPlaces("all") = L \cup B /\ L \cap B = {}
    BY <1>1, TiersAre
  <2>2. Total("all") = Cardinality(L) + Cardinality(B)
    BY DEF Total, LongTotal, BlockedTotal
  <2> HIDE DEF L, B
  <2>3. Cardinality(L \cup B) = Cardinality(L) + Cardinality(B) - Cardinality(L \cap B)
    BY <2>1, FS_Union
  <2>4. Cardinality(L \cap B) = 0
    BY <2>1, FS_EmptySet, Zenon
  <2>5. Cardinality(TierPlaces("all")) = Cardinality(L \cup B)
    BY <2>1, Zenon
  <2>6. Total("all") = Cardinality(TierPlaces("all"))
    BY <2>1, <2>2, <2>3, <2>4, <2>5
  <2>7. QED  BY <1>1, <1>2, <2>6
<1>3. CASE tier # "all"
  BY <1>1, <1>3 DEF Tiers, Total, LongTotal, BlockedTotal
<1>4. QED  BY <1>2, <1>3

\* A page shows rows of some places, and fewer than k of them rank above its
\* k-th row.
ShowsHighest(page, byDur, places) ==
  \A k \in 1..Len(page) :
    /\ \E i \in places : page[k] = df[i]
    /\ Cardinality({i \in places : Key(byDur, df[i]) > Key(byDur, page[k])}) < k

\* A page shows the places of its tier that rank highest.
LEMMA PageIs ==
  ASSUME IInv, NEW places \in SUBSET (1..Len(df)), NEW byDur \in BOOLEAN,
         NEW limit \in Nat, NEW s \in Descending(byDur, places)
  PROVE  /\ Len(FirstRows(s, limit)) = Smaller(limit, Cardinality(places))
         /\ ShowsHighest(FirstRows(s, limit), byDur, places)
<1> DEFINE n == Cardinality(places)
           m == Smaller(Len(s), limit)
           page == FirstRows(s, limit)
<1>1. n \in Nat /\ IsFiniteSet(places)
  BY PlacesFinite
<1>2. /\ s \in [1..n -> places] /\ \A p \in places : \E k \in 1..n : s[k] = p
      /\ \A a, b \in 1..n : a < b => Key(byDur, df[s[a]]) >= Key(byDur, df[s[b]])
  BY DEF Descending, Orders
<1>3. Len(s) = n
  BY <1>1, <1>2
<1>4. page = [k \in 1..m |-> df[s[k]]] /\ m \in Nat /\ m <= n /\ m = Smaller(limit, n)
  BY <1>1, <1>3 DEF FirstRows, Smaller
<1> HIDE DEF n, m, page
<1>5. Len(page) = m
  BY <1>4
<1>6. \A i \in places : Key(byDur, df[i]) \in Nat
  BY DursTyped DEF Key
<1>7. ASSUME NEW k \in 1..m
      PROVE  /\ \E i \in places : page[k] = df[i]
             /\ Cardinality({i \in places : Key(byDur, df[i]) > Key(byDur, page[k])}) < k
  <2>1. k \in 1..n /\ s[k] \in places /\ page[k] = df[s[k]] /\ k - 1 \in Nat
    BY <1>1, <1>2, <1>4
  <2> DEFINE S == {i \in places : Key(byDur, df[i]) > Key(byDur, page[k])}
  <2>2. ASSUME NEW i \in S PROVE i \in {s[j] : j \in 1..(k - 1)}
    <3>1. PICK j \in 1..n : s[j] = i
      BY <1>2
    <3>2. Key(byDur, df[s[j]]) > Key(byDur, df[s[k]])
      BY <2>1, <3>1
    <3>3. Key(byDur, df[s[j]]) \in Nat /\ Key(byDur, df[s[k]]) \in Nat
      BY <1>2, <1>6, <2>1
    <3>4. ~(k <= j)
      BY <1>1, <1>2, <2>1, <3>2, <3>3
    <3>5. j \in 1..(k - 1)
      BY <1>1, <2>1, <3>4
    <3>6. QED  BY <3>1, <3>5
  <2>3. S \in SUBSET {s[j] : j \in 1..(k - 1)}
    BY <2>2
  <2> HIDE DEF S
  <2>4. Cardinality(S) \in Nat /\ Cardinality(S) <= k - 1
    BY <2>1, <2>3, FirstPlaces
  <2>5. Cardinality(S) < k
    BY <2>1, <2>4
  <2>6. QED  BY <2>1, <2>5 DEF S
<1>8. QED  BY <1>4, <1>5, <1>7 DEF page, n, ShowsHighest

LEMMA SlowLogIs == IInv => SlowLogHonest
<1> SUFFICES ASSUME IInv, LongNs <= BlockedNs,
                    NEW tier \in Tiers, NEW byDur \in BOOLEAN, NEW limit \in Caps
             PROVE  LET Fits(row) == /\ row.gid \notin Hubs /\ row.dur >= LongNs
                                     /\ tier # "all" => Level(row) = IF tier = "long" THEN 1 ELSE 2
                        fitting == {i \in 1..Len(df) : Fits(df[i])}
                    IN  /\ Total(tier) = Cardinality(fitting)
                        /\ \A page \in SlowPages(tier, byDur, limit) :
                             /\ Len(page) = Smaller(limit, Total(tier))
                             /\ \A k \in 1..Len(page) :
                                  /\ Fits(page[k])
                                  /\ Cardinality({i \in fitting :
                                       Key(byDur, df[i]) > Key(byDur, page[k])}) < k
                        /\ Total("all") = Summary(limit).longCount
                        /\ Total("blocked") = Summary(limit).blockedCount
  BY DEF SlowLogHonest
<1> DEFINE Fits(row) == /\ row.gid \notin Hubs /\ row.dur >= LongNs
                        /\ tier # "all" => Level(row) = IF tier = "long" THEN 1 ELSE 2
           fitting == {i \in 1..Len(df) : Fits(df[i])}
<1>1. \A i \in 1..Len(df) : df[i].dur \in Nat
  BY DursTyped
<1>2. LongNs \in Nat /\ BlockedNs \in Nat /\ limit \in Nat
  BY ReportsAssumption, TimelineAssumption
<1>3. fitting = TierPlaces(tier)
  <2>1. ASSUME NEW i \in 1..Len(df)
        PROVE  Fits(df[i]) <=> ~IsHub(df[i]) /\ InTier(df[i], tier)
    <3>1. CASE tier = "all"
      BY <3>1 DEF InTier, IsHub
    <3>2. CASE tier = "long"
      BY <1>1, <1>2, <3>2 DEF InTier, IsHub, Level
    <3>3. CASE tier = "blocked"
      BY <1>1, <1>2, <3>3 DEF InTier, IsHub, Level
    <3>4. QED  BY <3>1, <3>2, <3>3 DEF Tiers
  <2>2. QED  BY <2>1 DEF TierPlaces
<1>4. Total(tier) = Cardinality(fitting)
  BY <1>3, TotalsAre
<1>5. ASSUME NEW page \in SlowPages(tier, byDur, limit)
      PROVE  /\ Len(page) = Smaller(limit, Total(tier))
             /\ \A k \in 1..Len(page) :
                  /\ Fits(page[k])
                  /\ Cardinality({i \in fitting : Key(byDur, df[i]) > Key(byDur, page[k])}) < k
  <2>1. PICK s \in Descending(byDur, fitting) : page = FirstRows(s, limit)
    BY <1>3 DEF SlowPages
  <2>2. fitting \in SUBSET (1..Len(df)) /\ \A i \in fitting : Fits(df[i])
    OBVIOUS
  <2> HIDE DEF fitting, Fits
  <2>3. /\ IInv /\ fitting \in SUBSET (1..Len(df)) /\ byDur \in BOOLEAN
        /\ limit \in Nat /\ s \in Descending(byDur, fitting)
    BY <1>2, <2>1, <2>2
  <2>4. /\ Len(FirstRows(s, limit)) = Smaller(limit, Cardinality(fitting))
        /\ ShowsHighest(FirstRows(s, limit), byDur, fitting)
    BY ONLY <2>3, PageIs
  <2>5. Len(page) = Smaller(limit, Cardinality(fitting)) /\ ShowsHighest(page, byDur, fitting)
    BY <2>1, <2>4
  <2>6. QED  BY <1>4, <2>2, <2>5 DEF ShowsHighest
<1>6. "all" \in Tiers /\ "blocked" \in Tiers
  BY DEF Tiers
<1>7. Total("all") = SlowerThan(LongNs) /\ Total("blocked") = SlowerThan(BlockedNs)
  BY <1>6, TotalsAre, TiersAre DEF SlowerThan
<1>8. /\ Summary(limit).longCount = SlowerThan(LongNs)
      /\ Summary(limit).blockedCount = SlowerThan(BlockedNs)
  BY DEF Summary
<1>9. QED  BY <1>4, <1>5, <1>7, <1>8

\* A tier's total counts all of its rows, and its page, whatever the limit, the
\* order and the tier that dominates, shows rows of the tier only and none that
\* a row left out would rank above (slowlog, summary).
THEOREM SlowLogIsHonest == Spec => []SlowLogHonest
  BY SlowLogIs, Invariance, PTL

-----------------------------------------------------------------------------
(* The percentiles of a report. *)

\* d is the k-th shortest duration at some places.
Stands(d, places, k) ==
  /\ d \in {df[i].dur : i \in places}
  /\ Cardinality({i \in places : df[i].dur < d}) < k
  /\ k <= Cardinality({i \in places : df[i].dur <= d})

LEMMA DurationPlaces ==
  ASSUME IInv, NEW places \in SUBSET (1..Len(df))
  PROVE  /\ \A i \in places : df[i].dur \in Nat
         /\ \A d : /\ IsFiniteSet({i \in places : df[i].dur < d})
                   /\ IsFiniteSet({i \in places : df[i].dur <= d})
                   /\ Cardinality({i \in places : df[i].dur < d}) \in Nat
                   /\ Cardinality({i \in places : df[i].dur <= d}) \in Nat
<1>1. \A i \in places : df[i].dur \in Nat
  BY DursTyped
<1>2. ASSUME NEW d
      PROVE  /\ IsFiniteSet({i \in places : df[i].dur < d})
             /\ IsFiniteSet({i \in places : df[i].dur <= d})
             /\ Cardinality({i \in places : df[i].dur < d}) \in Nat
             /\ Cardinality({i \in places : df[i].dur <= d}) \in Nat
  <2>1. /\ {i \in places : df[i].dur < d} \in SUBSET (1..Len(df))
        /\ {i \in places : df[i].dur <= d} \in SUBSET (1..Len(df))
    OBVIOUS
  <2>2. QED  BY <2>1, PlacesFinite
<1>3. QED  BY <1>1, <1>2

\* There is one of every rank: the least duration that enough rows do not exceed.
LEMMA RankStands ==
  ASSUME IInv, NEW places \in SUBSET (1..Len(df)), NEW k \in 1..Cardinality(places)
  PROVE  \E d : Stands(d, places, k)
<1> DEFINE D == {df[i].dur : i \in places}
           Upto(d) == {i \in places : df[i].dur <= d}
           enough == {d \in D : k <= Cardinality(Upto(d))}
<1>1. IsFiniteSet(places) /\ Cardinality(places) \in Nat /\ k \in Nat
  BY PlacesFinite
<1>2. /\ \A i \in places : df[i].dur \in Nat
      /\ \A d : IsFiniteSet(Upto(d)) /\ Cardinality(Upto(d)) \in Nat
  BY DurationPlaces
<1>3. D \in SUBSET Nat
  BY <1>2
<1>4. D # {}
  <2>1. places # {}
    BY <1>1, FS_EmptySet
  <2>2. QED  BY <2>1
<1>5. PICK b \in Nat : \A d \in D : d <= b
  <2> DEFINE f == [i \in 1..Len(df) |-> df[i].dur]
  <2>1. Len(df) \in Nat /\ f \in [1..Len(df) -> Nat]
    BY PlacesFinite, DursTyped
  <2>2. PICK b \in Nat : \A i \in 1..Len(df) : f[i] <= b
    <3> HIDE DEF f
    <3>1. QED  BY <2>1, BoundOf
  <2>3. \A i \in places : df[i].dur <= b
    BY <2>2
  <2>4. QED  BY <2>3
<1> HIDE DEF D
<1>6. PICK m \in D : \A d \in D : d <= m
  BY <1>3, <1>4, <1>5, GreatestOf
<1>7. Upto(m) = places
  BY <1>6 DEF D
<1>8. enough \in SUBSET Nat /\ m \in enough
  <2>1. k <= Cardinality(places)
    BY <1>1
  <2>2. QED  BY <1>3, <1>6, <1>7, <2>1
<1>9. PICK d \in enough : \A e \in enough : d <= e
  <2> HIDE DEF enough
  <2>1. QED  BY <1>8, LeastOf
<1> DEFINE low == {i \in places : df[i].dur < d}
<1>10. Cardinality(low) < k
  <2>1. CASE low = {}
    <3>1. Cardinality(low) = 0
      BY <2>1, FS_EmptySet
    <3>2. QED  BY <1>1, <3>1
  <2>2. CASE low # {}
    <3> DEFINE E == {df[i].dur : i \in low}
    <3>1. E \in SUBSET Nat /\ E # {} /\ \A e \in E : e <= d
      <4>1. \A i \in low : df[i].dur \in Nat /\ df[i].dur <= d
        <5>1. d \in Nat
          BY <1>8, <1>9
        <5>2. QED  BY <1>2, <5>1
      <4>2. E # {}
        BY <2>2
      <4> HIDE DEF low
      <4>3. QED  BY <4>1, <4>2
    <3>2. PICK e \in E : \A x \in E : x <= e
      <4>1. d \in Nat
        BY <1>8, <1>9
      <4> HIDE DEF E
      <4>2. QED  BY <3>1, <4>1, GreatestOf
    <3>3. e \in D /\ e < d /\ d \in Nat /\ e \in Nat
      BY <1>3, <1>9, <3>1 DEF D
    <3>4. Upto(e) = low
      <4>1. \A i \in places : df[i].dur <= e => df[i].dur < d
        BY <1>2, <3>3
      <4>2. \A i \in low : df[i].dur <= e
        BY <3>2
      <4>3. QED  BY <4>1, <4>2
    <3>5. e \notin enough
      BY <1>9, <3>3
    <3>6. ~(k <= Cardinality(Upto(e))) /\ Cardinality(Upto(e)) \in Nat
      BY <1>2, <3>3, <3>5
    <3>7. Cardinality(low) = Cardinality(Upto(e))
      BY <3>4
    <3> HIDE DEF low, Upto
    <3>8. QED  BY <1>1, <3>6, <3>7
  <2>3. QED  BY <2>1, <2>2
<1>11. d \in D /\ k <= Cardinality(Upto(d))
  BY <1>9
<1>12. QED  BY <1>10, <1>11 DEF Stands, D

LEMMA ShortestStands ==
  ASSUME IInv, NEW places \in SUBSET (1..Len(df)), NEW k \in 1..Cardinality(places)
  PROVE  Stands(Shortest(places, k), places, k) /\ Shortest(places, k) \in Nat
<1>1. PICK d : Stands(d, places, k)
  BY RankStands
<1>2. Stands(Shortest(places, k), places, k)
  BY <1>1 DEF Stands, Shortest
<1>3. Shortest(places, k) \in Nat
  BY <1>2, DurationPlaces DEF Stands
<1>4. QED  BY <1>2, <1>3

LEMMA ShortestGrows ==
  ASSUME IInv, NEW places \in SUBSET (1..Len(df)),
         NEW k \in 1..Cardinality(places), NEW j \in 1..k
  PROVE  Shortest(places, j) <= Shortest(places, k)
<1> DEFINE c == Shortest(places, j)
           d == Shortest(places, k)
           Upto(x) == {i \in places : df[i].dur <= x}
           Below(x) == {i \in places : df[i].dur < x}
<1>1. Cardinality(places) \in Nat
  BY PlacesFinite
<1>2. j \in 1..Cardinality(places)
  BY <1>1
<1>3. Stands(d, places, k) /\ d \in Nat
  BY ShortestStands
<1>4. Stands(c, places, j) /\ c \in Nat
  BY <1>2, ShortestStands
<1> HIDE DEF c, d
<1>5. SUFFICES ASSUME d < c PROVE FALSE
  BY <1>3, <1>4 DEF c, d
<1>6. \A i \in places : df[i].dur \in Nat
  BY DurationPlaces
<1>7. Upto(d) \subseteq Below(c)
  <2>1. ASSUME NEW i \in places, df[i].dur <= d PROVE df[i].dur < c
    <3>1. df[i].dur \in Nat
      BY <1>6
    <3>2. QED  BY <1>3, <1>4, <1>5, <2>1, <3>1
  <2>2. QED  BY <2>1
<1>8. /\ IsFiniteSet(Below(c)) /\ Cardinality(Below(c)) \in Nat /\ Cardinality(Upto(d)) \in Nat
  BY DurationPlaces
<1>9. Cardinality(Below(c)) < j /\ k <= Cardinality(Upto(d))
  BY <1>3, <1>4 DEF Stands
<1> HIDE DEF Below, Upto
<1>10. Cardinality(Upto(d)) <= Cardinality(Below(c))
  BY <1>7, <1>8, FS_Subset
<1>11. QED  BY <1>1, <1>8, <1>9, <1>10

\* Between two durations x and y, p hundredths of the way.
Blend(p, x, y) == (100 - p) * x + p * y

LEMMA BlendIs ==
  ASSUME NEW p \in 0..100, NEW q \in p..100, NEW x \in Nat, NEW y \in Nat, x <= y
  PROVE  /\ Blend(p, x, y) \in Nat
         /\ 100 * x <= Blend(p, x, y)
         /\ Blend(p, x, y) <= 100 * y
         /\ Blend(p, x, y) <= Blend(q, x, y)
<1> DEFINE d == y - x
<1>1. d \in Nat /\ y = x + d
  OBVIOUS
<1> HIDE DEF d
<1>2. ASSUME NEW r \in 0..100
      PROVE  /\ r * d \in Nat /\ r * d <= 100 * d /\ Blend(r, x, y) = 100 * x + r * d
  <2>1. r * d \in Nat
    BY <1>1
  <2>2. r * d <= 100 * d
    <3>1. (100 - r) * d \in Nat
      BY <1>1
    <3>2. 100 * d = r * d + (100 - r) * d
      BY <1>1
    <3>3. QED  BY <1>1, <2>1, <3>1, <3>2
  <2>3. Blend(r, x, y) = 100 * x + r * d
    <3>1. Blend(r, x, y) = (100 - r) * x + r * (x + d)
      BY <1>1 DEF Blend
    <3>2. (100 - r) * x + r * (x + d) = 100 * x + r * d
      BY ONLY <1>1
    <3>3. QED  BY ONLY <3>1, <3>2
  <2>4. QED  BY <2>1, <2>2, <2>3
<1>3. p * d <= q * d
  <2>1. (q - p) * d \in Nat
    BY <1>1
  <2>2. q * d = p * d + (q - p) * d
    BY <1>1
  <2>3. p * d \in Nat /\ q * d \in Nat
    BY <1>1
  <2>4. QED  BY <2>1, <2>2, <2>3
<1>4. p \in 0..100 /\ q \in 0..100
  OBVIOUS
<1>5. /\ Blend(p, x, y) = 100 * x + p * d /\ Blend(q, x, y) = 100 * x + q * d
      /\ p * d \in Nat /\ p * d <= 100 * d
  BY <1>2, <1>4
<1>6. QED  BY <1>1, <1>3, <1>5

\* What a percentile is at a place between the first row and the last, in hundredths.
ValueAt(places, at) ==
  LET k == at \div 100 + 1
      p == at % 100
  IN  IF p = 0 THEN 100 * Shortest(places, k)
      ELSE (100 - p) * Shortest(places, k) + p * Shortest(places, k + 1)

\* at lies p hundredths of the way from one row, the k-th shortest, to the next.
Weighs(places, n, at) ==
  LET k == at \div 100 + 1
      p == at % 100
      up == IF p = 0 THEN k ELSE k + 1
  IN  /\ k \in 1..n /\ up \in k..n /\ p \in 0..99 /\ at = 100 * (k - 1) + p
      /\ Shortest(places, k) \in Nat /\ Shortest(places, up) \in Nat
      /\ Shortest(places, k) <= Shortest(places, up)
      /\ ValueAt(places, at) = Blend(p, Shortest(places, k), Shortest(places, up))

LEMMA ValueIs ==
  ASSUME IInv, NEW places \in SUBSET (1..Len(df)), NEW n \in Nat \ {0}, n = Cardinality(places),
         NEW at \in 0..(100 * (n - 1))
  PROVE  Weighs(places, n, at)
<1> DEFINE k == at \div 100 + 1
           p == at % 100
           up == IF p = 0 THEN k ELSE k + 1
<1>1. at \div 100 \in Nat /\ p \in 0..99 /\ at = 100 * (at \div 100) + p
  OBVIOUS
<1>2. k - 1 = at \div 100 /\ k \in Nat
  BY <1>1
<1> HIDE DEF k, p
<1>3. at = 100 * (k - 1) + p /\ p \in 0..99 /\ 100 * (k - 1) + p <= 100 * (n - 1)
  BY <1>1, <1>2
<1>4. k \in 1..n /\ (p # 0 => k + 1 \in 1..n)
  BY <1>2, <1>3 DEF k
<1>5. up \in k..n /\ up \in 1..n /\ k \in 1..up
  BY <1>4
<1>6. Shortest(places, k) \in Nat /\ Shortest(places, up) \in Nat
  <2> HIDE DEF up
  <2>1. QED  BY <1>4, <1>5, ShortestStands
<1>7. Shortest(places, k) <= Shortest(places, up)
  <2> HIDE DEF up
  <2>1. QED  BY <1>5, ShortestGrows
<1>8. ValueAt(places, at) = Blend(p, Shortest(places, k), Shortest(places, up))
  <2>1. ValueAt(places, at) = IF p = 0 THEN 100 * Shortest(places, k)
                              ELSE (100 - p) * Shortest(places, k) + p * Shortest(places, k + 1)
    BY DEF ValueAt, k, p
  <2>2. CASE p = 0
    <3>1. 0 * Shortest(places, k) = 0 /\ (100 - 0) * Shortest(places, k) = 100 * Shortest(places, k)
      BY <1>6
    <3>2. QED  BY <1>6, <2>1, <2>2, <3>1 DEF Blend
  <2>3. CASE p # 0
    BY <2>1, <2>3 DEF Blend
  <2>4. QED  BY <2>2, <2>3
<1>9. QED  BY <1>3, <1>4, <1>5, <1>6, <1>7, <1>8 DEF k, p, Weighs

LEMMA ValueGrows ==
  ASSUME IInv, NEW places \in SUBSET (1..Len(df)), NEW n \in Nat \ {0}, n = Cardinality(places),
         NEW b \in 0..(100 * (n - 1)), NEW a \in 0..b
  PROVE  ValueAt(places, a) <= ValueAt(places, b)
<1> DEFINE k == a \div 100 + 1
           p == a % 100
           x == Shortest(places, k)
           y == Shortest(places, IF p = 0 THEN k ELSE k + 1)
           l == b \div 100 + 1
           q == b % 100
           z == Shortest(places, l)
           w == Shortest(places, IF q = 0 THEN l ELSE l + 1)
<1>1. a \in 0..(100 * (n - 1))
  OBVIOUS
<1>2. /\ k \in 1..n /\ p \in 0..99 /\ a = 100 * (k - 1) + p
      /\ (IF p = 0 THEN k ELSE k + 1) \in k..n
      /\ x \in Nat /\ y \in Nat /\ x <= y
      /\ ValueAt(places, a) = Blend(p, x, y)
  <2>1. Weighs(places, n, a)
    BY <1>1, ValueIs
  <2>2. QED  BY <2>1 DEF Weighs
<1>3. /\ l \in 1..n /\ q \in 0..99 /\ b = 100 * (l - 1) + q
      /\ (IF q = 0 THEN l ELSE l + 1) \in l..n
      /\ z \in Nat /\ w \in Nat /\ z <= w
      /\ ValueAt(places, b) = Blend(q, z, w)
  <2>1. Weighs(places, n, b)
    BY ValueIs
  <2>2. QED  BY <2>1 DEF Weighs
<1>4. (k < l) \/ (k = l /\ p <= q)
  <2> HIDE DEF k, l, p, q, x, y, z, w
  <2>1. /\ a \in Int /\ b \in Int /\ a <= b
        /\ k \in Int /\ p \in 0..99 /\ a = 100 * (k - 1) + p
        /\ l \in Int /\ q \in 0..99 /\ b = 100 * (l - 1) + q
    BY <1>2, <1>3
  <2>2. QED  BY ONLY <2>1
<1>5. CASE k < l
  <2> DEFINE up == IF p = 0 THEN k ELSE k + 1
  <2>1. up \in 1..l /\ l \in 1..Cardinality(places)
    <3> HIDE DEF k, l, p, q
    <3>1. QED  BY <1>2, <1>3, <1>5
  <2>2. y <= z
    <3>1. Shortest(places, up) <= Shortest(places, l)
      <4> HIDE DEF up, l
      <4>1. QED  BY <2>1, ShortestGrows
    <3>2. QED  BY <3>1
  <2> HIDE DEF k, l, p, q, x, y, z, w
  <2>3. p \in 0..100 /\ p \in p..100 /\ q \in 0..100 /\ q \in q..100
    <3>1. p \in 0..99 /\ q \in 0..99
      BY <1>2, <1>3
    <3>2. QED  BY ONLY <3>1
  <2>4. Blend(p, x, y) <= 100 * y /\ Blend(p, x, y) \in Nat
    BY ONLY <1>2, <2>3, BlendIs
  <2>5. 100 * z <= Blend(q, z, w) /\ Blend(q, z, w) \in Nat
    BY ONLY <1>3, <2>3, BlendIs
  <2>6. QED  BY <1>2, <1>3, <2>2, <2>4, <2>5
<1>6. CASE k = l /\ p <= q
  <2>1. x = z
    BY <1>6
  <2>2. p # 0 => y = w
    <3>1. p \in 0..99 /\ q \in 0..99 /\ p <= q /\ k = l
      BY <1>2, <1>3, <1>6
    <3>2. p # 0 => q # 0
      <4> HIDE DEF p, q, k, l, x, y, z, w
      <4>1. QED  BY ONLY <3>1
    <3>3. QED  BY ONLY <3>1, <3>2 DEF y, w
  <2>3. p = 0 => y = x
    OBVIOUS
  <2> HIDE DEF k, l, p, q, x, y, z, w
  <2>4. p \in 0..100 /\ q \in p..100 /\ q \in 0..100 /\ q \in q..100
    <3>1. p \in 0..99 /\ q \in 0..99 /\ p <= q
      BY <1>2, <1>3, <1>6
    <3>2. QED  BY ONLY <3>1
  <2>5. CASE p # 0
    <3>1. Blend(p, z, w) <= Blend(q, z, w)
      BY ONLY <1>3, <2>4, BlendIs
    <3>2. QED  BY <1>2, <1>3, <2>1, <2>2, <2>5, <3>1
  <2>6. CASE p = 0
    <3>1. 100 * z <= Blend(q, z, w)
      BY ONLY <1>3, <2>4, BlendIs
    <3>2. p \in p..100 /\ Blend(p, x, y) <= 100 * y
      <4>1. p \in p..100
        BY ONLY <2>4
      <4>2. QED  BY ONLY <1>2, <2>4, <4>1, BlendIs
    <3>3. Blend(p, x, y) \in Nat /\ Blend(q, z, w) \in Nat
      <4>1. Blend(p, x, y) \in Nat
        BY ONLY <1>2, <2>4, <3>2, BlendIs
      <4>2. Blend(q, z, w) \in Nat
        BY ONLY <1>3, <2>4, BlendIs
      <4>3. QED  BY ONLY <4>1, <4>2
    <3>4. QED  BY <1>2, <1>3, <2>1, <2>3, <2>6, <3>1, <3>2, <3>3
  <2>7. QED  BY <2>5, <2>6
<1>7. QED  BY <1>4, <1>5, <1>6

LEMMA QuantilesAre ==
  ASSUME IInv, NEW places \in SUBSET (1..Len(df))
  PROVE  /\ Quantile(places, 50) <= Quantile(places, 95)
         /\ Quantile(places, 95) <= Quantile(places, 99)
         /\ Quantile(places, 99) \in Nat
         /\ Quantile(places, 99) > 0 =>
              \E i \in places : Quantile(places, 99) <= 100 * df[i].dur
<1> DEFINE n == Cardinality(places)
<1>1. n \in Nat /\ IsFiniteSet(places)
  BY PlacesFinite
<1>2. CASE places = {}
  BY <1>2 DEF Quantile
<1>3. CASE places # {}
  <2>1. n \in Nat \ {0}
    BY <1>1, <1>3, FS_EmptySet
  <2>2. \A percent : Quantile(places, percent) = ValueAt(places, percent * (n - 1))
    BY <1>3 DEF Quantile, ValueAt
  <2> HIDE DEF n
  <2>3. /\ 99 * (n - 1) \in 0..(100 * (n - 1)) /\ 95 * (n - 1) \in 0..(100 * (n - 1))
        /\ 95 * (n - 1) \in 0..(99 * (n - 1)) /\ 50 * (n - 1) \in 0..(95 * (n - 1))
    BY <2>1
  <2>4. n = Cardinality(places)
    BY DEF n
  <2>5. ValueAt(places, 50 * (n - 1)) <= ValueAt(places, 95 * (n - 1))
    BY <2>1, <2>3, <2>4, ValueGrows
  <2>6. ValueAt(places, 95 * (n - 1)) <= ValueAt(places, 99 * (n - 1))
    BY <2>1, <2>3, <2>4, ValueGrows
  <2>7. /\ ValueAt(places, 99 * (n - 1)) \in Nat
        /\ \E i \in places : ValueAt(places, 99 * (n - 1)) <= 100 * df[i].dur
    <3> DEFINE at == 99 * (n - 1)
               k == at \div 100 + 1
               p == at % 100
               up == IF p = 0 THEN k ELSE k + 1
               x == Shortest(places, k)
               y == Shortest(places, up)
    <3>1. Weighs(places, n, at)
      BY <2>1, <2>3, <2>4, ValueIs
    <3>2. /\ k \in 1..n /\ up \in k..n /\ p \in 0..99 /\ x \in Nat /\ y \in Nat /\ x <= y
          /\ ValueAt(places, at) = Blend(p, x, y)
      BY <3>1 DEF Weighs
    <3>3. up \in 1..Cardinality(places)
      <4>1. up \in 1..n
        <5> HIDE DEF up, k
        <5>1. QED  BY <2>1, <3>2
      <4>2. QED  BY <2>4, <4>1
    <3>4. Stands(y, places, up)
      <4> HIDE DEF up
      <4>1. QED  BY <3>3, ShortestStands
    <3> HIDE DEF at, k, p, up, x, y
    <3>5. PICK i \in places : y = df[i].dur
      BY <3>4 DEF Stands
    <3>6. p \in 0..100 /\ p \in p..100
      <4>1. p \in 0..99
        BY <3>2
      <4>2. QED  BY ONLY <4>1
    <3>7. Blend(p, x, y) <= 100 * y
      BY ONLY <3>2, <3>6, BlendIs
    <3>8. ValueAt(places, at) <= 100 * df[i].dur
      BY <3>2, <3>5, <3>7
    <3>9. Blend(p, x, y) \in Nat
      BY ONLY <3>2, <3>6, BlendIs
    <3>10. QED  BY <3>2, <3>8, <3>9 DEF at
  <2>8. QED  BY <2>2, <2>5, <2>6, <2>7
<1>4. QED  BY <1>2, <1>3

\* A percentile over a threshold means that there is a row over it.
LEMMA PercentilesAre ==
  ASSUME IInv
  PROVE  LET places == StatsPlaces(0, I64Max)
         IN  /\ Quantile(places, 50) <= Quantile(places, 95)
             /\ Quantile(places, 95) <= Quantile(places, 99)
             /\ Quantile(places, 99) > 0 /\ Quantile(places, 99) >= 100 * BlockedNs =>
                  SlowerThan(BlockedNs) > 0
<1> DEFINE places == StatsPlaces(0, I64Max)
           v == Quantile(places, 99)
           slow == {i \in 1..Len(df) : ~IsHub(df[i]) /\ df[i].dur >= BlockedNs}
<1>1. places \in SUBSET (1..Len(df)) /\ \A i \in places : ~IsHub(df[i])
  BY DEF StatsPlaces
<1> HIDE DEF places
<1>2. /\ Quantile(places, 50) <= Quantile(places, 95)
      /\ Quantile(places, 95) <= v
      /\ v \in Nat
      /\ v > 0 => \E i \in places : v <= 100 * df[i].dur
  BY <1>1, QuantilesAre
<1>3. ASSUME v > 0, v >= 100 * BlockedNs PROVE SlowerThan(BlockedNs) > 0
  <2>1. PICK i \in places : v <= 100 * df[i].dur
    BY <1>2, <1>3
  <2>2. df[i].dur \in Nat /\ BlockedNs \in Nat
    BY <1>1, DursTyped, ReportsAssumption
  <2>3. df[i].dur >= BlockedNs
    BY <1>2, <1>3, <2>1, <2>2
  <2>4. i \in slow
    BY <1>1, <2>3
  <2>5. slow \in SUBSET (1..Len(df))
    OBVIOUS
  <2>6. IsFiniteSet(slow) /\ Cardinality(slow) \in Nat
    BY <2>5, PlacesFinite
  <2>7. Cardinality(slow) # 0
    BY <2>4, <2>6, FS_EmptySet
  <2>8. QED  BY <2>6, <2>7 DEF SlowerThan
<1>4. QED  BY <1>2, <1>3 DEF places

-----------------------------------------------------------------------------
(* The totals of a report. *)

\* The places a greenlet's group takes.
GroupPlaces(gid) == {i \in 1..Len(df) : df[i].gid = gid}
GroupOf(gid) ==
  [gid |-> gid, run |-> RunOf(GroupPlaces(gid)), executions |-> Cardinality(GroupPlaces(gid))]

LEMMA GroupsAre ==
  ASSUME IInv
  PROVE  LET K == TrackRuns(1..Len(df))
             part == [g \in K |-> GroupPlaces(g.gid)]
         IN  /\ IsFiniteSet(K) /\ Groups(part, K, 1..Len(df))
             /\ UNION {part[g] : g \in K} = 1..Len(df)
             /\ \A g \in K : g.run = RunOf(part[g]) /\ g.executions = Cardinality(part[g])
<1> DEFINE K == TrackRuns(1..Len(df))
           part == [g \in K |-> GroupPlaces(g.gid)]
           of == [i \in 1..Len(df) |-> GroupOf(df[i].gid)]
<1>1. K = {GroupOf(df[i].gid) : i \in 1..Len(df)}
  BY DEF TrackRuns, GroupOf, GroupPlaces
<1>2. IsFiniteSet(1..Len(df))
  BY PlacesFinite
<1>3. IsFiniteSet(K)
  <2>1. of \in [1..Len(df) -> K] /\ \A g \in K : \E i \in 1..Len(df) : of[i] = g
    <3> HIDE DEF K
    <3>1. QED  BY <1>1
  <2> HIDE DEF of, K
  <2>2. of \in Surjection(1..Len(df), K)
    BY <2>1, Fun_IsSurj
  <2>3. QED  BY <1>2, <2>2, FS_Surjection
<1>4. ASSUME NEW g \in K
      PROVE  /\ g = GroupOf(g.gid) /\ g.run = RunOf(GroupPlaces(g.gid))
             /\ g.executions = Cardinality(GroupPlaces(g.gid))
  <2>1. PICK gid : g = GroupOf(gid)
    BY <1>1
  <2>2. /\ g.gid = gid /\ g.run = RunOf(GroupPlaces(gid))
        /\ g.executions = Cardinality(GroupPlaces(gid))
    BY <2>1 DEF GroupOf
  <2>3. QED  BY <2>1, <2>2
<1> HIDE DEF K
<1>5. Groups(part, K, 1..Len(df))
  <2>1. part \in [K -> SUBSET (1..Len(df))]
    BY DEF GroupPlaces
  <2>2. ASSUME NEW g \in K, NEW h \in K, g # h PROVE part[g] \cap part[h] = {}
    <3>1. g.gid # h.gid
      BY <1>4, <2>2
    <3>2. QED  BY <3>1 DEF GroupPlaces
  <2> HIDE DEF part
  <2>3. QED  BY <2>1, <2>2 DEF Groups
<1>6. UNION {part[g] : g \in K} = 1..Len(df)
  <2>1. \A g \in K : part[g] \subseteq 1..Len(df)
    BY DEF GroupPlaces
  <2>2. ASSUME NEW i \in 1..Len(df) PROVE \E g \in K : i \in part[g]
    <3>1. GroupOf(df[i].gid) \in K /\ GroupOf(df[i].gid).gid = df[i].gid
      BY <1>1 DEF GroupOf
    <3>2. i \in part[GroupOf(df[i].gid)]
      BY <3>1 DEF GroupPlaces
    <3>3. QED  BY <3>1, <3>2
  <2> HIDE DEF part
  <2>3. QED  BY <2>1, <2>2
<1>7. \A g \in K : part[g] = GroupPlaces(g.gid)
  OBVIOUS
<1> HIDE DEF part
<1>8. QED  BY <1>3, <1>4, <1>5, <1>6, <1>7 DEF K, part

\* The groups' run times add up to the hubs' and the others', their executions to
\* the rows held.
LEMMA TotalsAgree ==
  ASSUME IInv
  PROVE  LET K == TrackRuns(1..Len(df))
         IN  /\ SumFunction([g \in K |-> g.run]) =
                  RunOf({i \in 1..Len(df) : IsHub(df[i])}) + RunOf({i \in 1..Len(df) : ~IsHub(df[i])})
             /\ SumFunction([g \in K |-> g.executions]) = Len(df)
<1> DEFINE S == 1..Len(df)
           K == TrackRuns(1..Len(df))
           part == [g \in K |-> GroupPlaces(g.gid)]
           dur == [i \in S |-> df[i].dur]
           runs == [T \in SUBSET S |-> SumFunction([x \in T |-> dur[x]])]
           sizes == [T \in SUBSET S |-> Cardinality(T)]
           hubs == {i \in S : IsHub(df[i])}
           others == {i \in S : ~IsHub(df[i])}
<1>1. IsFiniteSet(S) /\ Len(df) \in Nat
  BY PlacesFinite
<1>2. dur \in [S -> Nat] /\ \A i \in S : dur[i] = df[i].dur
  BY DursTyped
<1>3. /\ IsFiniteSet(K) /\ Groups(part, K, S) /\ UNION {part[g] : g \in K} = S
      /\ \A g \in K : g.run = RunOf(part[g]) /\ g.executions = Cardinality(part[g])
  BY GroupsAre
<1>4. hubs \in SUBSET S /\ others \in SUBSET S /\ hubs \cap others = {} /\ hubs \cup others = S
  OBVIOUS
<1> HIDE DEF K, part, hubs, others
<1>5. \A T \in SUBSET S : runs[T] = RunOf(T)
  <2>1. ASSUME NEW T \in SUBSET S PROVE runs[T] = RunOf(T)
    <3>1. [x \in T |-> dur[x]] = [i \in T |-> df[i].dur]
      BY <1>2
    <3> HIDE DEF dur
    <3>2. QED  BY <3>1 DEF RunOf
  <2>2. QED  BY <2>1
<1>6. \A T \in SUBSET S : sizes[T] = Cardinality(T)
  OBVIOUS
<1>7. Additive(runs, S)
  <2> HIDE DEF dur, S
  <2>1. QED  BY <1>1, <1>2, RunsAdd
<1>8. Additive(sizes, S)
  <2> HIDE DEF S
  <2>1. QED  BY <1>1, SizesAdd
<1>9. part \in [K -> SUBSET S]
  BY <1>3 DEF Groups
<1> HIDE DEF runs, sizes
<1>10. SumFunction([g \in K |-> g.run]) = runs[S]
  <2>1. [g \in K |-> g.run] = [g \in K |-> runs[part[g]]]
    BY <1>3, <1>5, <1>9
  <2>2. SumFunction([g \in K |-> runs[part[g]]]) = runs[UNION {part[g] : g \in K}]
    <3> HIDE DEF S
    <3>1. AddsUp(runs, part, K)
      BY <1>3, <1>7, GroupsAdd
    <3>2. QED  BY <3>1 DEF AddsUp
  <2>3. QED  BY <1>3, <2>1, <2>2
<1>11. SumFunction([g \in K |-> g.executions]) = sizes[S]
  <2>1. [g \in K |-> g.executions] = [g \in K |-> sizes[part[g]]]
    BY <1>3, <1>6, <1>9
  <2>2. SumFunction([g \in K |-> sizes[part[g]]]) = sizes[UNION {part[g] : g \in K}]
    <3> HIDE DEF S
    <3>1. AddsUp(sizes, part, K)
      BY <1>3, <1>8, GroupsAdd
    <3>2. QED  BY <3>1 DEF AddsUp
  <2>3. QED  BY <1>3, <2>1, <2>2
<1>12. runs[S] = RunOf(hubs) + RunOf(others)
  <2>1. runs[hubs \cup others] = runs[hubs] + runs[others]
    BY <1>4, <1>7 DEF Additive
  <2>2. QED  BY <1>4, <1>5, <2>1
<1>13. sizes[S] = Len(df)
  <2>1. Cardinality(1..Len(df)) = Len(df)
    BY <1>1, FS_Interval
  <2>2. sizes[S] = Cardinality(S)
    BY <1>6
  <2>3. QED  BY <2>1, <2>2
<1>14. QED  BY <1>10, <1>11, <1>12, <1>13 DEF K, hubs, others

\* No greenlet left out ran longer than one shown.
LEMMA GreenletsAre ==
  ASSUME IInv, NEW top \in Nat, NEW shown \in TopGreenlets(top), NEW g \in TrackRuns(1..Len(df)),
         Len(shown) = top, NEW i \in 1..top
  PROVE  shown[i].run >= g.run \/ \E j \in 1..i : shown[j] = g
<1> DEFINE K == TrackRuns(1..Len(df))
           n == Cardinality(K)
<1>1. n \in Nat
  <2>1. IsFiniteSet(K)
    BY GroupsAre
  <2>2. QED  BY <2>1, FS_CardinalityType
<1>2. PICK s \in Orders(K) : /\ shown = Prefix(s, top)
                             /\ \A a, b \in DOMAIN s : a < b => s[a].run >= s[b].run
  BY DEF TopGreenlets
<1>3. s \in [1..n -> K] /\ \A x \in K : \E a \in 1..n : s[a] = x
  BY <1>2 DEF Orders
<1> HIDE DEF K, n
<1>4. s \in Seq(K) /\ Len(s) = n
  BY <1>1, <1>3, SequenceOf
<1>5. /\ top <= n
      /\ \A a \in 1..top : shown[a] = s[a]
  BY <1>1, <1>2, <1>4 DEF Prefix, Smaller
<1>6. PICK k \in 1..n : s[k] = g
  BY <1>3 DEF K
<1>7. CASE k <= i
  BY <1>1, <1>5, <1>6, <1>7
<1>8. CASE i < k
  <2>1. i \in DOMAIN s /\ k \in DOMAIN s
    BY <1>1, <1>3, <1>5
  <2>2. s[i].run >= s[k].run
    BY <1>2, <1>8, <2>1
  <2>3. QED  BY <1>5, <1>6, <2>2
<1>9. QED  BY <1>1, <1>7, <1>8

\* The longest of the slow rows is blocked exactly when there is a blocked row.
LEMMA SlowestIs ==
  ASSUME IInv, LongNs <= BlockedNs, NEW top \in Nat \ {0}, NEW page \in SlowPages("all", TRUE, top)
  PROVE  SlowerThan(BlockedNs) > 0 <=> page # << >> /\ Level(page[1]) = 2
<1> DEFINE places == TierPlaces("all")
           slow == {i \in 1..Len(df) : ~IsHub(df[i]) /\ df[i].dur >= BlockedNs}
           longer == {i \in places : Key(TRUE, df[i]) > Key(TRUE, page[1])}
<1>1. /\ places = {i \in 1..Len(df) : ~IsHub(df[i]) /\ df[i].dur >= LongNs}
      /\ \A i \in 1..Len(df) : df[i].dur \in Nat
      /\ LongNs \in Nat /\ BlockedNs \in Nat
  BY TiersAre, DursTyped, ReportsAssumption
<1>2. slow \in SUBSET places /\ places \in SUBSET (1..Len(df))
  BY <1>1
<1>3. /\ IsFiniteSet(slow) /\ Cardinality(slow) \in Nat
      /\ IsFiniteSet(places) /\ Cardinality(places) \in Nat
      /\ IsFiniteSet(longer) /\ Cardinality(longer) \in Nat
  <2>1. slow \in SUBSET (1..Len(df)) /\ places \in SUBSET (1..Len(df)) /\ longer \in SUBSET (1..Len(df))
    BY <1>2
  <2> HIDE DEF slow, places, longer
  <2>2. QED  BY <2>1, PlacesFinite
<1>4. SlowerThan(BlockedNs) > 0 <=> slow # {}
  <2>1. SlowerThan(BlockedNs) = Cardinality(slow)
    BY DEF SlowerThan
  <2>2. Cardinality(slow) = 0 <=> slow = {}
    BY <1>3, FS_EmptySet
  <2> HIDE DEF slow
  <2>3. QED  BY <1>3, <2>1, <2>2
<1>5. PICK s \in Descending(TRUE, places) : page = FirstRows(s, top)
  BY DEF SlowPages
<1>6. Len(page) = Smaller(top, Cardinality(places)) /\ ShowsHighest(page, TRUE, places)
  <2>1. /\ IInv /\ places \in SUBSET (1..Len(df)) /\ TRUE \in BOOLEAN /\ top \in Nat
        /\ s \in Descending(TRUE, places)
    BY <1>2, <1>5
  <2> HIDE DEF places
  <2>2. QED  BY ONLY <1>5, <2>1, PageIs
<1>7. page # << >> <=> places # {}
  <2>1. Cardinality(places) = 0 <=> places = {}
    BY <1>3, FS_EmptySet
  <2>2. page # << >> <=> Len(page) # 0
    <3>1. page = [k \in 1..Smaller(Len(s), top) |-> df[s[k]]]
      BY <1>5 DEF FirstRows
    <3>2. s \in [1..Cardinality(places) -> places]
      BY <1>5 DEF Descending, Orders
    <3>3. Len(s) = Cardinality(places) /\ Smaller(Len(s), top) \in Nat
      <4> HIDE DEF places
      <4>1. Len(s) = Cardinality(places)
        BY <1>3, <3>2
      <4>2. QED  BY <1>3, <4>1 DEF Smaller
    <3>4. QED  BY <3>1, <3>3
  <2> HIDE DEF places
  <2>3. QED  BY <1>3, <1>6, <2>1, <2>2 DEF Smaller
<1>8. CASE places = {}
  BY <1>2, <1>4, <1>7, <1>8
<1>9. CASE places # {}
  <2>1. 1 \in 1..Len(page)
    <3>1. Cardinality(places) # 0
      BY <1>3, <1>9, FS_EmptySet
    <3> HIDE DEF places
    <3>2. QED  BY <1>3, <1>6, <3>1 DEF Smaller
  <2>2. PICK i \in places : page[1] = df[i]
    BY <1>6, <2>1 DEF ShowsHighest
  <2>3. longer = {}
    <3>1. Cardinality(longer) < 1
      BY <1>6, <2>1 DEF ShowsHighest
    <3> HIDE DEF longer
    <3>2. Cardinality(longer) = 0
      BY <1>3, <3>1
    <3>3. QED  BY <1>3, <3>2, FS_EmptySet
  <2>4. \A j \in places : df[j].dur <= df[i].dur
    BY <1>1, <2>2, <2>3 DEF Key
  <2>5. slow # {} <=> df[i].dur >= BlockedNs
    <3>1. ASSUME NEW j \in slow PROVE df[i].dur >= BlockedNs
      BY <1>1, <2>2, <2>4
    <3>2. df[i].dur >= BlockedNs => i \in slow
      BY <1>1, <2>2
    <3> HIDE DEF slow
    <3>3. QED  BY <3>1, <3>2
  <2>6. Level(page[1]) = 2 <=> df[i].dur >= BlockedNs
    BY <2>2 DEF Level
  <2>7. QED  BY <1>4, <1>7, <1>9, <2>5, <2>6
<1>10. QED  BY <1>8, <1>9

LEMMA ReportIs == IInv => ReportAgrees
<1> SUFFICES ASSUME IInv, LongNs <= BlockedNs, NEW top \in Caps
             PROVE  LET r == Analyze(top)
                        s == r.summary
                        groups == TrackRuns(1..Len(df))
                    IN  /\ SumFunction([g \in groups |-> g.run]) = s.hubRun + s.nonHubRun
                        /\ SumFunction([g \in groups |-> g.executions]) = Len(df)
                        /\ \A shown \in s.topGreenlets, g \in groups :
                             Len(shown) = top => \A i \in 1..top : shown[i].run >= g.run
                                                                 \/ \E j \in 1..i : shown[j] = g
                        /\ top > 0 => \A slowest \in r.slowest :
                             s.blockedCount > 0 <=> slowest # << >> /\ Level(slowest[1]) = 2
                        /\ r.p50 <= r.p95 /\ r.p95 <= r.p99
                        /\ r.p99 > 0 /\ r.p99 >= 100 * BlockedNs => s.blockedCount > 0
  BY DEF ReportAgrees
<1> DEFINE r == Analyze(top)
           s == r.summary
           K == TrackRuns(1..Len(df))
<1>1. /\ s.hubRun = RunOf({i \in 1..Len(df) : IsHub(df[i])})
      /\ s.nonHubRun = RunOf({i \in 1..Len(df) : ~IsHub(df[i])})
      /\ s.blockedCount = SlowerThan(BlockedNs) /\ s.topGreenlets = TopGreenlets(top)
      /\ r.slowest = SlowPages("all", TRUE, top)
      /\ r.p50 = Quantile(StatsPlaces(0, I64Max), 50)
      /\ r.p95 = Quantile(StatsPlaces(0, I64Max), 95)
      /\ r.p99 = Quantile(StatsPlaces(0, I64Max), 99)
  BY DEF Analyze, Summary
<1> HIDE DEF r, s
<1>2. top \in Nat
  BY TimelineAssumption
<1>3. /\ SumFunction([g \in K |-> g.run]) = s.hubRun + s.nonHubRun
      /\ SumFunction([g \in K |-> g.executions]) = Len(df)
  <2>1. /\ SumFunction([g \in K |-> g.run]) =
             RunOf({i \in 1..Len(df) : IsHub(df[i])}) + RunOf({i \in 1..Len(df) : ~IsHub(df[i])})
        /\ SumFunction([g \in K |-> g.executions]) = Len(df)
    BY TotalsAgree
  <2>2. QED  BY <1>1, <2>1
<1>4. ASSUME NEW shown \in s.topGreenlets, NEW g \in K, Len(shown) = top, NEW i \in 1..top
      PROVE  shown[i].run >= g.run \/ \E j \in 1..i : shown[j] = g
  BY <1>1, <1>2, <1>4, GreenletsAre
<1>5. ASSUME top > 0, NEW slowest \in r.slowest
      PROVE  s.blockedCount > 0 <=> slowest # << >> /\ Level(slowest[1]) = 2
  <2>1. top \in Nat \ {0}
    BY <1>2, <1>5
  <2>2. slowest \in SlowPages("all", TRUE, top)
    BY ONLY <1>1, <1>5
  <2>3. SlowerThan(BlockedNs) > 0 <=> slowest # << >> /\ Level(slowest[1]) = 2
    BY <2>1, <2>2, SlowestIs
  <2>4. QED  BY ONLY <1>1, <2>3
<1>6. /\ r.p50 <= r.p95 /\ r.p95 <= r.p99
      /\ r.p99 > 0 /\ r.p99 >= 100 * BlockedNs => s.blockedCount > 0
  BY <1>1, PercentilesAre
<1>7. QED  BY <1>3, <1>4, <1>5, <1>6 DEF r, s

\* The figures of a report, each computed by a query of its own (summary, slowlog,
\* stats, put together by analyze), do not contradict one another.
THEOREM ReportIsConsistent == Spec => []ReportAgrees
  BY ReportIs, Invariance, PTL
=============================================================================
