----------------------------- MODULE HookProofs ------------------------------
(***************************************************************************)
(* Machine-checked theorems about Hook: what the socket has carried, which *)
(* pauses are lost, how far a buffer grows and what is left in the target, *)
(* for any number of sessions, switches and pauses.                        *)
(***************************************************************************)
EXTENDS Hook, TLAPS, SequenceTheorems

-----------------------------------------------------------------------------
(* Frames and what a send passes on. *)

LEMMA WholesType ==
  ASSUME NEW b \in Seq(Frame)
  PROVE  /\ Wholes(b) \in Seq(Sent) /\ Len(Wholes(b)) = Len(b)
         /\ \A i \in 1..Len(b) : Wholes(b)[i] = Whole(b[i])
<1>1. \A i \in 1..Len(b) : Whole(b[i]) \in Sent
  BY ElementOfSeq DEF Whole, Sent
<1>2. Wholes(b) \in [1..Len(b) -> Sent] /\ Len(b) \in Nat
  BY <1>1, LenProperties DEF Wholes
<1>3. QED  BY <1>2 DEF Wholes

LEMMA WholesConcat ==
  ASSUME NEW a \in Seq(Frame), NEW b \in Seq(Frame)
  PROVE  Wholes(a \o b) = Wholes(a) \o Wholes(b)
<1>1. a \o b \in Seq(Frame) /\ Len(a \o b) = Len(a) + Len(b)
  BY ConcatProperties
<1>2. /\ Wholes(a \o b) \in Seq(Sent) /\ Len(Wholes(a \o b)) = Len(a) + Len(b)
      /\ \A i \in 1..(Len(a) + Len(b)) : Wholes(a \o b)[i] = Whole((a \o b)[i])
  BY <1>1, WholesType
<1>3. /\ Wholes(a) \o Wholes(b) \in Seq(Sent)
      /\ Len(Wholes(a) \o Wholes(b)) = Len(a) + Len(b)
      /\ \A i \in 1..(Len(a) + Len(b)) :
           (Wholes(a) \o Wholes(b))[i] = IF i <= Len(a) THEN Wholes(a)[i] ELSE Wholes(b)[i - Len(a)]
  <2> DEFINE x == Wholes(a)  y == Wholes(b)
  <2>1. x \in Seq(Sent) /\ y \in Seq(Sent) /\ Len(x) = Len(a) /\ Len(y) = Len(b)
    BY WholesType
  <2> HIDE DEF x, y
  <2>2. /\ x \o y \in Seq(Sent) /\ Len(x \o y) = Len(x) + Len(y)
        /\ \A i \in 1..(Len(x) + Len(y)) :
             (x \o y)[i] = IF i <= Len(x) THEN x[i] ELSE y[i - Len(x)]
    BY <2>1, ConcatProperties
  <2>3. QED  BY <2>1, <2>2 DEF x, y
<1>4. ASSUME NEW i \in 1..(Len(a) + Len(b))
      PROVE  Wholes(a \o b)[i] = (Wholes(a) \o Wholes(b))[i]
  <2>1. Len(a) \in Nat /\ Len(b) \in Nat
    BY LenProperties
  <2>2. (a \o b)[i] = IF i <= Len(a) THEN a[i] ELSE b[i - Len(a)]
    BY ConcatProperties
  <2>3. CASE i <= Len(a)
    BY <2>1, <2>2, <2>3, <1>2, <1>3, WholesType
  <2>4. CASE ~(i <= Len(a))
    <3>1. i - Len(a) \in 1..Len(b)
      BY <2>1, <2>4
    <3>2. Wholes(b)[i - Len(a)] = Whole(b[i - Len(a)])
      BY <3>1, WholesType
    <3>3. QED  BY <2>2, <2>4, <3>2, <1>2, <1>3
  <2>5. QED  BY <2>3, <2>4
<1>5. QED  BY <1>2, <1>3, <1>4, SeqEqual

\* The front of a sequence that goes on, and where it goes on.
LEMMA FrontOfConcat ==
  ASSUME NEW t \in Seq(Frame), NEW fs \in Seq(Frame), NEW k \in 0..Len(t)
  PROVE  /\ t \o fs \in Seq(Frame) /\ Len(t \o fs) = Len(t) + Len(fs)
         /\ SubSeq(t \o fs, 1, k) = SubSeq(t, 1, k)
         /\ SubSeq(t \o fs, k + 1, Len(t \o fs)) = SubSeq(t, k + 1, Len(t)) \o fs
         /\ k < Len(t) => (t \o fs)[k + 1] = t[k + 1]
<1>1. /\ Len(t) \in Nat /\ Len(fs) \in Nat
      /\ t \o fs \in Seq(Frame) /\ Len(t \o fs) = Len(t) + Len(fs)
      /\ \A i \in 1..(Len(t) + Len(fs)) :
           (t \o fs)[i] = IF i <= Len(t) THEN t[i] ELSE fs[i - Len(t)]
  BY ConcatProperties, LenProperties
<1>2. \A i \in 1..Len(t) : t[i] \in Frame
  BY ElementOfSeq
<1>3. \A i \in 1..(Len(t) + Len(fs)) : (t \o fs)[i] \in Frame
  BY <1>1, ElementOfSeq
<1>4. SubSeq(t \o fs, 1, k) = SubSeq(t, 1, k)
  <2>1. /\ SubSeq(t, 1, k) \in Seq(Frame) /\ Len(SubSeq(t, 1, k)) = k
        /\ \A i \in 1..k : SubSeq(t, 1, k)[i] = t[i]
    BY <1>1, <1>2, SubSeqProperties
  <2>2. /\ SubSeq(t \o fs, 1, k) \in Seq(Frame) /\ Len(SubSeq(t \o fs, 1, k)) = k
        /\ \A i \in 1..k : SubSeq(t \o fs, 1, k)[i] = (t \o fs)[i]
    BY <1>1, <1>3, SubSeqProperties
  <2>3. \A i \in 1..k : (t \o fs)[i] = t[i]
    BY <1>1
  <2>4. QED  BY <2>1, <2>2, <2>3, SeqEqual
<1>5. SubSeq(t \o fs, k + 1, Len(t \o fs)) = SubSeq(t, k + 1, Len(t)) \o fs
  <2> DEFINE rest == SubSeq(t, k + 1, Len(t))
             all == SubSeq(t \o fs, k + 1, Len(t \o fs))
  <2>1. /\ rest \in Seq(Frame) /\ Len(rest) = Len(t) - k
        /\ \A i \in 1..(Len(t) - k) : rest[i] = t[k + i]
    BY <1>1, <1>2, SubSeqProperties
  <2>2. /\ all \in Seq(Frame) /\ Len(all) = Len(t) + Len(fs) - k
        /\ \A i \in 1..(Len(t) + Len(fs) - k) : all[i] = (t \o fs)[k + i]
    BY <1>1, <1>3, SubSeqProperties
  <2> HIDE DEF rest, all
  <2>3. /\ rest \o fs \in Seq(Frame) /\ Len(rest \o fs) = Len(t) - k + Len(fs)
        /\ \A i \in 1..(Len(t) - k + Len(fs)) :
             (rest \o fs)[i] = IF i <= Len(t) - k THEN rest[i] ELSE fs[i - (Len(t) - k)]
    <3>1. /\ rest \o fs \in Seq(Frame) /\ Len(rest \o fs) = Len(rest) + Len(fs)
          /\ \A i \in 1..(Len(rest) + Len(fs)) :
               (rest \o fs)[i] = IF i <= Len(rest) THEN rest[i] ELSE fs[i - Len(rest)]
      BY <2>1, ConcatProperties
    <3>2. QED  BY <2>1, <3>1
  <2>4. ASSUME NEW i \in 1..(Len(t) + Len(fs) - k) PROVE all[i] = (rest \o fs)[i]
    <3>1. k + i \in 1..(Len(t) + Len(fs)) /\ i \in 1..(Len(t) - k + Len(fs))
      BY <1>1
    <3>2. all[i] = IF k + i <= Len(t) THEN t[k + i] ELSE fs[k + i - Len(t)]
      BY <3>1, <2>2, <1>1, SMTT(60)
    <3>3. CASE i <= Len(t) - k
      BY <3>1, <3>2, <3>3, <2>1, <2>3, <1>1
    <3>4. CASE ~(i <= Len(t) - k)
      <4>1. ~(k + i <= Len(t)) /\ k + i - Len(t) = i - (Len(t) - k)
        BY <3>4, <1>1
      <4>2. QED  BY <3>1, <3>2, <3>4, <4>1, <2>3
    <3>5. QED  BY <3>3, <3>4
  <2>5. Len(all) = Len(rest \o fs)
    BY <2>2, <2>3, <1>1
  <2>6. QED  BY <2>2, <2>3, <2>4, <2>5, SeqEqual DEF rest, all
<1>6. k < Len(t) => (t \o fs)[k + 1] = t[k + 1]
  BY <1>1
<1>7. QED  BY <1>1, <1>4, <1>5, <1>6

\* Encoding more frames into the buffer.
LEMMA CarriedGrows ==
  ASSUME NEW t \in Seq(Frame), NEW fs \in Seq(Frame), NEW w, NEW b, NEW o \in BOOLEAN,
         Carried(t, w, b, o)
  PROVE  Carried(t \o fs, w, b \o fs, o)
<1>1. PICK k \in 0..Len(t) :
        \/ /\ w = Wholes(SubSeq(t, 1, k))
           /\ o => b = SubSeq(t, k + 1, Len(t))
        \/ ~o /\ k < Len(t) /\ w = Append(Wholes(SubSeq(t, 1, k)), Piece(t[k + 1]))
  BY DEF Carried
<1>2. /\ SubSeq(t \o fs, 1, k) = SubSeq(t, 1, k)
      /\ SubSeq(t \o fs, k + 1, Len(t \o fs)) = SubSeq(t, k + 1, Len(t)) \o fs
      /\ k < Len(t) => (t \o fs)[k + 1] = t[k + 1]
      /\ Len(t \o fs) = Len(t) + Len(fs) /\ Len(t) \in Nat /\ Len(fs) \in Nat
  BY FrontOfConcat, LenProperties
<1>3. k \in 0..Len(t \o fs) /\ (k < Len(t) => k < Len(t \o fs))
  BY <1>2
<1>4. \/ /\ w = Wholes(SubSeq(t \o fs, 1, k))
         /\ o => b \o fs = SubSeq(t \o fs, k + 1, Len(t \o fs))
      \/ ~o /\ k < Len(t \o fs)
         /\ w = Append(Wholes(SubSeq(t \o fs, 1, k)), Piece((t \o fs)[k + 1]))
  BY <1>1, <1>2, <1>3
<1>5. QED  BY <1>3, <1>4 DEF Carried

\* A collector that has gone: whatever the buffer holds.
LEMMA CarriedToNobody ==
  ASSUME NEW t, NEW w, NEW b, NEW c, NEW o \in BOOLEAN, Carried(t, w, b, o)
  PROVE  Carried(t, w, c, FALSE)
BY DEF Carried

\* A send that goes through.
LEMMA CarriedSent ==
  ASSUME NEW t \in Seq(Frame), NEW w, NEW b, Carried(t, w, b, TRUE)
  PROVE  Carried(t, w \o Wholes(b), << >>, TRUE)
<1>1. PICK k \in 0..Len(t) : w = Wholes(SubSeq(t, 1, k)) /\ b = SubSeq(t, k + 1, Len(t))
  BY DEF Carried
<1>2. \A i \in 1..Len(t) : t[i] \in Frame
  BY ElementOfSeq
<1>3. Len(t) \in Nat
  BY LenProperties
<1>4. SubSeq(t, 1, k) \in Seq(Frame) /\ SubSeq(t, k + 1, Len(t)) \in Seq(Frame)
  BY <1>2, <1>3, SubSeqProperties
<1>5. SubSeq(t, 1, k) \o SubSeq(t, k + 1, Len(t)) = SubSeq(t, 1, Len(t))
  <2>1. 1 \in 1..(Len(t) + 1) /\ k \in (1 - 1)..Len(t) /\ Len(t) \in k..Len(t)
    BY <1>3
  <2>2. QED  BY <2>1, ConcatAdjacentSubSeq, Zenon
<1>6. w \o Wholes(b) = Wholes(SubSeq(t, 1, Len(t)))
  BY <1>1, <1>4, <1>5, WholesConcat
<1>7. SubSeq(t, Len(t) + 1, Len(t)) = << >>
  BY <1>3, SubSeqEmpty
<1>8. QED  BY <1>3, <1>6, <1>7 DEF Carried

\* A send that fails half way while the collector goes.
LEMMA CarriedPart ==
  ASSUME NEW t \in Seq(Frame), NEW w, NEW b, NEW c, Carried(t, w, b, TRUE),
         NEW p \in Parts(b)
  PROVE  Carried(t, w \o p, c, FALSE)
<1>1. PICK k \in 0..Len(t) : w = Wholes(SubSeq(t, 1, k)) /\ b = SubSeq(t, k + 1, Len(t))
  BY DEF Carried
<1>2. \A i \in 1..Len(t) : t[i] \in Frame
  BY ElementOfSeq
<1>3. Len(t) \in Nat
  BY LenProperties
<1>4. /\ b \in Seq(Frame) /\ Len(b) = Len(t) - k
      /\ \A i \in 1..(Len(t) - k) : b[i] = t[k + i]
      /\ SubSeq(t, 1, k) \in Seq(Frame)
  BY <1>1, <1>2, <1>3, SubSeqProperties
<1>5. PICK j \in 0..(Len(b) - 1) :
        \/ p = Wholes(SubSeq(b, 1, j))
        \/ p = Append(Wholes(SubSeq(b, 1, j)), Piece(b[j + 1]))
  BY DEF Parts
<1>6. k + j \in 0..Len(t) /\ k + j < Len(t) /\ j \in Nat /\ k \in Nat
  BY <1>3, <1>4, <1>5
<1>7. SubSeq(b, 1, j) = SubSeq(t, k + 1, k + j)
  <2>1. /\ SubSeq(b, 1, j) \in Seq(Frame) /\ Len(SubSeq(b, 1, j)) = j
        /\ \A i \in 1..j : SubSeq(b, 1, j)[i] = b[i]
    <3>1. \A i \in 1..j : b[i] \in Frame
      BY <1>3, <1>4, <1>6, ElementOfSeq
    <3>2. QED  BY <3>1, <1>6, SubSeqProperties
  <2>2. /\ SubSeq(t, k + 1, k + j) \in Seq(Frame) /\ Len(SubSeq(t, k + 1, k + j)) = j
        /\ \A i \in 1..j : SubSeq(t, k + 1, k + j)[i] = t[k + i]
    <3>1. \A i \in (k + 1)..(k + j) : t[i] \in Frame
      BY <1>2, <1>3, <1>6
    <3>2. QED  BY <3>1, <1>6, SubSeqProperties
  <2>3. \A i \in 1..j : b[i] = t[k + i]
    BY <1>3, <1>4, <1>6
  <2>4. QED  BY <2>1, <2>2, <2>3, SeqEqual
<1>8. SubSeq(t, k + 1, k + j) \in Seq(Frame) /\ SubSeq(t, 1, k + j) \in Seq(Frame)
  <2>1. /\ \A i \in (k + 1)..(k + j) : t[i] \in Frame
        /\ \A i \in 1..(k + j) : t[i] \in Frame
    BY <1>2, <1>3, <1>6
  <2>2. QED  BY <2>1, <1>6, SubSeqProperties
<1>9. SubSeq(t, 1, k) \o SubSeq(t, k + 1, k + j) = SubSeq(t, 1, k + j)
  <2>1. 1 \in 1..(Len(t) + 1) /\ k \in (1 - 1)..Len(t) /\ k + j \in k..Len(t)
    BY <1>3, <1>6
  <2>2. QED  BY <2>1, ConcatAdjacentSubSeq
<1>10. w \o Wholes(SubSeq(b, 1, j)) = Wholes(SubSeq(t, 1, k + j))
  BY <1>1, <1>4, <1>7, <1>8, <1>9, WholesConcat
<1>11. CASE p = Wholes(SubSeq(b, 1, j))
  BY <1>6, <1>10, <1>11 DEF Carried
<1>12. CASE p = Append(Wholes(SubSeq(b, 1, j)), Piece(b[j + 1]))
  <2> DEFINE last == Piece(b[j + 1])
             front == Wholes(SubSeq(b, 1, j))
  <2>1. b[j + 1] = t[(k + j) + 1] /\ t[(k + j) + 1] \in Frame
    <3>1. j + 1 \in 1..(Len(t) - k) /\ (k + j) + 1 \in 1..Len(t) /\ k + (j + 1) = (k + j) + 1
      BY <1>3, <1>4, <1>6
    <3>2. QED  BY <3>1, <1>4, <1>2
  <2>2. last \in Sent
    BY <2>1 DEF Piece, Sent
  <2>3. front \in Seq(Sent) /\ w \in Seq(Sent)
    BY <1>1, <1>4, <1>7, <1>8, WholesType
  <2> HIDE DEF last, front
  <2>4. w \o Append(front, last) = Append(w \o front, last)
    BY <2>2, <2>3
  <2>5. w \o p = Append(Wholes(SubSeq(t, 1, k + j)), Piece(t[(k + j) + 1]))
    BY <2>1, <2>4, <1>10, <1>12 DEF last, front
  <2>6. QED  BY <2>5, <1>6 DEF Carried
<1>13. QED  BY <1>5, <1>11, <1>12

\* A hook that has just said hello.
LEMMA CarriedNothing ==
  ASSUME NEW t \in Seq(Frame), NEW o \in BOOLEAN
  PROVE  Carried(t, << >>, t, o)
<1>1. Len(t) \in Nat /\ 0 \in 0..Len(t)
  BY LenProperties
<1>2. SubSeq(t, 1, 0) = << >>
  BY <1>1, SubSeqEmpty
<1>3. Wholes(SubSeq(t, 1, 0)) = << >>
  BY <1>2 DEF Wholes
<1>4. SubSeq(t, 0 + 1, Len(t)) = t
  BY SubSeqFull
<1>5. QED  BY <1>1, <1>3, <1>4 DEF Carried

-----------------------------------------------------------------------------
(* A send that times out, and the last one, which starts over. *)

\* Two pieces of the wire, one after the other.
LEMMA WireParts ==
  ASSUME NEW a \in Seq(Sent), NEW c \in Seq(Sent)
  PROVE  /\ a \o c \in Seq(Sent) /\ Len(a \o c) = Len(a) + Len(c)
         /\ \A i \in 1..Len(a) : (a \o c)[i] = a[i]
         /\ SubSeq(a \o c, Len(a) + 1, Len(a \o c)) = c
         /\ \A k \in 0..Len(a) : SubSeq(a \o c, k + 1, Len(a)) = SubSeq(a, k + 1, Len(a))
<1> DEFINE w == a \o c
<1>1. /\ Len(a) \in Nat /\ Len(c) \in Nat
      /\ w \in Seq(Sent) /\ Len(w) = Len(a) + Len(c)
      /\ \A i \in 1..(Len(a) + Len(c)) : w[i] = IF i <= Len(a) THEN a[i] ELSE c[i - Len(a)]
  BY ConcatProperties, LenProperties
<1> HIDE DEF w
<1>2. /\ \A i \in 1..Len(a) : a[i] \in Sent
      /\ \A i \in 1..Len(w) : w[i] \in Sent
  BY <1>1, ElementOfSeq
<1>3. \A i \in 1..Len(a) : w[i] = a[i]
  BY <1>1
<1>4. SubSeq(w, Len(a) + 1, Len(w)) = c
  <2> DEFINE x == SubSeq(w, Len(a) + 1, Len(w))
  <2>1. /\ x \in Seq(Sent) /\ Len(x) = Len(c)
        /\ \A i \in 1..Len(c) : x[i] = w[Len(a) + i]
    BY <1>1, <1>2, SubSeqProperties
  <2>2. ASSUME NEW i \in 1..Len(c) PROVE w[Len(a) + i] = c[i]
    <3>1. Len(a) + i \in 1..(Len(a) + Len(c)) /\ ~(Len(a) + i <= Len(a)) /\ (Len(a) + i) - Len(a) = i
      BY <1>1
    <3>2. QED  BY <1>1, <3>1
  <2> HIDE DEF x
  <2>3. x = c
    BY <2>1, <2>2, SeqEqual
  <2>4. QED  BY <2>3 DEF x
<1>5. ASSUME NEW k \in 0..Len(a)
      PROVE  SubSeq(w, k + 1, Len(a)) = SubSeq(a, k + 1, Len(a))
  <2> DEFINE x == SubSeq(w, k + 1, Len(a))
             y == SubSeq(a, k + 1, Len(a))
  <2>1. /\ x \in Seq(Sent) /\ Len(x) = Len(a) - k
        /\ \A i \in 1..(Len(a) - k) : x[i] = w[k + i]
    <3>1. \A i \in (k + 1)..Len(a) : w[i] \in Sent
      BY <1>1, <1>2
    <3>2. QED  BY <3>1, <1>1, SubSeqProperties
  <2>2. /\ y \in Seq(Sent) /\ Len(y) = Len(a) - k
        /\ \A i \in 1..(Len(a) - k) : y[i] = a[k + i]
    <3>1. \A i \in (k + 1)..Len(a) : a[i] \in Sent
      BY <1>1, <1>2
    <3>2. QED  BY <3>1, <1>1, SubSeqProperties
  <2>3. \A i \in 1..(Len(a) - k) : w[k + i] = a[k + i]
    BY <1>1, <1>3
  <2> HIDE DEF x, y
  <2>4. x = y
    BY <2>1, <2>2, <2>3, SeqEqual
  <2>5. QED  BY <2>4 DEF x, y
<1>6. QED  BY <1>1, <1>3, <1>4, <1>5 DEF w

\* What a send passes on, all of it or not, leads its buffer.
LEMMA SendsLead ==
  ASSUME NEW b \in Seq(Frame)
  PROVE  /\ Wholes(b) \in Seq(Sent) /\ LeadingPart(Wholes(b), b)
         /\ \A p \in Parts(b) : p \in Seq(Sent) /\ LeadingPart(p, b)
         /\ << >> \in Seq(Sent) /\ LeadingPart(<< >>, b)
<1>1. Len(b) \in Nat /\ \A i \in 1..Len(b) : b[i] \in Frame
  BY LenProperties, ElementOfSeq
<1>2. \A f : Whole(f).frame = f /\ Whole(f).whole = TRUE /\ Piece(f).frame = f
  BY DEF Whole, Piece
<1>3. Wholes(b) \in Seq(Sent) /\ LeadingPart(Wholes(b), b)
  <2> DEFINE x == Wholes(b)
  <2>1. x \in Seq(Sent) /\ Len(x) = Len(b) /\ \A i \in 1..Len(b) : x[i] = Whole(b[i])
    BY WholesType
  <2> HIDE DEF x
  <2>2. x \in Seq(Sent) /\ LeadingPart(x, b)
    BY <1>1, <1>2, <2>1 DEF LeadingPart
  <2>3. QED  BY <2>2 DEF x
<1>4. ASSUME NEW p \in Parts(b) PROVE p \in Seq(Sent) /\ LeadingPart(p, b)
  <2>1. PICK j \in 0..(Len(b) - 1) :
          \/ p = Wholes(SubSeq(b, 1, j))
          \/ p = Append(Wholes(SubSeq(b, 1, j)), Piece(b[j + 1]))
    BY DEF Parts
  <2> DEFINE x == Wholes(SubSeq(b, 1, j))
             last == Piece(b[j + 1])
  <2>2. /\ SubSeq(b, 1, j) \in Seq(Frame) /\ Len(SubSeq(b, 1, j)) = j
        /\ \A i \in 1..j : SubSeq(b, 1, j)[i] = b[i]
    <3>1. \A i \in 1..j : b[i] \in Frame
      BY <1>1
    <3>2. QED  BY <3>1, <1>1, SubSeqProperties
  <2>3. x \in Seq(Sent) /\ Len(x) = j /\ \A i \in 1..j : x[i] = Whole(b[i])
    BY <2>2, WholesType
  <2>4. last \in Sent /\ last.frame = b[j + 1] /\ j + 1 \in 1..Len(b)
    BY <1>1 DEF Piece, Sent
  <2> HIDE DEF x, last
  <2>5. CASE p = x
    BY <1>1, <1>2, <2>3, <2>5 DEF LeadingPart
  <2>6. CASE p = Append(x, last)
    <3>1. /\ Append(x, last) \in Seq(Sent) /\ Len(Append(x, last)) = j + 1
          /\ \A i \in 1..j : Append(x, last)[i] = x[i]
          /\ Append(x, last)[j + 1] = last
      BY <2>3, <2>4, AppendProperties
    <3>2. ASSUME NEW i \in 1..(j + 1)
          PROVE  p[i].frame = b[i] /\ (i < j + 1 => p[i].whole)
      <4>1. CASE i = j + 1
        BY <2>4, <2>6, <3>1, <4>1
      <4>2. CASE i # j + 1
        <5>1. i \in 1..j
          BY <4>2
        <5>2. p[i] = Whole(b[i])
          BY <2>3, <2>6, <3>1, <5>1
        <5>3. QED  BY <1>2, <5>2
      <4>3. QED  BY <4>1, <4>2
    <3>3. p \in Seq(Sent) /\ Len(p) = j + 1 /\ j + 1 <= Len(b)
      BY <2>4, <2>6, <3>1
    <3>4. QED  BY <3>2, <3>3 DEF LeadingPart
  <2>7. QED  BY <2>1, <2>5, <2>6 DEF x, last
<1>5. << >> \in Seq(Sent) /\ LeadingPart(<< >>, b)
  BY <1>1 DEF LeadingPart
<1>6. QED  BY <1>3, <1>4, <1>5

\* One send has timed out: w is what came before it, and a part of the buffer b.
StalledOnce(t, w, b) ==
  \E k \in 0..Len(t) :
    /\ b = SubSeq(t, k + 1, Len(t)) /\ k <= Len(w)
    /\ \A i \in 1..k : w[i] = Whole(t[i])
    /\ LeadingPart(SubSeq(w, k + 1, Len(w)), b)

\* A send times out.
LEMMA CarriedStalls ==
  ASSUME NEW t \in Seq(Frame), NEW w, NEW b, Carried(t, w, b, TRUE),
         NEW p \in Seq(Sent), LeadingPart(p, b)
  PROVE  StalledOnce(t, w \o p, b)
<1>1. PICK k \in 0..Len(t) : w = Wholes(SubSeq(t, 1, k)) /\ b = SubSeq(t, k + 1, Len(t))
  BY DEF Carried
<1>2. Len(t) \in Nat /\ \A i \in 1..Len(t) : t[i] \in Frame
  BY LenProperties, ElementOfSeq
<1>3. /\ SubSeq(t, 1, k) \in Seq(Frame) /\ Len(SubSeq(t, 1, k)) = k
      /\ \A i \in 1..k : SubSeq(t, 1, k)[i] = t[i]
  <2>1. \A i \in 1..k : t[i] \in Frame
    BY <1>2
  <2>2. QED  BY <1>2, <2>1, SubSeqProperties
<1>4. w \in Seq(Sent) /\ Len(w) = k /\ \A i \in 1..k : w[i] = Whole(t[i])
  BY <1>1, <1>3, WholesType
<1>5. /\ Len(w \o p) = k + Len(p) /\ Len(p) \in Nat
      /\ \A i \in 1..k : (w \o p)[i] = w[i]
      /\ SubSeq(w \o p, k + 1, Len(w \o p)) = p
  BY <1>4, WireParts, LenProperties
<1>6. k <= Len(w \o p)
  BY <1>5
<1>7. QED  BY <1>1, <1>4, <1>5, <1>6 DEF StalledOnce

\* The pauses of the teardown come at the end.
LEMMA StalledGrows ==
  ASSUME NEW t \in Seq(Frame), NEW fs \in Seq(Frame), NEW w \in Seq(Sent), NEW b,
         StalledOnce(t, w, b)
  PROVE  StalledOnce(t \o fs, w, b \o fs)
<1>1. PICK k \in 0..Len(t) :
        /\ b = SubSeq(t, k + 1, Len(t)) /\ k <= Len(w)
        /\ \A i \in 1..k : w[i] = Whole(t[i])
        /\ LeadingPart(SubSeq(w, k + 1, Len(w)), b)
  BY DEF StalledOnce
<1>2. Len(t) \in Nat /\ Len(fs) \in Nat /\ \A i \in 1..Len(t) : t[i] \in Frame
  BY LenProperties, ElementOfSeq
<1>3. /\ Len(t \o fs) = Len(t) + Len(fs)
      /\ SubSeq(t \o fs, k + 1, Len(t \o fs)) = SubSeq(t, k + 1, Len(t)) \o fs
      /\ \A i \in 1..(Len(t) + Len(fs)) : (t \o fs)[i] = IF i <= Len(t) THEN t[i] ELSE fs[i - Len(t)]
  <2>1. \A i \in 1..(Len(t) + Len(fs)) : (t \o fs)[i] = IF i <= Len(t) THEN t[i] ELSE fs[i - Len(t)]
    BY ConcatProperties
  <2>2. QED  BY <2>1, FrontOfConcat
<1>4. k \in 0..Len(t \o fs) /\ \A i \in 1..k : w[i] = Whole((t \o fs)[i])
  BY <1>1, <1>2, <1>3
<1>5. b \in Seq(Frame)
  BY <1>1, <1>2, SubSeqProperties
<1>6. /\ Len(b) \in Nat /\ Len(b \o fs) = Len(b) + Len(fs)
      /\ \A i \in 1..Len(b) : (b \o fs)[i] = b[i]
  BY <1>2, <1>5, ConcatProperties, LenProperties
<1> DEFINE p == SubSeq(w, k + 1, Len(w))
<1>7. LeadingPart(p, b) /\ Len(p) \in Nat
  <2>1. \A i \in (k + 1)..Len(w) : w[i] \in Sent
    BY ElementOfSeq
  <2>2. p \in Seq(Sent)
    BY <2>1, LenProperties, SubSeqProperties
  <2>3. QED  BY <1>1, <2>2, LenProperties
<1> HIDE DEF p
<1>8. Len(p) <= Len(b) /\ \A i \in 1..Len(p) : p[i].frame = b[i] /\ (i < Len(p) => p[i].whole)
  BY <1>7 DEF LeadingPart
<1>9. Len(p) <= Len(b \o fs) /\ \A i \in 1..Len(p) : (b \o fs)[i] = b[i]
  BY <1>2, <1>6, <1>7, <1>8
<1>10. LeadingPart(p, b \o fs)
  BY <1>8, <1>9 DEF LeadingPart
<1>11. QED  BY <1>1, <1>3, <1>4, <1>10 DEF StalledOnce, p

\* The last send, whatever comes of it.
LEMMA StalledThenLast ==
  ASSUME NEW t, NEW w \in Seq(Sent), NEW b, StalledOnce(t, w, b),
         NEW q \in Seq(Sent), LeadingPart(q, b)
  PROVE  Repeats(t, w \o q, TRUE)
<1>1. PICK k \in 0..Len(t) :
        /\ b = SubSeq(t, k + 1, Len(t)) /\ k <= Len(w)
        /\ \A i \in 1..k : w[i] = Whole(t[i])
        /\ LeadingPart(SubSeq(w, k + 1, Len(w)), b)
  BY DEF StalledOnce
<1>2. Len(w) \in Nat /\ Len(q) \in Nat
  BY LenProperties
<1>3. /\ Len(w \o q) = Len(w) + Len(q)
      /\ \A i \in 1..Len(w) : (w \o q)[i] = w[i]
      /\ SubSeq(w \o q, Len(w) + 1, Len(w \o q)) = q
      /\ SubSeq(w \o q, k + 1, Len(w)) = SubSeq(w, k + 1, Len(w))
  <2>1. k \in 0..Len(w)
    BY <1>1, <1>2
  <2>2. QED  BY <2>1, WireParts
<1>4. Len(w) \in k..Len(w \o q) /\ \A i \in 1..k : (w \o q)[i] = Whole(t[i])
  BY <1>1, <1>2, <1>3
<1>5. QED  BY <1>1, <1>3, <1>4, Zenon DEF Repeats

\* Before it.
LEMMA StalledNow ==
  ASSUME NEW t, NEW w \in Seq(Sent), NEW b \in Seq(Frame), StalledOnce(t, w, b)
  PROVE  Repeats(t, w, FALSE) /\ Repeats(t, w, TRUE)
<1>1. PICK k \in 0..Len(t) :
        /\ b = SubSeq(t, k + 1, Len(t)) /\ k <= Len(w)
        /\ \A i \in 1..k : w[i] = Whole(t[i])
        /\ LeadingPart(SubSeq(w, k + 1, Len(w)), b)
  BY DEF StalledOnce
<1>2. Len(w) \in Nat /\ Len(w) \in k..Len(w) /\ SubSeq(w, Len(w) + 1, Len(w)) = << >>
  BY <1>1, LenProperties, SubSeqEmpty
<1>3. LeadingPart(<< >>, b)
  BY SendsLead
<1>4. QED  BY <1>1, <1>2, <1>3, Zenon DEF Repeats

-----------------------------------------------------------------------------
(* What a switch encodes. *)

LEMMA FramesType ==
  ASSUME NEW q \in Seq(Nat)
  PROVE  /\ GcFrames(q) \in Seq(Frame) /\ Len(GcFrames(q)) = Len(q)
         /\ \A i \in 1..Len(q) : GcFrames(q)[i] = GcFrame(q[i])
<1>1. \A i \in 1..Len(q) : GcFrame(q[i]) \in Frame
  BY ElementOfSeq DEF GcFrame, Frame
<1>2. GcFrames(q) \in [1..Len(q) -> Frame] /\ Len(q) \in Nat
  BY <1>1, LenProperties DEF GcFrames
<1>3. QED  BY <1>2 DEF GcFrames

LEMMA EncodedType ==
  ASSUME TypeOK, NEW s \in Sessions
  PROVE  /\ Drained(s) \in Seq(Frame) /\ Event(s) \in Seq(Frame)
         /\ SwitchFrame(switches) \in Frame
         /\ <<Hello>> \in Seq(Frame) /\ Hello \in Frame
<1>1. Drained(s) \in Seq(Frame)
  BY FramesType DEF TypeOK, Drained
<1>2. SwitchFrame(switches) \in Frame /\ Hello \in Frame
  BY DEF TypeOK, SwitchFrame, Hello, Frame
<1>3. QED  BY <1>1, <1>2 DEF Event

\* A send leaves typed state, whatever comes of it.
LEMMA SendTyped ==
  ASSUME TypeOK, NEW s \in Sessions, NEW b \in Seq(Frame), SendAll(s, b) \/ SendFails(s, b)
  PROVE  /\ buf' \in [Sessions -> Seq(Frame)]
         /\ wire' \in [Sessions -> Seq(Sent)]
         /\ peer' \in [Sessions -> {"open", "closed"}]
         /\ stalled' \in [Sessions -> BOOLEAN]
<1>1. wire[s] \in Seq(Sent) /\ Wholes(b) \in Seq(Sent)
  BY WholesType DEF TypeOK
<1>2. ASSUME NEW p \in Parts(b) PROVE p \in Seq(Sent)
  <2>1. PICK j \in 0..(Len(b) - 1) :
          \/ p = Wholes(SubSeq(b, 1, j))
          \/ p = Append(Wholes(SubSeq(b, 1, j)), Piece(b[j + 1]))
    BY DEF Parts
  <2>2. Len(b) \in Nat /\ \A i \in 1..Len(b) : b[i] \in Frame
    BY LenProperties, ElementOfSeq
  <2>3. SubSeq(b, 1, j) \in Seq(Frame)
    BY <2>2, SubSeqProperties
  <2>4. Wholes(SubSeq(b, 1, j)) \in Seq(Sent)
    BY <2>3, WholesType
  <2>5. Piece(b[j + 1]) \in Sent
    BY <2>2 DEF Piece, Sent
  <2>6. QED  BY <2>1, <2>4, <2>5
<1>3. CASE SendAll(s, b)
  <2>1. wire[s] \o Wholes(b) \in Seq(Sent) /\ << >> \in Seq(Frame)
    BY <1>1
  <2>2. QED  BY <1>3, <2>1 DEF SendAll, TypeOK
<1>4. CASE SendFails(s, b)
  <2>1. \A p \in Parts(b) : wire[s] \o p \in Seq(Sent)
    BY <1>1, <1>2
  <2>2. QED  BY <1>4, <2>1, ZenonT(60) DEF SendFails, TypeOK
<1>5. QED  BY <1>3, <1>4

-----------------------------------------------------------------------------
(* The hooks a switch calls: each chains to one installed before it. *)

\* Only hooks of installed sessions are ever called, and each chains to one that
\* was installed before it: the sessions of C, in the order `depth` gives them.
ChainInv ==
  \E C \in SUBSET Sessions, depth \in [Sessions -> Nat] :
    /\ tracer \in C \cup {NoHook} /\ running \in C \cup {NoHook}
    /\ \A c \in C :
         /\ hook[c] = "installed"
         /\ prev[c] \in C \cup {NoHook}
         /\ prev[c] \in C => depth[prev[c]] < depth[c]

\* A session that has not come yet has nothing here.
Fresh ==
  \A s \in Sessions : hook[s] = "absent" =>
    /\ told[s] = << >> /\ wire[s] = << >> /\ buf[s] = << >> /\ gcq[s] = << >>
    /\ ~stalled[s]

\* What was sent is exact; a send that timed out is followed by the last one and
\* by nothing else; a send under way was given the buffer as it is.
SentExactly(s) ==
  IF stalled[s]
  THEN IF hook[s] = "removed"
       THEN Repeats(told[s], wire[s], TRUE)
       ELSE /\ running = s /\ phase \in {"leave", "lastSend"}
            /\ StalledOnce(told[s], wire[s], buf[s])
  ELSE Carried(told[s], wire[s], buf[s], peer[s] = "open")
StreamInv ==
  /\ running = NoHook => phase = "event"
  /\ \A s \in Sessions :
       /\ SentExactly(s)
       /\ running = s /\ phase \in {"send", "lastSend"} => out = buf[s]

\* What is encoded so far holds no pause to come, and neither does the queue; a
\* queued pause has as many after it as the queue has.
PausesInv ==
  \A s \in Sessions : Listening(s) =>
    /\ told[s] # << >>
    /\ PausesKept(told[s], gcq[s], pauses)
    /\ \A i \in Gcs(told[s]) : told[s][i].n <= pauses
    /\ \A j \in 1..Len(gcq[s]) : gcq[s][j] + (Len(gcq[s]) - j) <= pauses

\* A buffer grows by a queue at each event skipped, by a queue and a switch before
\* a flush, and by one queue more on the way out.
Slack(s) ==
  IF running = s /\ phase \in {"send", "leave"} THEN GcqLen + 1
  ELSE IF running = s /\ phase = "lastSend" THEN GcqLen + GcqLen + 1
  ELSE 0
BoundInv ==
  \A s \in Sessions : hook[s] = "installed" =>
    /\ Len(gcq[s]) <= GcqLen
    /\ Len(buf[s]) < FlushFrames + skips[s] * GcqLen + Slack(s)

HookInv == TypeOK /\ ChainInv /\ Fresh /\ StreamInv /\ PausesInv /\ BoundInv

-----------------------------------------------------------------------------
(* Each part from one state to the next. *)

LEMMA InitHook == Init => HookInv
<1> SUFFICES ASSUME Init PROVE HookInv
  OBVIOUS
<1>1. TypeOK
  <2>1. << >> \in Seq(Frame) /\ << >> \in Seq(Sent) /\ << >> \in Seq(Nat)
    OBVIOUS
  <2>2. QED  BY <2>1 DEF Init, TypeOK
<1>2. ChainInv
  <2>1. {} \in SUBSET Sessions /\ [s \in Sessions |-> 0] \in [Sessions -> Nat]
    OBVIOUS
  <2>2. tracer \in {} \cup {NoHook} /\ running \in {} \cup {NoHook}
    BY DEF Init
  <2>3. QED  BY <2>1, <2>2 DEF ChainInv
<1>3. Fresh
  BY DEF Init, Fresh
<1>4. StreamInv
  <2>1. << >> \in Seq(Frame)
    OBVIOUS
  <2>2. Carried(<< >>, << >>, << >>, TRUE)
    BY <2>1, CarriedNothing
  <2>3. QED  BY <2>2, HookAssumption DEF Init, StreamInv, SentExactly
<1>5. PausesInv /\ BoundInv
  BY DEF Init, PausesInv, BoundInv, Listening
<1>6. QED  BY <1>1, <1>2, <1>3, <1>4, <1>5 DEF HookInv

LEMMA TypeStep ==
  ASSUME TypeOK, [Next]_vars
  PROVE  TypeOK'
<1>1. CASE Switch
  BY <1>1 DEF Switch, TypeOK, chain
<1>2. CASE Pause
  <2>1. ASSUME NEW q \in Seq(Nat), NEW n \in Nat PROVE Enqueue(q, n) \in Seq(Nat)
    <3>1. Len(q) = GcqLen => q # << >>
      BY HookAssumption
    <3>2. q # << >> => Tail(q) \in Seq(Nat)
      OBVIOUS
    <3>3. QED  BY <3>1, <3>2 DEF Enqueue
  <2>2. \A s \in Sessions : Enqueue(gcq[s], pauses + 1) \in Seq(Nat)
    BY <2>1 DEF TypeOK
  <2>3. QED  BY <1>2, <2>2 DEF Pause, TypeOK, chain, hub
<1>3. ASSUME NEW s \in Sessions, Install(s) PROVE TypeOK'
  <2>1. <<Hello>> \in Seq(Frame)
    BY EncodedType
  <2>2. /\ buf' \in [Sessions -> Seq(Frame)] /\ wire' \in [Sessions -> Seq(Sent)]
        /\ peer' \in [Sessions -> {"open", "closed"}] /\ stalled' \in [Sessions -> BOOLEAN]
    <3>1. CASE SendAll(s, <<Hello>>)
      BY <2>1, <3>1, SendTyped
    <3>2. CASE ~SendAll(s, <<Hello>>)
      BY <1>3, <2>1, <3>2, ZenonT(60) DEF Install, TypeOK
    <3>3. QED  BY <3>1, <3>2
  <2>3. QED  BY <1>3, <2>1, <2>2 DEF Install, TypeOK, hub
<1>4. ASSUME NEW s \in Sessions, Leave(s) PROVE TypeOK'
  BY <1>4 DEF Leave, TypeOK, chain, hub
<1>5. ASSUME NEW s \in Sessions
      PROVE  /\ Drained(s) \in Seq(Frame)
             /\ told[s] \o Drained(s) \in Seq(Frame) /\ buf[s] \o Drained(s) \in Seq(Frame)
             /\ told[s] \o Event(s) \in Seq(Frame) /\ buf[s] \o Event(s) \in Seq(Frame)
             /\ << >> \in Seq(Nat) /\ << >> \in Seq(Frame)
  <2>1. Drained(s) \in Seq(Frame) /\ Event(s) \in Seq(Frame)
    BY EncodedType
  <2>2. told[s] \in Seq(Frame) /\ buf[s] \in Seq(Frame)
    BY DEF TypeOK
  <2>3. QED  BY <2>1, <2>2, ConcatProperties
<1>6. ASSUME NEW s \in Sessions, SkipEvent(s) PROVE TypeOK'
  <2>1. skips' \in [Sessions -> Nat] /\ running' \in Sessions \cup {NoHook}
    BY <1>6 DEF SkipEvent, TypeOK
  <2>2. /\ buf' \in [Sessions -> Seq(Frame)]
        /\ told' \in [Sessions -> Seq(Frame)] /\ gcq' \in [Sessions -> Seq(Nat)]
        /\ UNCHANGED <<tracer, hook, prev, wire, peer, stalled, phase, out, switches, pauses>>
    BY <1>5, <1>6 DEF SkipEvent, Encode, TypeOK, chain
  <2>3. QED  BY <2>1, <2>2 DEF TypeOK
<1>7. ASSUME NEW s \in Sessions, TraceEvent(s) PROVE TypeOK'
  <2>1. /\ running' \in Sessions \cup {NoHook} /\ out' \in Seq(Frame)
        /\ phase' \in {"event", "send", "leave", "lastSend"} /\ skips' \in [Sessions -> Nat]
    <3>1. \/ /\ skips' = [skips EXCEPT ![s] = 0] /\ running' = prev[s]
             /\ phase' = phase /\ out' = out
          \/ /\ phase' = "send" /\ out' = buf[s] \o Event(s)
             /\ skips' = skips /\ running' = running
      BY <1>7 DEF TraceEvent
    <3>2. buf[s] \o Event(s) \in Seq(Frame)
      BY <1>5
    <3>3. CASE /\ skips' = [skips EXCEPT ![s] = 0] /\ running' = prev[s]
               /\ phase' = phase /\ out' = out
      BY <3>3 DEF TypeOK
    <3>4. CASE /\ phase' = "send" /\ out' = buf[s] \o Event(s)
               /\ skips' = skips /\ running' = running
      BY <3>2, <3>4, Zenon DEF TypeOK
    <3>5. QED  BY <3>1, <3>3, <3>4
  <2>2. /\ buf' \in [Sessions -> Seq(Frame)]
        /\ told' \in [Sessions -> Seq(Frame)] /\ gcq' \in [Sessions -> Seq(Nat)]
        /\ UNCHANGED <<tracer, hook, prev, wire, peer, stalled, switches, pauses>>
    BY <1>5, <1>7 DEF TraceEvent, Encode, TypeOK, chain
  <2>3. QED  BY <2>1, <2>2 DEF TypeOK
<1>8. ASSUME NEW s \in Sessions, SendAll(s, out) \/ SendFails(s, out)
      PROVE  /\ buf' \in [Sessions -> Seq(Frame)] /\ wire' \in [Sessions -> Seq(Sent)]
             /\ peer' \in [Sessions -> {"open", "closed"}]
             /\ stalled' \in [Sessions -> BOOLEAN]
  BY <1>8, SendTyped DEF TypeOK
<1>9. ASSUME NEW s \in Sessions, Flush(s) PROVE TypeOK'
  <2>1. SendAll(s, out) \/ SendFails(s, out)
    BY <1>9 DEF Flush
  <2>2. /\ running' \in Sessions \cup {NoHook} /\ out' \in Seq(Frame)
        /\ phase' \in {"event", "send", "leave", "lastSend"} /\ skips' \in [Sessions -> Nat]
        /\ UNCHANGED <<tracer, hook, prev, gcq, told, switches, pauses>>
    BY <1>5, <1>9 DEF Flush, TypeOK, chain
  <2>3. QED  BY <1>8, <2>1, <2>2 DEF TypeOK
<1>10. ASSUME NEW s \in Sessions, Teardown(s) PROVE TypeOK'
  BY <1>5, <1>10 DEF Teardown, Encode, TypeOK, chain
<1>11. ASSUME NEW s \in Sessions, Uninstall(s) PROVE TypeOK'
  <2>1. SendAll(s, out) \/ SendFails(s, out)
    BY <1>11 DEF Uninstall
  <2>2. /\ running' \in Sessions \cup {NoHook} /\ out' \in Seq(Frame) /\ phase' = "event"
        /\ hook' \in [Sessions -> {"absent", "installed", "removed"}]
        /\ tracer' \in Sessions \cup {NoHook}
        /\ UNCHANGED <<prev, gcq, told, skips, switches, pauses>>
    BY <1>5, <1>11 DEF Uninstall, TypeOK
  <2>3. QED  BY <1>8, <2>1, <2>2 DEF TypeOK
<1>12. CASE UNCHANGED vars
  BY <1>12 DEF vars, TypeOK, chain, hub
<1>13. QED
  BY <1>1, <1>2, <1>3, <1>4, <1>6, <1>7, <1>9, <1>10, <1>11, <1>12 DEF Next

LEMMA ChainStep ==
  ASSUME TypeOK, ChainInv, [Next]_vars
  PROVE  ChainInv'
<1> DEFINE Chained(C, depth, first, now, installed, before) ==
      /\ first \in C \cup {NoHook} /\ now \in C \cup {NoHook}
      /\ \A c \in C : /\ installed[c] = "installed"
                      /\ before[c] \in C \cup {NoHook}
                      /\ before[c] \in C => depth[before[c]] < depth[c]
<1>1. PICK C \in SUBSET Sessions, depth \in [Sessions -> Nat] :
        Chained(C, depth, tracer, running, hook, prev)
  BY DEF ChainInv
<1>2. ASSUME UNCHANGED chain, running' \in C \cup {NoHook} PROVE ChainInv'
  BY <1>1, <1>2 DEF ChainInv, chain
<1>3. ASSUME NEW s \in Sessions, running = s
      PROVE  s \in C /\ prev[s] \in C \cup {NoHook}
  BY <1>1, <1>3, HookAssumption
<1>4. CASE Switch
  BY <1>1, <1>2, <1>4 DEF Switch
<1>5. CASE Pause
  BY <1>1, <1>2, <1>5 DEF Pause, hub
<1>6. ASSUME NEW s \in Sessions, Install(s) PROVE ChainInv'
  <2> DEFINE D == C \cup {s}
             next == IF tracer = NoHook THEN 0 ELSE depth[tracer] + 1
             deep == [depth EXCEPT ![s] = next]
  <2>1. s \notin C /\ tracer # s
    BY <1>1, <1>6, HookAssumption DEF Install
  <2>2. tracer # NoHook => tracer \in C /\ depth[tracer] \in Nat
    BY <1>1
  <2>3. next \in Nat
    BY <2>2
  <2>4. D \in SUBSET Sessions /\ deep \in [Sessions -> Nat]
    BY <2>3
  <2>5. tracer' \in D \cup {NoHook} /\ running' \in D \cup {NoHook}
    BY <1>1, <1>6 DEF Install, hub
  <2>6. ASSUME NEW c \in D
        PROVE  /\ hook'[c] = "installed" /\ prev'[c] \in D \cup {NoHook}
               /\ prev'[c] \in D => deep[prev'[c]] < deep[c]
    <3>1. CASE c = s
      <4>1. hook'[c] = "installed" /\ prev'[c] = tracer /\ deep[c] = next
        BY <1>6, <3>1 DEF Install, TypeOK
      <4>2. tracer \in D => tracer # NoHook /\ deep[tracer] = depth[tracer]
        BY <2>1, HookAssumption
      <4>3. QED  BY <1>1, <2>2, <4>1, <4>2
    <3>2. CASE c # s
      <4>1. hook'[c] = hook[c] /\ prev'[c] = prev[c] /\ deep[c] = depth[c] /\ c \in C
        BY <1>6, <3>2 DEF Install, TypeOK
      <4>2. prev[c] \in C \cup {NoHook} /\ (prev[c] \in D => prev[c] \in C)
        BY <1>1, <4>1, HookAssumption
      <4>3. prev[c] \in C => deep[prev[c]] = depth[prev[c]]
        BY <2>1
      <4>4. QED  BY <1>1, <4>1, <4>2, <4>3
    <3>3. QED  BY <3>1, <3>2
  <2> HIDE DEF D, deep
  <2>7. QED  BY <2>4, <2>5, <2>6 DEF ChainInv
<1>7. ASSUME NEW s \in Sessions, Leave(s) PROVE ChainInv'
  BY <1>1, <1>2, <1>7 DEF Leave, hub
<1>8. ASSUME NEW s \in Sessions, SkipEvent(s) PROVE ChainInv'
  BY <1>2, <1>3, <1>8 DEF SkipEvent
<1>9. ASSUME NEW s \in Sessions, TraceEvent(s) PROVE ChainInv'
  <2>1. UNCHANGED chain /\ (running' = running \/ running' = prev[s]) /\ running = s
    BY <1>9 DEF TraceEvent
  <2>2. QED  BY <1>1, <1>2, <1>3, <2>1
<1>10. ASSUME NEW s \in Sessions, Uninstall(s) PROVE ChainInv'
  <2> DEFINE D == {c \in C : depth[c] < depth[s]}
  <2>1. s \in C /\ prev[s] \in C \cup {NoHook} /\ depth[s] \in Nat
    BY <1>3, <1>10 DEF Uninstall
  <2>2. prev[s] \in D \cup {NoHook}
    BY <1>1, <2>1
  <2>3. tracer' = prev[s] /\ running' = prev[s] /\ prev' = prev
    BY <1>10 DEF Uninstall
  <2>4. ASSUME NEW c \in D
        PROVE  /\ hook'[c] = "installed" /\ prev'[c] \in D \cup {NoHook}
               /\ prev'[c] \in D => depth[prev'[c]] < depth[c]
    <3>1. c # s /\ c \in C /\ depth[c] \in Nat /\ depth[c] < depth[s]
      BY <2>1
    <3>2. hook'[c] = "installed"
      BY <1>1, <1>10, <3>1 DEF Uninstall, TypeOK
    <3>3. prev[c] \in C => depth[prev[c]] < depth[c] /\ depth[prev[c]] \in Nat
      BY <1>1, <3>1
    <3>4. prev[c] \in C => depth[prev[c]] < depth[s]
      BY <2>1, <3>1, <3>3
    <3>5. QED  BY <1>1, <2>3, <3>1, <3>2, <3>3, <3>4
  <2>5. D \in SUBSET Sessions
    OBVIOUS
  <2> HIDE DEF D
  <2>6. QED  BY <2>2, <2>3, <2>4, <2>5 DEF ChainInv
<1>11. ASSUME NEW s \in Sessions, Flush(s) PROVE ChainInv'
  <2>1. UNCHANGED chain /\ (running' = running \/ running' = prev[s]) /\ running = s
    BY <1>11 DEF Flush
  <2>2. QED  BY <1>1, <1>2, <1>3, <2>1
<1>12. ASSUME NEW s \in Sessions, Teardown(s) PROVE ChainInv'
  BY <1>1, <1>2, <1>12 DEF Teardown
<1>13. CASE UNCHANGED vars
  BY <1>1, <1>2, <1>13 DEF vars, hub
<1>14. QED
  BY <1>4, <1>5, <1>6, <1>7, <1>8, <1>9, <1>10, <1>11, <1>12, <1>13 DEF Next

\* Whoever is in its _cb is installed.
LEMMA RunsInstalled ==
  ASSUME ChainInv, NEW s \in Sessions, running = s
  PROVE  hook[s] = "installed"
BY HookAssumption DEF ChainInv

LEMMA FreshStep ==
  ASSUME TypeOK, ChainInv, Fresh, [Next]_vars
  PROVE  Fresh'
<1>1. \A s \in Sessions : running = s => hook[s] = "installed"
  BY RunsInstalled
<1> DEFINE Absent(r) == hook[r] = "absent" =>
             told[r] = << >> /\ wire[r] = << >> /\ buf[r] = << >> /\ gcq[r] = << >> /\ ~stalled[r]
<1>2. ASSUME NEW r \in Sessions,
             hook'[r] = "absent" => UNCHANGED <<told[r], wire[r], buf[r], gcq[r], stalled[r], hook[r]>>
      PROVE  Absent(r)'
  BY <1>2 DEF Fresh
<1>3. (\A r \in Sessions : Absent(r)') => Fresh'
  BY DEF Fresh
<1> HIDE DEF Absent
<1>4. CASE Switch
  BY <1>2, <1>3, <1>4 DEF Switch, chain
<1>5. CASE Pause
  <2>1. ASSUME NEW r \in Sessions, hook'[r] = "absent"
        PROVE  UNCHANGED <<told[r], wire[r], buf[r], gcq[r], stalled[r], hook[r]>>
    <3>1. hook[r] = "absent" /\ ~Listening(r)
      BY <1>5, <2>1 DEF Pause, chain, Listening
    <3>2. QED  BY <1>5, <3>1 DEF Pause, chain
  <2>2. QED  BY <1>2, <1>3, <2>1
<1>6. ASSUME NEW s \in Sessions, Install(s) PROVE Fresh'
  <2>1. ASSUME NEW r \in Sessions, hook'[r] = "absent"
        PROVE  UNCHANGED <<told[r], wire[r], buf[r], gcq[r], stalled[r], hook[r]>>
    BY <1>6, <2>1 DEF Install, SendAll, TypeOK
  <2>2. QED  BY <1>2, <1>3, <2>1
<1>7. ASSUME NEW s \in Sessions, Leave(s) PROVE Fresh'
  BY <1>2, <1>3, <1>7 DEF Leave, chain
<1>8. ASSUME NEW s \in Sessions, SkipEvent(s) PROVE Fresh'
  <2>1. ASSUME NEW r \in Sessions, hook'[r] = "absent"
        PROVE  UNCHANGED <<told[r], wire[r], buf[r], gcq[r], stalled[r], hook[r]>>
    BY <1>1, <1>8, <2>1 DEF SkipEvent, Encode, TypeOK, chain
  <2>2. QED  BY <1>2, <1>3, <2>1
<1>9. ASSUME NEW s \in Sessions, TraceEvent(s) PROVE Fresh'
  <2>1. ASSUME NEW r \in Sessions, hook'[r] = "absent"
        PROVE  UNCHANGED <<told[r], wire[r], buf[r], gcq[r], stalled[r], hook[r]>>
    BY <1>1, <1>9, <2>1 DEF TraceEvent, Encode, TypeOK, chain
  <2>2. QED  BY <1>2, <1>3, <2>1
<1>10. ASSUME NEW s \in Sessions, SendAll(s, out) \/ SendFails(s, out), NEW r \in Sessions, r # s
       PROVE  UNCHANGED <<wire[r], buf[r], stalled[r], peer[r]>>
  BY <1>10 DEF SendAll, SendFails, TypeOK
<1>11. ASSUME NEW s \in Sessions, Flush(s) PROVE Fresh'
  <2>1. ASSUME NEW r \in Sessions, hook'[r] = "absent"
        PROVE  UNCHANGED <<told[r], wire[r], buf[r], gcq[r], stalled[r], hook[r]>>
    <3>1. r # s /\ UNCHANGED <<hook, told, gcq>>
      BY <1>1, <1>11, <2>1 DEF Flush, chain
    <3>2. SendAll(s, out) \/ SendFails(s, out)
      BY <1>11 DEF Flush
    <3>3. QED  BY <1>10, <3>1, <3>2
  <2>2. QED  BY <1>2, <1>3, <2>1
<1>12. ASSUME NEW s \in Sessions, Teardown(s) PROVE Fresh'
  <2>1. ASSUME NEW r \in Sessions, hook'[r] = "absent"
        PROVE  UNCHANGED <<told[r], wire[r], buf[r], gcq[r], stalled[r], hook[r]>>
    BY <1>1, <1>12, <2>1 DEF Teardown, Encode, TypeOK, chain
  <2>2. QED  BY <1>2, <1>3, <2>1
<1>13. ASSUME NEW s \in Sessions, Uninstall(s) PROVE Fresh'
  <2>1. ASSUME NEW r \in Sessions, hook'[r] = "absent"
        PROVE  UNCHANGED <<told[r], wire[r], buf[r], gcq[r], stalled[r], hook[r]>>
    <3>1. r # s /\ UNCHANGED <<hook[r], told, gcq>>
      BY <1>13, <2>1 DEF Uninstall, TypeOK
    <3>2. SendAll(s, out) \/ SendFails(s, out)
      BY <1>13 DEF Uninstall
    <3>3. QED  BY <1>10, <3>1, <3>2
  <2>2. QED  BY <1>2, <1>3, <2>1
<1>14. CASE UNCHANGED vars
  BY <1>2, <1>3, <1>14 DEF vars, chain
<1>15. QED
  BY <1>4, <1>5, <1>6, <1>7, <1>8, <1>9, <1>11, <1>12, <1>13, <1>14 DEF Next

\* A send of the whole buffer, complete or not.
LEMMA SendKeepsCarried ==
  ASSUME TypeOK, NEW s \in Sessions, ~stalled[s],
         Carried(told[s], wire[s], buf[s], peer[s] = "open"),
         SendAll(s, buf[s]) \/ SendFails(s, buf[s])
  PROVE  IF stalled'[s] THEN StalledOnce(told[s], wire'[s], buf[s]) /\ buf'[s] = buf[s]
                        ELSE Carried(told[s], wire'[s], buf'[s], peer'[s] = "open")
<1> DEFINE t == told[s]
           b == buf[s]
<1>1. t \in Seq(Frame) /\ b \in Seq(Frame)
  BY DEF TypeOK
<1>2. CASE SendAll(s, b)
  <2>1. /\ peer[s] = "open" /\ peer'[s] = "open" /\ buf'[s] = << >> /\ ~stalled'[s]
        /\ wire'[s] = wire[s] \o Wholes(b)
    BY <1>2 DEF SendAll, TypeOK
  <2>2. Carried(t, wire[s] \o Wholes(b), << >>, TRUE)
    BY <1>1, <2>1, CarriedSent
  <2>3. QED  BY <2>1, <2>2
<1>3. CASE SendFails(s, b)
  <2>1. CASE peer[s] = "closed"
    <3>1. peer'[s] = "closed" /\ wire'[s] = wire[s] /\ ~stalled'[s]
      BY <1>3, <2>1 DEF SendFails, TypeOK
    <3>2. Carried(t, wire[s], buf'[s], FALSE)
      BY <2>1, CarriedToNobody
    <3>3. QED  BY <3>1, <3>2
  <2>2. CASE peer[s] = "open"
    <3>1. PICK p \in Parts(b) : wire'[s] = wire[s] \o p
      BY <1>3, <2>2 DEF SendFails, TypeOK
    <3>2. p \in Seq(Sent) /\ LeadingPart(p, b)
      BY <1>1, SendsLead
    <3>3. CASE stalled'[s]
      <4>1. StalledOnce(t, wire[s] \o p, b)
        BY <1>1, <2>2, <3>2, CarriedStalls
      <4>2. buf'[s] = buf[s]
        BY <1>3 DEF SendFails
      <4>3. QED  BY <3>1, <3>3, <4>1, <4>2
    <3>4. CASE ~stalled'[s]
      <4>1. peer'[s] = "closed"
        BY <1>3, <2>2, <3>4 DEF SendFails, TypeOK
      <4>2. Carried(t, wire[s] \o p, buf'[s], FALSE)
        BY <1>1, <2>2, CarriedPart
      <4>3. QED  BY <3>1, <3>4, <4>1, <4>2
    <3>5. QED  BY <3>3, <3>4
  <2>3. QED  BY <2>1, <2>2 DEF TypeOK
<1>4. QED  BY <1>2, <1>3

\* The last send, after one that timed out.
LEMMA SendAfterStall ==
  ASSUME TypeOK, NEW s \in Sessions, stalled[s],
         StalledOnce(told[s], wire[s], buf[s]),
         SendAll(s, buf[s]) \/ SendFails(s, buf[s])
  PROVE  stalled'[s] /\ Repeats(told[s], wire'[s], TRUE)
<1>1. buf[s] \in Seq(Frame) /\ wire[s] \in Seq(Sent)
  BY DEF TypeOK
<1>2. stalled'[s]
  BY DEF SendAll, SendFails, TypeOK
<1>3. \/ wire'[s] = wire[s]
      \/ wire'[s] = wire[s] \o Wholes(buf[s])
      \/ \E p \in Parts(buf[s]) : wire'[s] = wire[s] \o p
  BY DEF SendAll, SendFails, TypeOK
<1>4. CASE wire'[s] = wire[s]
  BY <1>1, <1>2, <1>4, StalledNow
<1>5. CASE wire'[s] = wire[s] \o Wholes(buf[s])
  BY <1>1, <1>2, <1>5, SendsLead, StalledThenLast
<1>6. CASE \E p \in Parts(buf[s]) : wire'[s] = wire[s] \o p
  BY <1>1, <1>2, <1>6, SendsLead, StalledThenLast
<1>7. QED  BY <1>3, <1>4, <1>5, <1>6

LEMMA StreamStep ==
  ASSUME TypeOK, ChainInv, Fresh, StreamInv, [Next]_vars
  PROVE  StreamInv'
<1> DEFINE Asked(s) == running = s /\ phase \in {"send", "lastSend"} => out = buf[s]
           Fine(s) == SentExactly(s) /\ Asked(s)
<1>1. \A s \in Sessions : Fine(s)
  BY DEF StreamInv
<1>2. ASSUME NEW r \in Sessions,
             UNCHANGED <<stalled[r], told[r], wire[r], buf[r], peer[r], hook[r]>>,
             \/ running = r /\ UNCHANGED <<running, phase, out>>
             \/ running # r /\ (running' # r \/ phase' = "event")
      PROVE  Fine(r)'
  <2>1. Fine(r)
    BY <1>1
  <2>2. Asked(r)'
    BY <1>2, <2>1
  <2>3. SentExactly(r)'
    BY <1>2, <2>1 DEF SentExactly
  <2>4. QED  BY <2>2, <2>3
<1>3. ASSUME running' = NoHook => phase' = "event", \A s \in Sessions : Fine(s)'
      PROVE  StreamInv'
  BY <1>3 DEF StreamInv
<1>4. \A s \in Sessions : s # NoHook /\ (running = s => hook[s] = "installed")
  BY RunsInstalled, HookAssumption
<1>5. running = NoHook => phase = "event"
  BY DEF StreamInv
<1>6. CASE Switch
  <2>1. phase = "event" /\ phase' = "event" /\ running = NoHook
    BY <1>5, <1>6 DEF Switch
  <2>2. ASSUME NEW r \in Sessions PROVE Fine(r)'
    <3>1. UNCHANGED <<stalled[r], told[r], wire[r], buf[r], peer[r], hook[r]>>
      BY <1>6 DEF Switch, chain
    <3>2. running # r
      BY <1>4, <2>1
    <3>3. QED  BY <1>2, <2>1, <3>1, <3>2
  <2>3. QED  BY <1>3, <2>1, <2>2
<1>7. CASE Pause
  <2>1. UNCHANGED <<running, phase, out>>
    BY <1>7 DEF Pause, hub
  <2>2. ASSUME NEW r \in Sessions PROVE Fine(r)'
    <3>1. UNCHANGED <<stalled[r], told[r], wire[r], buf[r], peer[r], hook[r]>>
      BY <1>7 DEF Pause, chain
    <3>2. QED  BY <1>2, <2>1, <3>1
  <2>3. QED  BY <1>3, <1>5, <2>1, <2>2
<1>8. ASSUME NEW s \in Sessions, Install(s) PROVE StreamInv'
  <2>1. UNCHANGED <<running, phase, out>> /\ running # s
    BY <1>4, <1>8 DEF Install, hub
  <2>2. ASSUME NEW r \in Sessions, r # s PROVE Fine(r)'
    <3>1. UNCHANGED <<stalled[r], told[r], wire[r], buf[r], peer[r], hook[r]>>
      BY <1>8, <2>2 DEF Install, SendAll, TypeOK
    <3>2. QED  BY <1>2, <2>1, <3>1
  <2>3. /\ wire[s] = << >> /\ told'[s] = <<Hello>> /\ <<Hello>> \in Seq(Frame)
        /\ ~stalled[s] /\ ~stalled'[s]
    BY <1>8, EncodedType DEF Install, SendAll, Fresh, TypeOK
  <2>4. Carried(told'[s], wire'[s], buf'[s], peer'[s] = "open")
    <3>1. CASE SendAll(s, <<Hello>>)
      <4>1. /\ peer'[s] = "open" /\ buf'[s] = << >>
            /\ wire'[s] = << >> \o Wholes(<<Hello>>)
        BY <2>3, <3>1 DEF SendAll, TypeOK
      <4>2. Carried(<<Hello>>, << >>, <<Hello>>, TRUE)
        BY <2>3, CarriedNothing
      <4>3. Carried(<<Hello>>, << >> \o Wholes(<<Hello>>), << >>, TRUE)
        BY <2>3, <4>2, CarriedSent
      <4>4. QED  BY <2>3, <4>1, <4>3
    <3>2. CASE ~SendAll(s, <<Hello>>)
      <4>1. /\ peer'[s] = "closed" /\ buf'[s] = <<Hello>> /\ wire'[s] = << >>
        BY <1>8, <2>3, <3>2 DEF Install, TypeOK
      <4>2. Carried(<<Hello>>, << >>, <<Hello>>, FALSE)
        BY <2>3, CarriedNothing
      <4>3. QED  BY <2>3, <4>1, <4>2
    <3>3. QED  BY <3>1, <3>2
  <2>5. Fine(s)'
    BY <2>1, <2>3, <2>4 DEF SentExactly
  <2>6. QED  BY <1>3, <1>5, <2>1, <2>2, <2>5
<1>9. ASSUME NEW s \in Sessions, Leave(s) PROVE StreamInv'
  <2>1. UNCHANGED <<running, phase, out>>
    BY <1>9 DEF Leave, hub
  <2>2. ASSUME NEW r \in Sessions, r # s PROVE Fine(r)'
    <3>1. UNCHANGED <<stalled[r], told[r], wire[r], buf[r], peer[r], hook[r]>>
      BY <1>9, <2>2 DEF Leave, TypeOK, chain
    <3>2. QED  BY <1>2, <2>1, <3>1
  <2>3. Fine(s)'
    <3>1. /\ peer[s] = "open" /\ peer'[s] = "closed"
          /\ UNCHANGED <<stalled[s], told[s], wire[s], buf[s], hook[s]>>
      BY <1>9 DEF Leave, TypeOK, chain
    <3>2. Carried(told[s], wire[s], buf[s], TRUE) => Carried(told[s], wire[s], buf[s], FALSE)
      BY CarriedToNobody
    <3>3. SentExactly(s) /\ Asked(s)
      BY <1>1
    <3>4. SentExactly(s)'
      BY <2>1, <3>1, <3>2, <3>3 DEF SentExactly
    <3>5. Asked(s)'
      BY <2>1, <3>1, <3>3
    <3>6. QED  BY <3>4, <3>5
  <2>4. QED  BY <1>3, <1>5, <2>1, <2>2, <2>3
\* Frames are encoded; no send has timed out yet, or the teardown is under way.
<1>10. ASSUME NEW s \in Sessions, running = s, NEW fs \in Seq(Frame),
              told'[s] = told[s] \o fs, buf'[s] = buf[s] \o fs,
              UNCHANGED <<stalled[s], wire[s], peer[s], hook[s]>>
       PROVE  IF stalled[s] THEN /\ phase \in {"leave", "lastSend"}
                                 /\ StalledOnce(told'[s], wire'[s], buf'[s])
                            ELSE Carried(told'[s], wire'[s], buf'[s], peer'[s] = "open")
  <2>1. /\ told[s] \in Seq(Frame) /\ wire[s] \in Seq(Sent) /\ (peer[s] = "open") \in BOOLEAN
        /\ hook[s] = "installed" /\ SentExactly(s)
    BY <1>1, <1>4, <1>10 DEF TypeOK
  <2>2. CASE stalled[s]
    <3>1. phase \in {"leave", "lastSend"} /\ StalledOnce(told[s], wire[s], buf[s])
      BY <2>1, <2>2 DEF SentExactly
    <3>2. StalledOnce(told[s] \o fs, wire[s], buf[s] \o fs)
      BY <2>1, <3>1, StalledGrows
    <3>3. QED  BY <1>10, <2>2, <3>1, <3>2
  <2>3. CASE ~stalled[s]
    <3>1. Carried(told[s], wire[s], buf[s], peer[s] = "open")
      BY <2>1, <2>3 DEF SentExactly
    <3>2. Carried(told[s] \o fs, wire[s], buf[s] \o fs, peer[s] = "open")
      BY <2>1, <3>1, CarriedGrows
    <3>3. QED  BY <1>10, <2>3, <3>2
  <2>4. QED  BY <2>2, <2>3
<1>11. ASSUME NEW s \in Sessions, SkipEvent(s) PROVE StreamInv'
  <2>1. running = s /\ phase = "event" /\ phase' = "event"
    BY <1>11 DEF SkipEvent
  <2>2. ASSUME NEW r \in Sessions, r # s PROVE Fine(r)'
    <3>1. UNCHANGED <<stalled[r], told[r], wire[r], buf[r], peer[r], hook[r]>>
      BY <1>11, <2>2 DEF SkipEvent, Encode, TypeOK, chain
    <3>2. QED  BY <1>2, <2>1, <2>2, <3>1
  <2>3. Fine(s)'
    <3>1. /\ told'[s] = told[s] \o Drained(s) /\ buf'[s] = buf[s] \o Drained(s)
          /\ UNCHANGED <<stalled[s], wire[s], peer[s], hook[s]>> /\ Drained(s) \in Seq(Frame)
      BY <1>11, EncodedType DEF SkipEvent, Encode, TypeOK, chain
    <3>2. ~stalled[s] /\ Carried(told'[s], wire'[s], buf'[s], peer'[s] = "open")
      BY <1>10, <2>1, <3>1
    <3>3. QED  BY <2>1, <3>1, <3>2 DEF SentExactly
  <2>4. QED  BY <1>3, <2>1, <2>2, <2>3
<1>12. ASSUME NEW s \in Sessions, TraceEvent(s) PROVE StreamInv'
  <2>1. /\ running = s /\ phase = "event"
        /\ \/ phase' = "event"
           \/ phase' = "send" /\ running' = s /\ out' = buf[s] \o Event(s)
    BY <1>12 DEF TraceEvent
  <2>2. ASSUME NEW r \in Sessions, r # s PROVE Fine(r)'
    <3>1. UNCHANGED <<stalled[r], told[r], wire[r], buf[r], peer[r], hook[r]>>
      BY <1>12, <2>2 DEF TraceEvent, Encode, TypeOK, chain
    <3>2. QED  BY <1>2, <2>1, <2>2, <3>1
  <2>3. Fine(s)'
    <3>1. /\ told'[s] = told[s] \o Event(s) /\ buf'[s] = buf[s] \o Event(s)
          /\ UNCHANGED <<stalled[s], wire[s], peer[s], hook[s]>> /\ Event(s) \in Seq(Frame)
      BY <1>12, EncodedType DEF TraceEvent, Encode, TypeOK, chain
    <3>2. ~stalled[s] /\ Carried(told'[s], wire'[s], buf'[s], peer'[s] = "open")
      BY <1>10, <2>1, <3>1
    <3>3. SentExactly(s)'
      BY <3>1, <3>2 DEF SentExactly
    <3>4. Asked(s)'
      BY <2>1, <3>1
    <3>5. QED  BY <3>3, <3>4
  <2>4. QED  BY <1>3, <1>4, <2>1, <2>2, <2>3
\* A send under way comes back.
<1>13. ASSUME NEW s \in Sessions, running = s, phase \in {"send", "lastSend"},
              SendAll(s, out) \/ SendFails(s, out)
       PROVE  /\ SendAll(s, buf[s]) \/ SendFails(s, buf[s])
              /\ SentExactly(s) /\ hook[s] = "installed"
              /\ \A r \in Sessions : r # s => UNCHANGED <<stalled[r], wire[r], buf[r], peer[r]>>
  <2>1. out = buf[s] /\ SentExactly(s) /\ hook[s] = "installed"
    BY <1>1, <1>4, <1>13
  <2>2. \A r \in Sessions : r # s => UNCHANGED <<stalled[r], wire[r], buf[r], peer[r]>>
    BY <1>13 DEF SendAll, SendFails, TypeOK
  <2>3. QED  BY <1>13, <2>1, <2>2
<1>14. ASSUME NEW s \in Sessions, Flush(s) PROVE StreamInv'
  <2>1. /\ running = s /\ phase = "send" /\ UNCHANGED <<told, hook>>
        /\ SendAll(s, out) \/ SendFails(s, out)
        /\ \/ phase' = "event" /\ SendAll(s, out)
           \/ phase' = "leave" /\ running' = s
    BY <1>14 DEF Flush, chain
  <2>2. /\ SendAll(s, buf[s]) \/ SendFails(s, buf[s])
        /\ SentExactly(s) /\ hook[s] = "installed"
        /\ \A r \in Sessions : r # s => UNCHANGED <<stalled[r], wire[r], buf[r], peer[r]>>
    BY <1>13, <2>1
  <2>3. ASSUME NEW r \in Sessions, r # s PROVE Fine(r)'
    <3>1. UNCHANGED <<stalled[r], told[r], wire[r], buf[r], peer[r], hook[r]>>
      BY <2>1, <2>2, <2>3
    <3>2. QED  BY <1>2, <2>1, <2>3, <3>1
  <2>4. ~stalled[s] /\ Carried(told[s], wire[s], buf[s], peer[s] = "open")
    BY <2>1, <2>2 DEF SentExactly
  <2>5. IF stalled'[s] THEN StalledOnce(told[s], wire'[s], buf[s]) /\ buf'[s] = buf[s]
                       ELSE Carried(told[s], wire'[s], buf'[s], peer'[s] = "open")
    BY <2>2, <2>4, SendKeepsCarried
  <2>6. stalled'[s] => phase' = "leave" /\ running' = s
    BY <2>1, <2>4 DEF SendAll
  <2>7. SentExactly(s)'
    BY <2>1, <2>2, <2>5, <2>6 DEF SentExactly
  <2>8. phase' \notin {"send", "lastSend"}
    BY <2>1
  <2>9. Fine(s)'
    BY <2>7, <2>8
  <2>10. QED  BY <1>3, <1>4, <2>1, <2>3, <2>9
<1>15. ASSUME NEW s \in Sessions, Teardown(s) PROVE StreamInv'
  <2>1. /\ running = s /\ phase = "leave" /\ running' = s /\ phase' = "lastSend"
        /\ out' = buf[s] \o Drained(s)
    BY <1>15 DEF Teardown
  <2>2. ASSUME NEW r \in Sessions, r # s PROVE Fine(r)'
    <3>1. UNCHANGED <<stalled[r], told[r], wire[r], buf[r], peer[r], hook[r]>>
      BY <1>15, <2>2 DEF Teardown, Encode, TypeOK, chain
    <3>2. QED  BY <1>2, <2>1, <2>2, <3>1
  <2>3. Fine(s)'
    <3>1. /\ told'[s] = told[s] \o Drained(s) /\ buf'[s] = buf[s] \o Drained(s)
          /\ UNCHANGED <<stalled[s], wire[s], peer[s], hook[s]>> /\ Drained(s) \in Seq(Frame)
      BY <1>15, EncodedType DEF Teardown, Encode, TypeOK, chain
    <3>2. IF stalled[s] THEN StalledOnce(told'[s], wire'[s], buf'[s])
                        ELSE Carried(told'[s], wire'[s], buf'[s], peer'[s] = "open")
      BY <1>10, <2>1, <3>1
    <3>3. hook[s] = "installed"
      BY <1>4, <2>1
    <3>4. SentExactly(s)'
      BY <2>1, <3>1, <3>2, <3>3 DEF SentExactly
    <3>5. Asked(s)'
      BY <2>1, <3>1
    <3>6. QED  BY <3>4, <3>5
  <2>4. QED  BY <1>3, <1>4, <2>1, <2>2, <2>3
<1>16. ASSUME NEW s \in Sessions, Uninstall(s) PROVE StreamInv'
  <2>1. /\ running = s /\ phase = "lastSend" /\ UNCHANGED told /\ hook'[s] = "removed"
        /\ SendAll(s, out) \/ SendFails(s, out)
        /\ phase' = "event"
    BY <1>16 DEF Uninstall, TypeOK
  <2>2. /\ SendAll(s, buf[s]) \/ SendFails(s, buf[s])
        /\ SentExactly(s) /\ hook[s] = "installed"
        /\ \A r \in Sessions : r # s => UNCHANGED <<stalled[r], wire[r], buf[r], peer[r]>>
    BY <1>13, <2>1
  <2>3. ASSUME NEW r \in Sessions, r # s PROVE Fine(r)'
    <3>1. UNCHANGED <<stalled[r], told[r], wire[r], buf[r], peer[r], hook[r]>>
      BY <1>16, <2>1, <2>2, <2>3 DEF Uninstall, TypeOK
    <3>2. QED  BY <1>2, <2>1, <2>3, <3>1
  <2>4. IF stalled'[s] THEN Repeats(told[s], wire'[s], TRUE)
                       ELSE Carried(told[s], wire'[s], buf'[s], peer'[s] = "open")
    <3>1. CASE stalled[s]
      <4>1. StalledOnce(told[s], wire[s], buf[s])
        BY <2>2, <3>1 DEF SentExactly
      <4>2. QED  BY <2>2, <3>1, <4>1, SendAfterStall
    <3>2. CASE ~stalled[s]
      <4>1. Carried(told[s], wire[s], buf[s], peer[s] = "open")
        BY <2>2, <3>2 DEF SentExactly
      <4>2. IF stalled'[s] THEN StalledOnce(told[s], wire'[s], buf[s]) /\ buf'[s] = buf[s]
                           ELSE Carried(told[s], wire'[s], buf'[s], peer'[s] = "open")
        BY <2>2, <3>2, <4>1, SendKeepsCarried
      <4>3. buf[s] \in Seq(Frame) /\ wire'[s] \in Seq(Sent)
        <5>1. buf[s] \in Seq(Frame)
          BY DEF TypeOK
        <5>2. wire' \in [Sessions -> Seq(Sent)]
          BY <2>2, <5>1, SendTyped
        <5>3. QED  BY <5>1, <5>2
      <4>4. QED  BY <4>2, <4>3, StalledNow
    <3>3. QED  BY <3>1, <3>2
  <2>5. SentExactly(s)'
    BY <2>1, <2>4 DEF SentExactly
  <2>6. Fine(s)'
    BY <2>1, <2>5
  <2>7. QED  BY <1>3, <2>1, <2>3, <2>6
<1>17. CASE UNCHANGED vars
  <2>1. UNCHANGED <<running, phase, out>>
    BY <1>17 DEF vars, hub
  <2>2. ASSUME NEW r \in Sessions PROVE Fine(r)'
    <3>1. UNCHANGED <<stalled[r], told[r], wire[r], buf[r], peer[r], hook[r]>>
      BY <1>17 DEF vars, chain
    <3>2. QED  BY <1>2, <2>1, <3>1
  <2>3. QED  BY <1>3, <1>5, <2>1, <2>2
<1>18. QED
  BY <1>6, <1>7, <1>8, <1>9, <1>11, <1>12, <1>14, <1>15, <1>16, <1>17 DEF Next

-----------------------------------------------------------------------------
(* Pauses: what a queue, an encoding and an event do to them. *)

\* PausesInv for one session.
AllKept(t, q, p) ==
  /\ t # << >>
  /\ PausesKept(t, q, p)
  /\ \A i \in Gcs(t) : t[i].n <= p
  /\ \A j \in 1..Len(q) : q[j] + (Len(q) - j) <= p

\* A pause joins the queue; a full queue gives up one that GcqLen others follow.
LEMMA EnqueueKeeps ==
  ASSUME NEW t \in Seq(Frame), NEW q \in Seq(Nat), NEW p \in Nat, AllKept(t, q, p)
  PROVE  AllKept(t, Enqueue(q, p + 1), p + 1)
<1> DEFINE old == IF Len(q) = GcqLen THEN 1 ELSE 0
           new == Enqueue(q, p + 1)
<1>1. /\ Len(t) \in Nat /\ Len(q) \in Nat /\ GcqLen \in Nat \ {0}
      /\ \A i \in 1..Len(q) : q[i] \in Nat
      /\ \A i \in 1..Len(t) : t[i] \in Frame
      /\ old \in 0..1 /\ old <= Len(q) /\ (old = 1 => Len(q) = GcqLen)
  BY HookAssumption, LenProperties, ElementOfSeq
<1>2. \A i \in 1..Len(t) : t[i].n \in Nat
  BY <1>1 DEF Frame
<1>3. /\ Len(new) = Len(q) - old + 1
      /\ new[Len(q) - old + 1] = p + 1
      /\ \A j \in 1..(Len(q) - old) : new[j] = q[j + old]
  <2>1. CASE Len(q) = GcqLen
    <3>1. q # << >>
      BY <1>1, <2>1
    <3>2. /\ Tail(q) \in Seq(Nat) /\ Len(Tail(q)) = Len(q) - 1
          /\ \A j \in 1..(Len(q) - 1) : Tail(q)[j] = q[j + 1]
      BY <3>1, HeadTailProperties
    <3>3. QED  BY <1>1, <2>1, <3>2 DEF Enqueue
  <2>2. CASE Len(q) # GcqLen
    BY <1>1, <2>2 DEF Enqueue
  <2>3. QED  BY <2>1, <2>2
<1> HIDE DEF new, old
<1>4. /\ t # << >>
      /\ \A i, j \in Gcs(t) : i < j => t[i].n < t[j].n
      /\ \A i \in Gcs(t), j \in 1..Len(q) : t[i].n < q[j]
      /\ \A i, j \in 1..Len(q) : i < j => q[i] < q[j]
      /\ \A n \in (t[1].n + 1)..p : n + GcqLen > p =>
           (\E i \in Gcs(t) : t[i].n = n) \/ (\E j \in 1..Len(q) : q[j] = n)
      /\ \A i \in Gcs(t) : t[i].n <= p
      /\ \A j \in 1..Len(q) : q[j] + (Len(q) - j) <= p
      /\ \A i \in Gcs(t) : i \in 1..Len(t)
  BY DEF AllKept, PausesKept, Gcs
<1>5. \A j \in 1..Len(new) :
        \/ j = Len(q) - old + 1 /\ new[j] = p + 1
        \/ j \in 1..(Len(q) - old) /\ j + old \in 1..Len(q) /\ new[j] = q[j + old]
  BY <1>1, <1>3
<1>6. ASSUME NEW i \in Gcs(t), NEW j \in 1..Len(new) PROVE t[i].n < new[j]
  <2>1. t[i].n <= p /\ t[i].n \in Nat
    BY <1>2, <1>4
  <2>2. CASE j = Len(q) - old + 1 /\ new[j] = p + 1
    BY <2>1, <2>2
  <2>3. CASE j \in 1..(Len(q) - old) /\ j + old \in 1..Len(q) /\ new[j] = q[j + old]
    BY <1>4, <2>3
  <2>4. QED  BY <1>5, <2>2, <2>3
<1>7. ASSUME NEW j \in 1..Len(new) PROVE new[j] + (Len(new) - j) <= p + 1
  <2>1. CASE j = Len(q) - old + 1 /\ new[j] = p + 1
    BY <1>1, <1>3, <2>1
  <2>2. CASE j \in 1..(Len(q) - old) /\ j + old \in 1..Len(q) /\ new[j] = q[j + old]
    <3>1. q[j + old] + (Len(q) - (j + old)) <= p /\ q[j + old] \in Nat
      BY <1>1, <1>4, <2>2
    <3>2. Len(new) - j = (Len(q) - (j + old)) + 1
      BY <1>1, <1>3, <2>2
    <3>3. Len(q) - (j + old) \in Int
      BY <1>1, <2>2
    <3>4. ASSUME NEW a \in Nat, NEW b \in Int, a + b <= p PROVE a + (b + 1) <= p + 1
      BY <3>4
    <3>5. q[j + old] + ((Len(q) - (j + old)) + 1) <= p + 1
      BY <3>1, <3>3, <3>4
    <3>6. new[j] = q[j + old]
      BY <2>2
    <3>7. QED  BY <3>2, <3>5, <3>6
  <2>3. QED  BY <1>5, <2>1, <2>2
<1>8. ASSUME NEW i \in 1..Len(new), NEW j \in 1..Len(new), i < j PROVE new[i] < new[j]
  <2>1. i \in 1..(Len(q) - old) /\ i + old \in 1..Len(q) /\ new[i] = q[i + old]
    BY <1>1, <1>3, <1>5, <1>8
  <2>2. q[i + old] + (Len(q) - (i + old)) <= p /\ q[i + old] \in Nat
    BY <1>1, <1>4, <2>1
  <2>3. CASE j = Len(q) - old + 1 /\ new[j] = p + 1
    BY <1>1, <2>1, <2>2, <2>3, SMTT(60)
  <2>4. CASE j \in 1..(Len(q) - old) /\ j + old \in 1..Len(q) /\ new[j] = q[j + old]
    <3>1. i + old < j + old
      BY <1>1, <1>8
    <3>2. QED  BY <1>4, <2>1, <2>4, <3>1
  <2>5. QED  BY <1>5, <2>3, <2>4
<1>9. ASSUME NEW n \in (t[1].n + 1)..(p + 1), n + GcqLen > p + 1
      PROVE  (\E i \in Gcs(t) : t[i].n = n) \/ (\E j \in 1..Len(new) : new[j] = n)
  <2>1. t[1].n \in Nat /\ n \in Nat
    BY <1>1, <1>2, <1>4
  <2>2. CASE n = p + 1
    <3>1. Len(q) - old + 1 \in 1..Len(new)
      BY <1>1, <1>3
    <3>2. QED  BY <1>3, <2>2, <3>1
  <2>3. CASE n # p + 1
    <3>1. n \in (t[1].n + 1)..p /\ n + GcqLen > p
      BY <1>1, <1>9, <2>1, <2>3
    <3>2. CASE \E i \in Gcs(t) : t[i].n = n
      BY <3>2
    <3>3. CASE \E j \in 1..Len(q) : q[j] = n
      <4>1. PICK j \in 1..Len(q) : q[j] = n
        BY <3>3
      <4>2. n + (Len(q) - j) <= p
        BY <1>4, <4>1
      <4>3. ~(old = 1 /\ j = 1)
        BY <1>1, <1>9, <4>2, <2>1
      <4>4. j - old \in 1..(Len(q) - old) /\ (j - old) + old = j
        BY <1>1, <4>1, <4>3
      <4>5. new[j - old] = q[(j - old) + old]
        BY <1>3, <4>4
      <4>6. j - old \in 1..Len(new)
        BY <1>1, <1>3, <4>4
      <4>7. QED  BY <4>1, <4>4, <4>5, <4>6
    <3>4. QED  BY <1>4, <3>1, <3>2, <3>3
  <2>4. QED  BY <2>2, <2>3
<1>10. \A i \in Gcs(t) : t[i].n <= p + 1
  BY <1>1, <1>2, <1>4
<1>11. QED
  BY <1>4, <1>6, <1>7, <1>8, <1>9, <1>10 DEF AllKept, PausesKept, new

\* The queue is encoded.
LEMMA DrainKeeps ==
  ASSUME NEW t \in Seq(Frame), NEW q \in Seq(Nat), NEW p \in Nat, AllKept(t, q, p)
  PROVE  AllKept(t \o GcFrames(q), << >>, p)
<1> DEFINE g == GcFrames(q)
           u == t \o g
<1>1. /\ g \in Seq(Frame) /\ Len(g) = Len(q)
      /\ \A j \in 1..Len(q) : g[j].kind = "gc" /\ g[j].n = q[j]
  <2>1. g \in Seq(Frame) /\ Len(g) = Len(q) /\ \A j \in 1..Len(q) : g[j] = GcFrame(q[j])
    BY FramesType
  <2> HIDE DEF g
  <2>2. \A x : GcFrame(x).kind = "gc" /\ GcFrame(x).n = x
    BY DEF GcFrame
  <2> HIDE DEF u
  <2>3. QED  BY <2>1, <2>2
<1>2. /\ Len(t) \in Nat /\ Len(q) \in Nat /\ t # << >>
      /\ \A j \in 1..Len(q) : q[j] \in Nat
      /\ \A i \in 1..Len(t) : t[i] \in Frame
  BY LenProperties, ElementOfSeq DEF AllKept
<1> HIDE DEF g
<1>3. /\ u \in Seq(Frame) /\ Len(u) = Len(t) + Len(q)
      /\ \A i \in 1..(Len(t) + Len(q)) : u[i] = IF i <= Len(t) THEN t[i] ELSE g[i - Len(t)]
  <2>1. /\ u \in Seq(Frame) /\ Len(u) = Len(t) + Len(g)
        /\ \A i \in 1..(Len(t) + Len(g)) : u[i] = IF i <= Len(t) THEN t[i] ELSE g[i - Len(t)]
    <3>1. g \in Seq(Frame)
      BY <1>1
    <3>2. QED  BY <3>1, ConcatProperties
  <2> HIDE DEF u
  <2>2. QED  BY <1>1, <2>1
<1> HIDE DEF u
<1>4. \A i \in Gcs(u) :
        \/ i \in Gcs(t) /\ u[i] = t[i]
        \/ i > Len(t) /\ i - Len(t) \in 1..Len(q) /\ u[i].n = q[i - Len(t)]
  <2>1. ASSUME NEW i \in Gcs(u)
        PROVE  \/ i \in Gcs(t) /\ u[i] = t[i]
               \/ i > Len(t) /\ i - Len(t) \in 1..Len(q) /\ u[i].n = q[i - Len(t)]
    <3>1. i \in 1..(Len(t) + Len(q)) /\ u[i].kind = "gc"
      BY <1>3 DEF Gcs
    <3>2. CASE i <= Len(t)
      <4>1. u[i] = t[i] /\ i \in 1..Len(t)
        BY <1>2, <1>3, <3>1, <3>2
      <4>2. QED  BY <3>1, <4>1 DEF Gcs
    <3>3. CASE ~(i <= Len(t))
      <4>1. u[i] = g[i - Len(t)] /\ i - Len(t) \in 1..Len(q) /\ i > Len(t)
        BY <1>2, <1>3, <3>1, <3>3
      <4>2. QED  BY <1>1, <4>1
    <3>4. QED  BY <3>2, <3>3
  <2>2. QED  BY <2>1
<1>5. \A i \in Gcs(t) : i \in Gcs(u) /\ u[i] = t[i] /\ i \in 1..Len(t) /\ t[i].n \in Nat
  BY <1>2, <1>3, SMTT(60) DEF Gcs, Frame
<1>6. \A j \in 1..Len(q) : Len(t) + j \in Gcs(u) /\ u[Len(t) + j].n = q[j]
  <2>1. ASSUME NEW j \in 1..Len(q)
        PROVE  Len(t) + j \in Gcs(u) /\ u[Len(t) + j].n = q[j]
    <3>1. /\ Len(t) + j \in 1..(Len(t) + Len(q)) /\ ~(Len(t) + j <= Len(t))
          /\ (Len(t) + j) - Len(t) = j
      BY <1>2
    <3>2. u[Len(t) + j] = g[j]
      BY <1>3, <3>1
    <3>3. QED  BY <1>1, <1>3, <3>1, <3>2 DEF Gcs
  <2>2. QED  BY <2>1
<1>7. /\ \A i, j \in Gcs(t) : i < j => t[i].n < t[j].n
      /\ \A i \in Gcs(t), j \in 1..Len(q) : t[i].n < q[j]
      /\ \A i, j \in 1..Len(q) : i < j => q[i] < q[j]
      /\ \A n \in (t[1].n + 1)..p : n + GcqLen > p =>
           (\E i \in Gcs(t) : t[i].n = n) \/ (\E j \in 1..Len(q) : q[j] = n)
      /\ \A i \in Gcs(t) : t[i].n <= p
      /\ \A j \in 1..Len(q) : q[j] + (Len(q) - j) <= p
  BY DEF AllKept, PausesKept
<1>8. ASSUME NEW i \in Gcs(u), NEW j \in Gcs(u), i < j PROVE u[i].n < u[j].n
  <2>1. CASE j \in Gcs(t) /\ u[j] = t[j]
    <3>1. i \in Gcs(t) /\ u[i] = t[i]
      <4>1. j \in 1..Len(t)
        BY <1>5, <2>1
      <4>2. i \in 1..Len(u)
        BY DEF Gcs
      <4>3. ~(i > Len(t))
        BY <1>2, <1>3, <1>8, <4>1, <4>2
      <4>4. QED  BY <1>4, <4>3
    <3>2. QED  BY <1>7, <1>8, <2>1, <3>1
  <2>2. CASE j > Len(t) /\ j - Len(t) \in 1..Len(q) /\ u[j].n = q[j - Len(t)]
    <3>1. CASE i \in Gcs(t) /\ u[i] = t[i]
      BY <1>7, <2>2, <3>1
    <3>2. CASE i > Len(t) /\ i - Len(t) \in 1..Len(q) /\ u[i].n = q[i - Len(t)]
      <4>1. i - Len(t) < j - Len(t)
        BY <1>2, <1>3, <1>8 DEF Gcs
      <4>2. QED  BY <1>7, <2>2, <3>2, <4>1
    <3>3. QED  BY <1>4, <3>1, <3>2
  <2>3. QED  BY <1>4, <2>1, <2>2
<1>9. ASSUME NEW i \in Gcs(u) PROVE u[i].n <= p
  <2>1. \A j \in 1..Len(q) : q[j] <= p
    BY <1>2, <1>7
  <2>2. QED  BY <1>4, <1>7, <2>1
<1>10. u # << >> /\ u[1] = t[1]
  <2>1. Len(t) > 0
    BY <1>2, EmptySeq
  <2>2. QED  BY <1>2, <1>3, <2>1
<1>11. ASSUME NEW n \in (u[1].n + 1)..p, n + GcqLen > p
       PROVE  \E i \in Gcs(u) : u[i].n = n
  <2>1. CASE \E i \in Gcs(t) : t[i].n = n
    BY <1>5, <2>1
  <2>2. CASE \E j \in 1..Len(q) : q[j] = n
    BY <1>6, <2>2
  <2>3. QED  BY <1>7, <1>10, <1>11, <2>1, <2>2
<1>12. Len(<< >>) = 0
  OBVIOUS
<1>13. AllKept(u, << >>, p)
  BY <1>8, <1>9, <1>10, <1>11, <1>12 DEF AllKept, PausesKept
<1>14. QED  BY <1>13 DEF u, g

\* A frame that is no pause is encoded.
LEMMA EventKeeps ==
  ASSUME NEW t \in Seq(Frame), NEW f \in Frame, f.kind # "gc", NEW p \in Nat,
         AllKept(t, << >>, p)
  PROVE  AllKept(Append(t, f), << >>, p)
<1>1. Len(t) \in Nat /\ t # << >> /\ Len(t) > 0
  BY LenProperties, EmptySeq DEF AllKept
<1>2. /\ Append(t, f) \in Seq(Frame) /\ Len(Append(t, f)) = Len(t) + 1
      /\ \A i \in 1..Len(t) : Append(t, f)[i] = t[i]
      /\ Append(t, f)[Len(t) + 1] = f
  BY AppendProperties
<1>3. Gcs(Append(t, f)) = Gcs(t)
  BY <1>1, <1>2 DEF Gcs
<1>4. \A i \in Gcs(t) : Append(t, f)[i] = t[i]
  BY <1>2 DEF Gcs
<1>5. Append(t, f) # << >> /\ Append(t, f)[1] = t[1]
  BY <1>1, <1>2
<1>6. QED  BY <1>3, <1>4, <1>5 DEF AllKept, PausesKept

LEMMA AppendLater ==
  ASSUME NEW a \in Seq(Frame), NEW b \in Seq(Frame), NEW f \in Frame
  PROVE  a \o b \in Seq(Frame) /\ a \o Append(b, f) = Append(a \o b, f)
OBVIOUS

LEMMA PausesStep ==
  ASSUME TypeOK, ChainInv, Fresh, PausesInv, [Next]_vars
  PROVE  PausesInv'
<1> DEFINE Kept(s) == Listening(s) => AllKept(told[s], gcq[s], pauses)
<1>1. \A s \in Sessions : Kept(s)
  BY DEF PausesInv, AllKept
<1>2. (\A s \in Sessions : Kept(s)') => PausesInv'
  BY DEF PausesInv, AllKept
<1>3. ASSUME NEW s \in Sessions, UNCHANGED <<told[s], gcq[s], pauses>>,
             Listening(s)' => Listening(s)
      PROVE  Kept(s)'
  BY <1>1, <1>3
<1>4. ASSUME NEW s \in Sessions
      PROVE  told[s] \in Seq(Frame) /\ gcq[s] \in Seq(Nat) /\ pauses \in Nat
  BY DEF TypeOK
<1>5. ASSUME NEW s \in Sessions, UNCHANGED hub, UNCHANGED hook[s]
      PROVE  Listening(s)' = Listening(s)
  BY <1>5 DEF Listening, hub
<1>6. ASSUME NEW s \in Sessions, running # s, hook'[s] = "installed" => hook[s] = "installed"
      PROVE  Listening(s)' => Listening(s)
  BY <1>6 DEF Listening
<1> HIDE DEF Kept
<1>7. CASE Switch
  <2>1. ASSUME NEW s \in Sessions PROVE Kept(s)'
    <3>1. running # s /\ UNCHANGED <<told[s], gcq[s], pauses, hook[s]>>
      BY <1>7, HookAssumption DEF Switch, chain
    <3>2. QED  BY <1>3, <1>6, <3>1
  <2>2. QED  BY <1>2, <2>1
<1>8. CASE Pause
  <2>1. ASSUME NEW s \in Sessions PROVE Kept(s)'
    <3>1. /\ pauses' = pauses + 1 /\ UNCHANGED <<hook[s], told[s], hub>>
          /\ Listening(s) => gcq'[s] = Enqueue(gcq[s], pauses + 1)
      BY <1>8 DEF Pause, chain
    <3>2. AllKept(told[s], gcq[s], pauses)
            => AllKept(told[s], Enqueue(gcq[s], pauses + 1), pauses + 1)
      BY <1>4, EnqueueKeeps
    <3>3. Listening(s)' = Listening(s)
      BY <1>5, <3>1
    <3>4. QED  BY <1>1, <3>1, <3>2, <3>3 DEF Kept
  <2>2. QED  BY <1>2, <2>1
<1>9. ASSUME NEW s \in Sessions, Install(s) PROVE PausesInv'
  <2>1. ASSUME NEW r \in Sessions, r # s PROVE Kept(r)'
    <3>1. UNCHANGED <<told[r], gcq[r], pauses, hub, hook[r]>>
      BY <1>9, <2>1 DEF Install, TypeOK
    <3>2. QED  BY <1>3, <1>5, <3>1
  <2>2. Kept(s)'
    <3>1. told'[s] = <<Hello>> /\ gcq'[s] = << >> /\ pauses' = pauses
      BY <1>9 DEF Install, Fresh, TypeOK
    <3>2. /\ <<Hello>> # << >> /\ Len(<<Hello>>) = 1 /\ <<Hello>>[1] = Hello
          /\ Hello.n = pauses /\ Hello.kind = "hello"
      BY DEF Hello
    <3>3. Gcs(<<Hello>>) = {}
      BY <3>2 DEF Gcs
    <3>4. (<<Hello>>[1].n + 1)..pauses = {} /\ Len(<< >>) = 0
      BY <1>4, <3>2
    <3>5. AllKept(<<Hello>>, << >>, pauses)
      BY <3>2, <3>3, <3>4 DEF AllKept, PausesKept
    <3>6. QED  BY <3>1, <3>5 DEF Kept
  <2>3. QED  BY <1>2, <2>1, <2>2
<1>10. ASSUME NEW s \in Sessions, Leave(s) PROVE PausesInv'
  <2>1. ASSUME NEW r \in Sessions PROVE Kept(r)'
    <3>1. UNCHANGED <<told[r], gcq[r], pauses, hub, hook[r]>>
      BY <1>10 DEF Leave, chain
    <3>2. QED  BY <1>3, <1>5, <3>1
  <2>2. QED  BY <1>2, <2>1
<1>11. ASSUME NEW s \in Sessions, running = s, UNCHANGED <<hook, pauses>>,
              told' = [told EXCEPT ![s] = @ \o GcFrames(gcq[s])],
              gcq' = [gcq EXCEPT ![s] = << >>], Listening(s)' => Listening(s)
       PROVE  PausesInv'
  <2>1. ASSUME NEW r \in Sessions, r # s PROVE Kept(r)'
    <3>1. UNCHANGED <<told[r], gcq[r], pauses, hook[r]>> /\ running # r
      BY <1>11, <2>1 DEF TypeOK
    <3>2. QED  BY <1>3, <1>6, <3>1
  <2>2. Kept(s)'
    <3>1. told'[s] = told[s] \o GcFrames(gcq[s]) /\ gcq'[s] = << >>
      BY <1>11 DEF TypeOK
    <3>2. AllKept(told[s], gcq[s], pauses)
            => AllKept(told[s] \o GcFrames(gcq[s]), << >>, pauses)
      BY <1>4, DrainKeeps
    <3>3. QED  BY <1>1, <1>11, <3>1, <3>2 DEF Kept
  <2>3. QED  BY <1>2, <2>1, <2>2
<1>12. ASSUME NEW s \in Sessions, SkipEvent(s) PROVE PausesInv'
  <2>1. Listening(s)' => Listening(s)
    BY <1>12 DEF SkipEvent, Listening, chain
  <2>2. QED  BY <1>11, <1>12, <2>1 DEF SkipEvent, Encode, Drained, chain
<1>13. ASSUME NEW s \in Sessions, TraceEvent(s) PROVE PausesInv'
  <2>1. ASSUME NEW r \in Sessions, r # s PROVE Kept(r)'
    <3>1. UNCHANGED <<told[r], gcq[r], pauses, hook[r]>> /\ running # r
      BY <1>13, <2>1 DEF TraceEvent, Encode, TypeOK, chain
    <3>2. QED  BY <1>3, <1>6, <3>1
  <2>2. Kept(s)'
    <3> DEFINE g == GcFrames(gcq[s])
               f == SwitchFrame(switches)
    <3>1. /\ told'[s] = told[s] \o Append(g, f) /\ gcq'[s] = << >>
          /\ UNCHANGED <<hook, pauses>> /\ phase = "event"
      BY <1>13 DEF TraceEvent, Encode, Event, Drained, TypeOK, chain
    <3>2. g \in Seq(Frame) /\ f \in Frame /\ f.kind # "gc"
      <4>1. g \in Seq(Frame)
        BY <1>4, FramesType
      <4>2. f \in Frame
        BY EncodedType
      <4>3. f.kind # "gc"
        BY DEF SwitchFrame
      <4>4. QED  BY <4>1, <4>2, <4>3
    <3> HIDE DEF g, f
    <3>3. told[s] \o g \in Seq(Frame) /\ told[s] \o Append(g, f) = Append(told[s] \o g, f)
      <4>1. told[s] \in Seq(Frame) /\ g \in Seq(Frame) /\ f \in Frame
        BY <1>4, <3>2
      <4>2. QED  BY <4>1, AppendLater
    <3>4. AllKept(told[s], gcq[s], pauses) => AllKept(told[s] \o g, << >>, pauses)
      BY <1>4, DrainKeeps DEF g
    <3>5. AllKept(told[s] \o g, << >>, pauses)
            => AllKept(Append(told[s] \o g, f), << >>, pauses)
      BY <1>4, <3>2, <3>3, EventKeeps
    <3>6. Listening(s)' => Listening(s)
      BY <3>1 DEF Listening
    <3>7. QED  BY <1>1, <3>1, <3>3, <3>4, <3>5, <3>6 DEF Kept
  <2>3. QED  BY <1>2, <2>1, <2>2
<1>14. ASSUME NEW s \in Sessions, Flush(s) PROVE PausesInv'
  <2>1. ASSUME NEW r \in Sessions PROVE Kept(r)'
    <3>1. UNCHANGED <<told[r], gcq[r], pauses, hook[r]>> /\ (running # r \/ phase = "send")
      BY <1>14 DEF Flush, chain
    <3>2. Listening(r)' => Listening(r)
      BY <3>1 DEF Listening
    <3>3. QED  BY <1>3, <3>1, <3>2
  <2>2. QED  BY <1>2, <2>1
<1>15. ASSUME NEW s \in Sessions, Teardown(s) PROVE PausesInv'
  <2>1. ~Listening(s)'
    BY <1>15 DEF Teardown, Listening
  <2>2. QED  BY <1>11, <1>15, <2>1 DEF Teardown, Encode, Drained, chain
<1>16. ASSUME NEW s \in Sessions, Uninstall(s) PROVE PausesInv'
  <2>1. ASSUME NEW r \in Sessions PROVE Kept(r)'
    <3>1. /\ UNCHANGED <<told[r], gcq[r], pauses>>
          /\ r = s => hook'[r] = "removed"
          /\ r # s => running # r /\ UNCHANGED hook[r]
      BY <1>16 DEF Uninstall, TypeOK
    <3>2. Listening(r)' => Listening(r)
      BY <3>1 DEF Listening
    <3>3. QED  BY <1>3, <3>1, <3>2
  <2>2. QED  BY <1>2, <2>1
<1>17. CASE UNCHANGED vars
  <2>1. ASSUME NEW r \in Sessions PROVE Kept(r)'
    <3>1. UNCHANGED <<told[r], gcq[r], pauses, hub, hook[r]>>
      BY <1>17 DEF vars, chain
    <3>2. QED  BY <1>3, <1>5, <3>1
  <2>2. QED  BY <1>2, <2>1
<1>18. QED
  BY <1>7, <1>8, <1>9, <1>10, <1>12, <1>13, <1>14, <1>15, <1>16, <1>17 DEF Next

-----------------------------------------------------------------------------
(* What a buffer holds. *)

LEMMA EnqueueBounded ==
  ASSUME NEW q \in Seq(Nat), NEW n \in Nat, Len(q) <= GcqLen
  PROVE  Len(Enqueue(q, n)) <= GcqLen
<1>1. Len(q) \in Nat /\ GcqLen \in Nat \ {0} /\ (Len(q) = GcqLen => q # << >>)
  BY HookAssumption, LenProperties
<1>2. CASE Len(q) = GcqLen
  <2>1. Tail(q) \in Seq(Nat) /\ Len(Tail(q)) = Len(q) - 1
    BY <1>1, <1>2, HeadTailProperties
  <2>2. QED  BY <1>1, <1>2, <2>1 DEF Enqueue
<1>3. CASE Len(q) # GcqLen
  BY <1>1, <1>3 DEF Enqueue
<1>4. QED  BY <1>2, <1>3

\* What n skipped events may leave, and one more.
LEMMA Products ==
  ASSUME NEW n \in Nat
  PROVE  /\ n * GcqLen \in Nat /\ 0 * GcqLen = 0
         /\ (n + 1) * GcqLen = n * GcqLen + GcqLen
         /\ (n + 2) * GcqLen = n * GcqLen + GcqLen + GcqLen
BY HookAssumption

LEMMA BoundStep ==
  ASSUME TypeOK, ChainInv, Fresh, BoundInv, StreamInv, [Next]_vars
  PROVE  BoundInv'
<1> DEFINE Small(s) == hook[s] = "installed" =>
             /\ Len(gcq[s]) <= GcqLen
             /\ Len(buf[s]) < FlushFrames + skips[s] * GcqLen + Slack(s)
<1>1. \A s \in Sessions : Small(s)
  BY DEF BoundInv
<1>2. (\A s \in Sessions : Small(s)') => BoundInv'
  BY DEF BoundInv
<1>3. ASSUME NEW s \in Sessions
      PROVE  /\ s # NoHook /\ buf[s] \in Seq(Frame) /\ gcq[s] \in Seq(Nat) /\ skips[s] \in Nat
             /\ Len(buf[s]) \in Nat /\ Len(gcq[s]) \in Nat
             /\ skips[s] * GcqLen \in Nat
             /\ running = s => hook[s] = "installed"
  <2>1. buf[s] \in Seq(Frame) /\ gcq[s] \in Seq(Nat) /\ skips[s] \in Nat
    BY DEF TypeOK
  <2>2. QED  BY <2>1, HookAssumption, LenProperties, Products, RunsInstalled
<1>4. FlushFrames \in Nat /\ 1 < FlushFrames /\ GcqLen \in Nat /\ 0 < GcqLen
  BY HookAssumption
\* Sessions other than the one that moves.
<1>5. ASSUME NEW r \in Sessions, running # r, running' # r \/ phase' = "event",
             UNCHANGED <<hook[r], gcq[r], buf[r], skips[r]>>
      PROVE  Small(r)'
  <2>1. Slack(r) = 0 /\ Slack(r)' = 0
    BY <1>5 DEF Slack
  <2>2. QED  BY <1>1, <1>5, <2>1
<1>6. ASSUME NEW r \in Sessions, UNCHANGED <<hook[r], buf[r], skips[r], hub>>,
             hook[r] = "installed" /\ Len(gcq[r]) <= GcqLen => Len(gcq'[r]) <= GcqLen
      PROVE  Small(r)'
  <2>1. Slack(r)' = Slack(r)
    BY <1>6 DEF Slack, hub
  <2>2. QED  BY <1>1, <1>6, <2>1
<1> HIDE DEF Small
<1>7. CASE Switch
  <2>1. ASSUME NEW r \in Sessions PROVE Small(r)'
    <3>1. running # r /\ running = NoHook /\ UNCHANGED <<hook[r], gcq[r], buf[r], skips[r], phase>>
      BY <1>3, <1>7 DEF Switch, chain
    <3>2. phase' = "event"
      BY <3>1 DEF StreamInv
    <3>3. QED  BY <1>5, <3>1, <3>2
  <2>2. QED  BY <1>2, <2>1
<1>8. CASE Pause
  <2>1. ASSUME NEW r \in Sessions PROVE Small(r)'
    <3>1. /\ UNCHANGED <<hook[r], buf[r], skips[r], hub>>
          /\ gcq'[r] = gcq[r] \/ gcq'[r] = Enqueue(gcq[r], pauses + 1)
      BY <1>8 DEF Pause, chain
    <3>2. Len(gcq[r]) <= GcqLen => Len(gcq'[r]) <= GcqLen
      <4>1. pauses + 1 \in Nat
        BY DEF TypeOK
      <4>2. QED  BY <1>3, <3>1, <4>1, EnqueueBounded
    <3>3. QED  BY <1>6, <3>1, <3>2
  <2>2. QED  BY <1>2, <2>1
<1>9. ASSUME NEW s \in Sessions, Install(s) PROVE BoundInv'
  <2>1. ASSUME NEW r \in Sessions, r # s PROVE Small(r)'
    <3>1. UNCHANGED <<hook[r], buf[r], skips[r], gcq[r], hub>>
      BY <1>9, <2>1 DEF Install, SendAll, TypeOK
    <3>2. QED  BY <1>6, <3>1
  <2>2. Small(s)'
    <3>1. buf'[s] = << >> \/ buf'[s] = <<Hello>>
      BY <1>9 DEF Install, SendAll, TypeOK
    <3>2. Len(buf'[s]) <= 1 /\ Len(buf'[s]) \in Nat
      <4>1. Len(<< >>) = 0 /\ Len(<<Hello>>) = 1
        OBVIOUS
      <4>2. CASE buf'[s] = << >>
        BY <4>1, <4>2
      <4>3. CASE buf'[s] = <<Hello>>
        <5>1. Len(buf'[s]) = 1
          BY <4>1, <4>3, Zenon
        <5>2. QED  BY <5>1
      <4>4. QED  BY <3>1, <4>2, <4>3
    <3>3. gcq'[s] = << >> /\ skips'[s] = skips[s] /\ running # s /\ running' # s
      BY <1>3, <1>9 DEF Install, Fresh, hub
    <3>4. Slack(s)' = 0
      BY <3>3 DEF Slack
    <3>5. Len(gcq'[s]) = 0
      BY <3>3
    <3>6. Len(buf'[s]) < FlushFrames + skips'[s] * GcqLen + Slack(s)'
      <4> DEFINE m == skips[s] * GcqLen
      <4>1. m \in Nat /\ skips'[s] * GcqLen = m
        BY <1>3, <3>3
      <4> HIDE DEF m
      <4>2. QED  BY <1>4, <3>2, <3>4, <4>1
    <3>7. QED  BY <1>4, <3>5, <3>6 DEF Small
  <2>3. QED  BY <1>2, <2>1, <2>2
<1>10. ASSUME NEW s \in Sessions, Leave(s) PROVE BoundInv'
  <2>1. ASSUME NEW r \in Sessions PROVE Small(r)'
    <3>1. UNCHANGED <<hook[r], buf[r], skips[r], gcq[r], hub>>
      BY <1>10 DEF Leave, chain
    <3>2. QED  BY <1>6, <3>1
  <2>2. QED  BY <1>2, <2>1
<1>11. ASSUME NEW s \in Sessions, NEW fs \in Seq(Frame)
       PROVE  Len(buf[s] \o fs) = Len(buf[s]) + Len(fs) /\ Len(fs) \in Nat
  BY <1>3, ConcatProperties, LenProperties
<1>12. ASSUME NEW s \in Sessions
       PROVE  /\ Drained(s) \in Seq(Frame) /\ Len(Drained(s)) = Len(gcq[s])
              /\ Event(s) \in Seq(Frame) /\ Len(Event(s)) = Len(gcq[s]) + 1
  <2>1. /\ Drained(s) \in Seq(Frame) /\ Event(s) \in Seq(Frame)
        /\ SwitchFrame(switches) \in Frame
    BY EncodedType
  <2>2. Len(Drained(s)) = Len(gcq[s])
    BY <1>3, FramesType DEF Drained
  <2>3. Len(Event(s)) = Len(Drained(s)) + 1
    BY <2>1, AppendProperties DEF Event
  <2>4. QED  BY <2>1, <2>2, <2>3
<1>13. ASSUME NEW s \in Sessions, SkipEvent(s) PROVE BoundInv'
  <2>1. running = s /\ phase = "event" /\ phase' = "event"
    BY <1>13 DEF SkipEvent
  <2>2. ASSUME NEW r \in Sessions, r # s PROVE Small(r)'
    <3>1. UNCHANGED <<hook[r], gcq[r], buf[r], skips[r]>>
      BY <1>13, <2>2 DEF SkipEvent, Encode, TypeOK, chain
    <3>2. QED  BY <1>5, <2>1, <2>2, <3>1
  <2>3. Small(s)'
    <3>1. buf'[s] = buf[s] \o Drained(s) /\ gcq'[s] = << >> /\ skips'[s] = skips[s] + 1
      BY <1>13 DEF SkipEvent, Encode, TypeOK
    <3>2. Slack(s) = 0 /\ Slack(s)' = 0
      BY <2>1 DEF Slack
    <3>3. Len(gcq[s]) <= GcqLen /\ Len(buf[s]) < FlushFrames + skips[s] * GcqLen + 0
      BY <1>1, <1>3, <2>1, <3>2 DEF Small
    <3>4. Len(buf'[s]) = Len(buf[s]) + Len(gcq[s])
      BY <1>11, <1>12, <3>1
    <3>5. skips'[s] * GcqLen = skips[s] * GcqLen + GcqLen
      BY <1>3, <3>1, Products
    <3>6. Len(buf'[s]) < FlushFrames + skips'[s] * GcqLen + Slack(s)'
      <4> DEFINE m == skips[s] * GcqLen  b == Len(buf[s])  q == Len(gcq[s])
      <4>1. m \in Nat /\ b \in Nat /\ q \in Nat /\ q <= GcqLen /\ b < FlushFrames + m + 0
        BY <1>3, <3>3
      <4>2. Len(buf'[s]) = b + q /\ skips'[s] * GcqLen = m + GcqLen
        BY <3>4, <3>5
      <4> HIDE DEF m, b, q
      <4>3. b + q < FlushFrames + (m + GcqLen) + 0
        BY <1>4, <4>1
      <4>4. QED  BY <3>2, <4>2, <4>3
    <3>7. Len(gcq'[s]) <= GcqLen
      <4>1. Len(<< >>) = 0
        OBVIOUS
      <4>2. QED  BY <1>4, <3>1, <4>1
    <3>8. QED  BY <3>6, <3>7 DEF Small
  <2>4. QED  BY <1>2, <2>2, <2>3
<1>14. ASSUME NEW s \in Sessions, TraceEvent(s) PROVE BoundInv'
  <2>1. running = s /\ phase = "event" /\ (running' = s \/ phase' = "event")
    BY <1>14 DEF TraceEvent
  <2>2. ASSUME NEW r \in Sessions, r # s PROVE Small(r)'
    <3>1. UNCHANGED <<hook[r], gcq[r], buf[r], skips[r]>>
      BY <1>14, <2>2 DEF TraceEvent, Encode, TypeOK, chain
    <3>2. QED  BY <1>5, <2>1, <2>2, <3>1
  <2>3. Small(s)'
    <3>1. buf'[s] = buf[s] \o Event(s) /\ gcq'[s] = << >>
      BY <1>14 DEF TraceEvent, Encode, TypeOK
    <3>2. Slack(s) = 0
      BY <2>1 DEF Slack
    <3>3. Len(gcq[s]) <= GcqLen /\ Len(buf[s]) < FlushFrames + skips[s] * GcqLen + 0
      BY <1>1, <1>3, <2>1, <3>2 DEF Small
    <3>4. Len(buf'[s]) = Len(buf[s]) + (Len(gcq[s]) + 1)
      BY <1>11, <1>12, <3>1
    <3>5. Len(gcq'[s]) <= GcqLen
      <4>1. Len(<< >>) = 0
        OBVIOUS
      <4>2. QED  BY <1>4, <3>1, <4>1
    <3>6. CASE Len(buf[s] \o Event(s)) < FlushFrames /\ skips'[s] = 0 /\ phase' = "event"
      <4>1. Slack(s)' = 0 /\ skips'[s] * GcqLen = 0
        BY <3>6, Products DEF Slack
      <4>2. Len(buf'[s]) < FlushFrames
        BY <3>1, <3>6
      <4>3. FlushFrames + 0 + 0 = FlushFrames
        BY <1>4
      <4>4. Len(buf'[s]) < FlushFrames + skips'[s] * GcqLen + Slack(s)'
        BY <4>1, <4>2, <4>3
      <4>5. QED  BY <3>5, <4>4 DEF Small
    <3>7. CASE phase' = "send" /\ running' = s /\ skips' = skips
      <4>1. Slack(s)' = GcqLen + 1
        BY <3>7 DEF Slack
      <4>2. Len(buf'[s]) < FlushFrames + skips'[s] * GcqLen + Slack(s)'
        <5> DEFINE m == skips[s] * GcqLen  b == Len(buf[s])  q == Len(gcq[s])
        <5>1. m \in Nat /\ b \in Nat /\ q \in Nat /\ q <= GcqLen /\ b < FlushFrames + m + 0
          BY <1>3, <3>3
        <5>2. Len(buf'[s]) = b + (q + 1) /\ skips'[s] * GcqLen = m
          BY <3>4, <3>7
        <5> HIDE DEF m, b, q
        <5>3. b + (q + 1) < FlushFrames + m + (GcqLen + 1)
          BY <1>4, <5>1
        <5>4. QED  BY <4>1, <5>2, <5>3
      <4>3. QED  BY <3>5, <4>2 DEF Small
    <3>8. QED  BY <1>14, <2>1, <3>6, <3>7 DEF TraceEvent, TypeOK
  <2>4. QED  BY <1>2, <2>2, <2>3
<1>15. ASSUME NEW s \in Sessions, Flush(s) PROVE BoundInv'
  <2>1. /\ running = s /\ phase = "send" /\ UNCHANGED <<hook, gcq>>
        /\ \/ SendAll(s, out) /\ skips'[s] = 0 /\ phase' = "event"
           \/ SendFails(s, out) /\ UNCHANGED <<skips, running>> /\ phase' = "leave"
    BY <1>15 DEF Flush, TypeOK, chain
  <2>2. ASSUME NEW r \in Sessions, r # s PROVE Small(r)'
    <3>1. UNCHANGED <<hook[r], gcq[r], buf[r], skips[r]>>
      BY <1>15, <2>2 DEF Flush, SendAll, SendFails, TypeOK, chain
    <3>2. running # r /\ (running' # r \/ phase' = "event")
      BY <2>1, <2>2
    <3>3. QED  BY <1>5, <3>1, <3>2
  <2>3. Len(gcq[s]) <= GcqLen /\ Len(buf[s]) < FlushFrames + skips[s] * GcqLen + Slack(s)
    BY <1>1, <1>3, <2>1 DEF Small
  <2>4. Small(s)'
    <3>1. CASE SendAll(s, out) /\ skips'[s] = 0 /\ phase' = "event"
      <4>1. Len(buf'[s]) = 0 /\ Slack(s)' = 0 /\ skips'[s] * GcqLen = 0
        <5>1. buf'[s] = << >>
          BY <3>1 DEF SendAll, TypeOK
        <5>2. QED  BY <3>1, <5>1, Products DEF Slack
      <4>2. Len(buf'[s]) < FlushFrames + skips'[s] * GcqLen + Slack(s)'
        BY <1>4, <4>1
      <4>3. QED  BY <2>1, <2>3, <4>2 DEF Small
    <3>2. CASE SendFails(s, out) /\ UNCHANGED <<skips, running>> /\ phase' = "leave"
      <4>1. Slack(s)' = Slack(s) /\ buf' = buf
        BY <2>1, <3>2 DEF Slack, SendFails
      <4>2. QED  BY <2>1, <2>3, <3>2, <4>1 DEF Small
    <3>3. QED  BY <2>1, <3>1, <3>2
  <2>5. QED  BY <1>2, <2>2, <2>4
<1>16. ASSUME NEW s \in Sessions, Teardown(s) PROVE BoundInv'
  <2>1. /\ running = s /\ phase = "leave" /\ running' = s /\ phase' = "lastSend"
        /\ skips' = skips
    BY <1>16 DEF Teardown
  <2>2. ASSUME NEW r \in Sessions, r # s PROVE Small(r)'
    <3>1. UNCHANGED <<hook[r], gcq[r], buf[r], skips[r]>>
      BY <1>16, <2>2 DEF Teardown, Encode, TypeOK, chain
    <3>2. QED  BY <1>5, <2>1, <2>2, <3>1
  <2>3. Small(s)'
    <3>1. buf'[s] = buf[s] \o Drained(s) /\ gcq'[s] = << >>
      BY <1>16 DEF Teardown, Encode, TypeOK
    <3>2. Slack(s) = GcqLen + 1 /\ Slack(s)' = GcqLen + GcqLen + 1
      BY <2>1 DEF Slack
    <3>3. Len(gcq[s]) <= GcqLen /\ Len(buf[s]) < FlushFrames + skips[s] * GcqLen + Slack(s)
      BY <1>1, <1>3, <2>1 DEF Small
    <3>4. Len(buf'[s]) = Len(buf[s]) + Len(gcq[s])
      BY <1>11, <1>12, <3>1
    <3>5. Len(buf'[s]) < FlushFrames + skips'[s] * GcqLen + Slack(s)'
      <4> DEFINE m == skips[s] * GcqLen  b == Len(buf[s])  q == Len(gcq[s])
      <4>1. /\ m \in Nat /\ b \in Nat /\ q \in Nat /\ q <= GcqLen
            /\ b < FlushFrames + m + (GcqLen + 1)
        BY <1>3, <3>2, <3>3
      <4>2. Len(buf'[s]) = b + q /\ skips'[s] * GcqLen = m
        BY <2>1, <3>4
      <4> HIDE DEF m, b, q
      <4>3. b + q < FlushFrames + m + (GcqLen + GcqLen + 1)
        BY <1>4, <4>1
      <4>4. QED  BY <3>2, <4>2, <4>3
    <3>6. Len(gcq'[s]) <= GcqLen
      <4>1. Len(<< >>) = 0
        OBVIOUS
      <4>2. QED  BY <1>4, <3>1, <4>1
    <3>7. QED  BY <3>5, <3>6 DEF Small
  <2>4. QED  BY <1>2, <2>2, <2>3
<1>17. ASSUME NEW s \in Sessions, Uninstall(s) PROVE BoundInv'
  <2>1. running = s /\ phase' = "event" /\ hook'[s] = "removed"
    BY <1>17 DEF Uninstall, TypeOK
  <2>2. ASSUME NEW r \in Sessions, r # s PROVE Small(r)'
    <3>1. UNCHANGED <<hook[r], gcq[r], buf[r], skips[r]>>
      BY <1>17, <2>2 DEF Uninstall, SendAll, SendFails, TypeOK
    <3>2. QED  BY <1>5, <2>1, <2>2, <3>1
  <2>3. Small(s)'
    BY <2>1 DEF Small
  <2>4. QED  BY <1>2, <2>2, <2>3
<1>18. CASE UNCHANGED vars
  <2>1. ASSUME NEW r \in Sessions PROVE Small(r)'
    <3>1. UNCHANGED <<hook[r], buf[r], skips[r], gcq[r], hub>>
      BY <1>18 DEF vars, chain
    <3>2. QED  BY <1>6, <3>1
  <2>2. QED  BY <1>2, <2>1
<1>19. QED
  BY <1>7, <1>8, <1>9, <1>10, <1>13, <1>14, <1>15, <1>16, <1>17, <1>18 DEF Next

-----------------------------------------------------------------------------
(* The theorems. *)

LEMMA HookInductive == Spec => []HookInv
<1>1. HookInv /\ [Next]_vars => HookInv'
  BY TypeStep, ChainStep, FreshStep, StreamStep, PausesStep, BoundStep DEF HookInv
<1>2. QED  BY InitHook, <1>1, PTL DEF Spec

\* The hook's state keeps its types.
THEOREM TypeCorrect == Spec => []TypeOK
<1>1. HookInv => TypeOK
  BY DEF HookInv
<1>2. QED  BY <1>1, HookInductive, PTL

\* The socket carries a leading part of what was encoded and the buffer the rest,
\* for any number of sessions, whatever sends fail half way or find nobody; after
\* one that times out, a part of that buffer twice and nothing else.
THEOREM StreamIsExact == Spec => []StreamExact
<1>1. HookInv => StreamExact
  <2> SUFFICES ASSUME HookInv, NEW s \in Sessions
               PROVE  IF stalled[s] THEN Repeats(told[s], wire[s], hook[s] = "removed")
                      ELSE Carried(told[s], wire[s], buf[s], peer[s] = "open")
    BY DEF StreamExact
  <2>1. /\ SentExactly(s) /\ buf[s] \in Seq(Frame) /\ wire[s] \in Seq(Sent)
        /\ running = s => hook[s] = "installed"
    BY RunsInstalled DEF HookInv, StreamInv, TypeOK
  <2>2. CASE stalled[s] /\ hook[s] = "removed"
    BY <2>1, <2>2 DEF SentExactly
  <2>3. CASE stalled[s] /\ hook[s] # "removed"
    <3>1. StalledOnce(told[s], wire[s], buf[s])
      BY <2>1, <2>3 DEF SentExactly
    <3>2. Repeats(told[s], wire[s], FALSE)
      BY <2>1, <3>1, StalledNow
    <3>3. (hook[s] = "removed") = FALSE
      BY <2>3
    <3>4. QED  BY <2>3, <3>2, <3>3
  <2>4. CASE ~stalled[s]
    BY <2>1, <2>4 DEF SentExactly
  <2>5. QED  BY <2>2, <2>3, <2>4
<1>2. QED  BY <1>1, HookInductive, PTL

\* Pauses are encoded at most once, in order, and lost only to a full queue, for
\* any length of the queue and any interleaving of collections and switches.
THEOREM PausesAreExact == Spec => []GcExact
<1>1. HookInv => GcExact
  BY DEF HookInv, PausesInv, GcExact
<1>2. QED  BY <1>1, HookInductive, PTL

\* All that a hook holds in the target is bounded by a flush's worth, a queue for
\* each event skipped in a row, and two queues more on its way out.
THEOREM BuffersAreBounded == Spec => []BufferBounded
<1>1. HookInv => BufferBounded
  <2> SUFFICES ASSUME HookInv, NEW s \in Sessions, hook[s] = "installed"
               PROVE  /\ Len(gcq[s]) <= GcqLen
                      /\ running # s \/ phase = "event" =>
                           Len(buf[s]) < FlushFrames + skips[s] * GcqLen
                      /\ Len(buf[s]) <= FlushFrames + (skips[s] + 2) * GcqLen
    BY DEF BufferBounded
  <2> DEFINE m == skips[s] * GcqLen
  <2>1. /\ skips[s] \in Nat /\ Len(buf[s]) \in Nat
        /\ FlushFrames \in Nat /\ GcqLen \in Nat
    BY HookAssumption, LenProperties DEF HookInv, TypeOK
  <2>2. m \in Nat /\ (skips[s] + 2) * GcqLen = m + GcqLen + GcqLen
    BY <2>1, Products
  <2>3. Len(gcq[s]) <= GcqLen /\ Len(buf[s]) < FlushFrames + m + Slack(s)
    BY DEF HookInv, BoundInv
  <2>4. Slack(s) \in {0, GcqLen + 1, GcqLen + GcqLen + 1}
    BY DEF Slack
  <2>5. running # s \/ phase = "event" => Slack(s) = 0
    BY DEF Slack
  <2> HIDE DEF m
  <2>6. Len(buf[s]) <= FlushFrames + (m + GcqLen + GcqLen)
    BY <2>1, <2>2, <2>3, <2>4
  <2>7. running # s \/ phase = "event" => Len(buf[s]) < FlushFrames + m
    BY <2>1, <2>2, <2>3, <2>5
  <2>8. QED  BY <2>2, <2>3, <2>6, <2>7 DEF m
<1>2. QED  BY <1>1, HookInductive, PTL

\* When every session that came has gone, in whatever order, no trace function
\* of any of them is left in the target.
THEOREM TargetIsLeftAsFound == Spec => []LeftAsFound
<1>1. HookInv => LeftAsFound
  BY DEF HookInv, ChainInv, LeftAsFound
<1>2. QED  BY <1>1, HookInductive, PTL
=============================================================================
