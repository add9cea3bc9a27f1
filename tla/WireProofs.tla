----------------------------- MODULE WireProofs ------------------------------
(***************************************************************************)
(* Machine-checked theorems about Wire and Framing: the two sides' pools   *)
(* and time base stay in step, the collector gets every event as it was    *)
(* meant, and the segments of a recording read back as what each flush was *)
(* given; the bytes of numbers, frames and segments read back as what was  *)
(* written, however the reads cut them and wherever a file is cut off.     *)
(***************************************************************************)
EXTENDS Framing, SequenceLemmas

-----------------------------------------------------------------------------
(* Types. *)

Fields == {"label", "func", "task"}

\* The texts, "" among them, and the stacks of the items.
Str == STRING \cup {""}
Stacks == Seq(Str) \ {<<"">>}

\* The events, those with a time, and the texts these have.
Names == {"switch", "execution", "gc", "sample"}
Timed == Names \ {"gc"}
Places(type) == IF type = "sample" THEN {} ELSE Fields

LEMMA EmptyStr == "" \in Str
BY DEF Str

Frame ==
  [tag : {"schema"}, type : Names] \cup [tag : {"string"}, text : Str]
    \cup [tag : {"stack"}, ids : Seq(Nat)] \cup [tag : {"reset"}, ts : Nat] \cup [tag : {"meta"}]
    \cup [tag : {"event"}, type : {"gc"}, n : Nat]
    \cup UNION {[tag : {"event"}, type : {y}, delta : Nat, ids : [Places(y) -> Nat], stack : Nat] :
                 y \in Timed}

Encoders ==
  [strings : Seq(Str), stacks : Seq(Seq(Str)), base : Nat, bounded : BOOLEAN,
   out : Seq(Frame)]

Item ==
  [type : {"meta"}] \cup [type : {"gc"}, n : Nat]
    \cup UNION {[type : {y}, ts : Nat, texts : [Places(y) -> Str], stack : Stacks] : y \in Timed}

Decoders ==
  [strings : Seq(Str), stacks : Seq(Stacks), types : SUBSET Names, base : Nat,
   ok : BOOLEAN]

Reads == [dec : Decoders, items : Seq(Item)]

Event ==
  [type : {"gc"}, n : Nat]
    \cup [type : {"switch"}, ts : Nat, texts : [Fields -> Str], stack : Seq(Str)]

-----------------------------------------------------------------------------
(* The encoder's steps. *)

LEMMA FrameKinds ==
  /\ \A s \in Str : [tag |-> "string", text |-> s] \in Frame
  /\ \A s \in Names : Schema(s) \in Frame
  /\ \A t \in Nat : [tag |-> "reset", ts |-> t] \in Frame
  /\ \A ids \in Seq(Nat) : [tag |-> "stack", ids |-> ids] \in Frame
  /\ [tag |-> "meta"] \in Frame
  /\ \A n \in Nat : [tag |-> "event", type |-> "gc", n |-> n] \in Frame
  /\ \A y \in Timed : \A d, k \in Nat, ids \in [Places(y) -> Nat] :
       [tag |-> "event", type |-> y, delta |-> d, ids |-> ids, stack |-> k] \in Frame
<1>1. ASSUME NEW y \in Timed, NEW d \in Nat, NEW k \in Nat, NEW ids \in [Places(y) -> Nat]
      PROVE  [tag |-> "event", type |-> y, delta |-> d, ids |-> ids, stack |-> k] \in Frame
  <2> DEFINE P == Places(y)
             S == [tag : {"event"}, type : {y}, delta : Nat, ids : [P -> Nat], stack : Nat]
             f == [tag |-> "event", type |-> y, delta |-> d, ids |-> ids, stack |-> k]
  <2> HIDE DEF P
  <2>1. f \in S
    BY DEF P
  <2> HIDE DEF f, S
  <2>2. S \subseteq Frame
    BY DEF Frame, S, P
  <2>3. QED  BY <2>1, <2>2 DEF f
<1>2. QED  BY <1>1 DEF Frame, Schema

\* A record is made of its fields.
LEMMA FiveFields ==
  ASSUME NEW A, NEW B, NEW C, NEW D, NEW E,
         NEW r \in [strings : A, stacks : B, base : C, bounded : D, out : E]
  PROVE  r = [strings |-> r.strings, stacks |-> r.stacks, base |-> r.base,
              bounded |-> r.bounded, out |-> r.out]
BY SMT

LEMMA EncoderIs ==
  ASSUME NEW e \in Encoders
  PROVE  /\ e = [strings |-> e.strings, stacks |-> e.stacks, base |-> e.base,
                bounded |-> e.bounded, out |-> e.out]
         /\ e.strings \in Seq(Str) /\ e.stacks \in Seq(Seq(Str)) /\ e.base \in Nat
         /\ e.bounded \in BOOLEAN /\ e.out \in Seq(Frame)
<1>1. e = [strings |-> e.strings, stacks |-> e.stacks, base |-> e.base,
           bounded |-> e.bounded, out |-> e.out]
  BY FiveFields DEF Encoders
<1>2. QED  BY <1>1 DEF Encoders

\* One field changed.
LEMMA Changed ==
  ASSUME NEW e \in Encoders, NEW x
  PROVE  /\ [e EXCEPT !.strings = x] = [strings |-> x, stacks |-> e.stacks, base |-> e.base,
                                       bounded |-> e.bounded, out |-> e.out]
         /\ [e EXCEPT !.stacks = x] = [strings |-> e.strings, stacks |-> x, base |-> e.base,
                                      bounded |-> e.bounded, out |-> e.out]
         /\ [e EXCEPT !.base = x] = [strings |-> e.strings, stacks |-> e.stacks, base |-> x,
                                    bounded |-> e.bounded, out |-> e.out]
         /\ [e EXCEPT !.out = x] = [strings |-> e.strings, stacks |-> e.stacks, base |-> e.base,
                                   bounded |-> e.bounded, out |-> x]
<1>1. ASSUME NEW a, NEW b, NEW c, NEW d, NEW o
      PROVE  [[strings |-> a, stacks |-> b, base |-> c, bounded |-> d, out |-> o] EXCEPT !.strings = x]
               = [strings |-> x, stacks |-> b, base |-> c, bounded |-> d, out |-> o]
  BY SMT
<1>2. ASSUME NEW a, NEW b, NEW c, NEW d, NEW o
      PROVE  [[strings |-> a, stacks |-> b, base |-> c, bounded |-> d, out |-> o] EXCEPT !.stacks = x]
               = [strings |-> a, stacks |-> x, base |-> c, bounded |-> d, out |-> o]
  BY SMT
<1>3. ASSUME NEW a, NEW b, NEW c, NEW d, NEW o
      PROVE  [[strings |-> a, stacks |-> b, base |-> c, bounded |-> d, out |-> o] EXCEPT !.base = x]
               = [strings |-> a, stacks |-> b, base |-> x, bounded |-> d, out |-> o]
  BY SMT
<1>4. ASSUME NEW a, NEW b, NEW c, NEW d, NEW o
      PROVE  [[strings |-> a, stacks |-> b, base |-> c, bounded |-> d, out |-> o] EXCEPT !.out = x]
               = [strings |-> a, stacks |-> b, base |-> c, bounded |-> d, out |-> x]
  BY SMT
<1>5. QED  BY <1>1, <1>2, <1>3, <1>4, EncoderIs

LEMMA EmitIs ==
  ASSUME NEW e \in Encoders, NEW f
  PROVE  /\ Emit(e, f) = [strings |-> e.strings, stacks |-> e.stacks, base |-> e.base,
                          bounded |-> e.bounded, out |-> Append(e.out, f)]
         /\ f \in Frame => Emit(e, f) \in Encoders
<1>1. Emit(e, f) = [strings |-> e.strings, stacks |-> e.stacks, base |-> e.base,
                    bounded |-> e.bounded, out |-> Append(e.out, f)]
  BY Changed DEF Emit
<1>2. ASSUME f \in Frame PROVE Append(e.out, f) \in Seq(Frame)
  BY <1>2, EncoderIs, AppendProperties
<1>3. QED  BY <1>1, <1>2, EncoderIs DEF Encoders

\* A string is sent and joins the pool, or nothing happens.
Interned(e, s) ==
  [strings |-> Append(e.strings, s), stacks |-> e.stacks, base |-> e.base, bounded |-> e.bounded,
   out |-> Append(e.out, [tag |-> "string", text |-> s])]

LEMMA InternIs ==
  ASSUME NEW e \in Encoders, NEW s \in Str
  PROVE  /\ Intern(e, s) = IF s = "" \/ Has(e.strings, s) \/ Full(e, e.strings) THEN e
                           ELSE Interned(e, s)
         /\ Intern(e, s) \in Encoders
<1> DEFINE more == [e EXCEPT !.strings = Append(@, s)]
<1>1. Append(e.strings, s) \in Seq(Str)
  BY EncoderIs, AppendProperties
<1>2. /\ more = [strings |-> Append(e.strings, s), stacks |-> e.stacks, base |-> e.base,
                 bounded |-> e.bounded, out |-> e.out]
      /\ more \in Encoders
  BY <1>1, Changed, EncoderIs DEF Encoders
<1> HIDE DEF more
<1>3. /\ Emit(more, [tag |-> "string", text |-> s]) = Interned(e, s)
      /\ Emit(more, [tag |-> "string", text |-> s]) \in Encoders
  BY <1>2, EmitIs, FrameKinds DEF Interned
<1>4. QED  BY <1>3 DEF Intern, more

\* The fold that interns several strings goes through the states g.
Goes(g, e, ss) ==
  g[0] = e /\ \A i \in 1..Len(ss) : g[i] = Intern(g[i - 1], ss[i])

LEMMA InternFold ==
  ASSUME NEW e \in Encoders, NEW ss \in Seq(Str)
  PROVE  \E g \in [0..Len(ss) -> Encoders] :
           Goes(g, e, ss) /\ FoldLeft(Intern, e, ss) = g[Len(ss)]
<1> DEFINE N == Len(ss)
           F == [p \in Encoders \X (1..N) |-> Intern(p[1], ss[p[2]])]
           Recursion(h) ==
             h = [S \in SUBSET (DOMAIN ss) |->
                    IF S = {} THEN e ELSE Intern(h[S \ {Max(S)}], ss[Max(S)])]
           iter == CHOOSE h : Recursion(h)
           g == [i \in 0..N |-> iter[1..i]]
<1>1. N \in Nat /\ DOMAIN ss = 1..N /\ \A i \in 1..N : ss[i] \in Str
  BY LenProperties, ElementOfSeq
<1>2. F \in [Encoders \X (1..N) -> Encoders]
  BY <1>1, InternIs
<1>3. \A x \in Encoders, m \in 1..N : F[<<x, m>>] = Intern(x, ss[m])
  OBVIOUS
<1> HIDE DEF F
<1>4. PICK h \in [SUBSET (1..N) -> Encoders] : FoldsBy(h, e, F, N)
  BY <1>1, <1>2, FoldExists
<1>5. Recursion(h)
  <2>1. ASSUME NEW S \in SUBSET (1..N)
        PROVE  h[S] = IF S = {} THEN e ELSE Intern(h[S \ {Max(S)}], ss[Max(S)])
    <3>1. h[S] = IF S = {} THEN e ELSE F[<<h[S \ {Max(S)}], Max(S)>>]
      BY <1>4 DEF FoldsBy
    <3>2. S # {} => Max(S) \in 1..N /\ h[S \ {Max(S)}] \in Encoders
      BY <1>1, MaxIs
    <3>3. QED  BY <1>3, <3>1, <3>2
  <2>2. QED  BY <1>1, <2>1
<1>6. Recursion(iter)
  <2> HIDE DEF Recursion
  <2>1. QED  BY <1>5
<1>7. FoldLeft(Intern, e, ss) = iter[DOMAIN ss]
  BY DEF FoldLeft, MapThenFoldSet
<1> HIDE DEF iter
<1>8. \A S \in SUBSET (1..N) :
        iter[S] = IF S = {} THEN e ELSE Intern(iter[S \ {Max(S)}], ss[Max(S)])
  BY <1>1, <1>6
<1>9. g[0] = e
  <2>1. 1..0 = {} /\ 1..0 \in SUBSET (1..N) /\ 0 \in 0..N
    BY <1>1
  <2>2. QED  BY <1>8, <2>1
<1>10. ASSUME NEW i \in 1..N PROVE g[i] = Intern(g[i - 1], ss[i])
  <2>1. 1..i \in SUBSET (1..N) /\ 1..i # {} /\ Max(1..i) = i /\ (1..i) \ {i} = 1..(i - 1)
    BY <1>1, UpTo
  <2>2. iter[1..i] = Intern(iter[1..(i - 1)], ss[i])
    BY <1>8, <2>1
  <2>3. i \in 0..N /\ i - 1 \in 0..N
    BY <1>1
  <2>4. QED  BY <2>2, <2>3
<1>11. g[N] = iter[DOMAIN ss]
  BY <1>1
<1>12. DOMAIN g = 0..N /\ g = [i \in 0..N |-> g[i]]
  OBVIOUS
<1> HIDE DEF g
<1>13. \A i \in 0..N : g[i] \in Encoders
  <2> DEFINE T == {i \in 0..N : g[i] \in Encoders}
  <2>1. 0 \in T
    BY <1>1, <1>9
  <2>2. ASSUME NEW i \in 1..N, i - 1 \in T PROVE i \in T
    <3>1. g[i - 1] \in Encoders /\ ss[i] \in Str /\ i \in 0..N
      BY <1>1, <2>2
    <3>2. Intern(g[i - 1], ss[i]) \in Encoders
      BY <3>1, InternIs
    <3>3. g[i] = Intern(g[i - 1], ss[i])
      BY <1>10
    <3>4. QED  BY <3>1, <3>2, <3>3
  <2>3. \A i \in 0..N : i \in T
    <3> HIDE DEF T
    <3>1. QED  BY <1>1, <2>1, <2>2, Climb
  <2>4. QED  BY <2>3
<1>14. g \in [0..N -> Encoders]
  BY <1>12, <1>13
<1>15. Goes(g, e, ss)
  BY <1>9, <1>10 DEF Goes
<1>16. QED  BY <1>7, <1>11, <1>14, <1>15

-----------------------------------------------------------------------------
(* The decoder's steps. *)

StringFrame(s) == [tag |-> "string", text |-> s]
StackOf(ids) == [tag |-> "stack", ids |-> ids]
ResetFrame(t) == [tag |-> "reset", ts |-> t]
MetaFrame == [tag |-> "meta"]
GcFrame(n) == [tag |-> "event", type |-> "gc", n |-> n]
TimedFrame(y, d, ids, k) == [tag |-> "event", type |-> y, delta |-> d, ids |-> ids, stack |-> k]

LEMMA FrameCases ==
  ASSUME NEW f \in Frame
  PROVE  \/ \E s \in Names : f = Schema(s)
         \/ \E s \in Str : f = StringFrame(s)
         \/ \E ids \in Seq(Nat) : f = StackOf(ids)
         \/ \E t \in Nat : f = ResetFrame(t)
         \/ f = MetaFrame
         \/ \E n \in Nat : f = GcFrame(n)
         \/ \E y \in Timed : \E d, k \in Nat, ids \in [Places(y) -> Nat] : f = TimedFrame(y, d, ids, k)
<1>1. CASE f \in [tag : {"schema"}, type : Names]
  BY <1>1 DEF Schema
<1>2. CASE f \in [tag : {"string"}, text : Str]
  BY <1>2 DEF StringFrame
<1>3. CASE f \in [tag : {"stack"}, ids : Seq(Nat)]
  BY <1>3 DEF StackOf
<1>4. CASE f \in [tag : {"reset"}, ts : Nat]
  BY <1>4 DEF ResetFrame
<1>5. CASE f \in [tag : {"meta"}]
  BY <1>5 DEF MetaFrame
<1>6. CASE f \in [tag : {"event"}, type : {"gc"}, n : Nat]
  BY <1>6 DEF GcFrame
<1>7. ASSUME NEW y \in Timed,
             f \in [tag : {"event"}, type : {y}, delta : Nat, ids : [Places(y) -> Nat], stack : Nat]
      PROVE  \E d, k \in Nat, ids \in [Places(y) -> Nat] : f = TimedFrame(y, d, ids, k)
  <2> DEFINE P == Places(y)
  <2> HIDE DEF P
  <2>1. f \in [tag : {"event"}, type : {y}, delta : Nat, ids : [P -> Nat], stack : Nat]
    BY <1>7 DEF P
  <2>2. f = TimedFrame(y, f.delta, f.ids, f.stack)
    BY <2>1 DEF TimedFrame
  <2>3. f.delta \in Nat /\ f.ids \in [P -> Nat] /\ f.stack \in Nat
    BY <2>1
  <2>4. QED  BY <2>2, <2>3 DEF P
<1>8. QED  BY <1>1, <1>2, <1>3, <1>4, <1>5, <1>6, <1>7 DEF Frame

LEMMA DecoderIs ==
  ASSUME NEW d \in Decoders
  PROVE  /\ d = [strings |-> d.strings, stacks |-> d.stacks, types |-> d.types, base |-> d.base,
                ok |-> d.ok]
         /\ d.strings \in Seq(Str) /\ d.stacks \in Seq(Stacks) /\ d.types \in SUBSET Names
         /\ d.base \in Nat /\ d.ok \in BOOLEAN
<1>1. ASSUME NEW A, NEW B, NEW C, NEW D, NEW E,
             NEW r \in [strings : A, stacks : B, types : C, base : D, ok : E]
      PROVE  r = [strings |-> r.strings, stacks |-> r.stacks, types |-> r.types, base |-> r.base,
                  ok |-> r.ok]
  BY SMT
<1>2. d = [strings |-> d.strings, stacks |-> d.stacks, types |-> d.types, base |-> d.base,
           ok |-> d.ok]
  BY <1>1 DEF Decoders
<1>3. QED  BY <1>2 DEF Decoders

LEMMA DecoderChanged ==
  ASSUME NEW d \in Decoders, NEW x
  PROVE  /\ [d EXCEPT !.strings = x] = [strings |-> x, stacks |-> d.stacks, types |-> d.types,
                                       base |-> d.base, ok |-> d.ok]
         /\ [d EXCEPT !.stacks = x] = [strings |-> d.strings, stacks |-> x, types |-> d.types,
                                      base |-> d.base, ok |-> d.ok]
         /\ [d EXCEPT !.types = x] = [strings |-> d.strings, stacks |-> d.stacks, types |-> x,
                                     base |-> d.base, ok |-> d.ok]
         /\ [d EXCEPT !.base = x] = [strings |-> d.strings, stacks |-> d.stacks, types |-> d.types,
                                    base |-> x, ok |-> d.ok]
         /\ [d EXCEPT !.ok = x] = [strings |-> d.strings, stacks |-> d.stacks, types |-> d.types,
                                  base |-> d.base, ok |-> x]
<1>1. ASSUME NEW a, NEW b, NEW c, NEW m, NEW o
      PROVE  [[strings |-> a, stacks |-> b, types |-> c, base |-> m, ok |-> o] EXCEPT !.strings = x]
               = [strings |-> x, stacks |-> b, types |-> c, base |-> m, ok |-> o]
  BY SMT
<1>2. ASSUME NEW a, NEW b, NEW c, NEW m, NEW o
      PROVE  [[strings |-> a, stacks |-> b, types |-> c, base |-> m, ok |-> o] EXCEPT !.stacks = x]
               = [strings |-> a, stacks |-> x, types |-> c, base |-> m, ok |-> o]
  BY SMT
<1>3. ASSUME NEW a, NEW b, NEW c, NEW m, NEW o
      PROVE  [[strings |-> a, stacks |-> b, types |-> c, base |-> m, ok |-> o] EXCEPT !.types = x]
               = [strings |-> a, stacks |-> b, types |-> x, base |-> m, ok |-> o]
  BY SMT
<1>4. ASSUME NEW a, NEW b, NEW c, NEW m, NEW o
      PROVE  [[strings |-> a, stacks |-> b, types |-> c, base |-> m, ok |-> o] EXCEPT !.base = x]
               = [strings |-> a, stacks |-> b, types |-> c, base |-> x, ok |-> o]
  BY SMT
<1>5. ASSUME NEW a, NEW b, NEW c, NEW m, NEW o
      PROVE  [[strings |-> a, stacks |-> b, types |-> c, base |-> m, ok |-> o] EXCEPT !.ok = x]
               = [strings |-> a, stacks |-> b, types |-> c, base |-> m, ok |-> x]
  BY SMT
<1>6. QED  BY <1>1, <1>2, <1>3, <1>4, <1>5, DecoderIs

\* What each frame makes of the decoder.
LEMMA DecodeIs ==
  ASSUME NEW d \in Decoders
  PROVE  /\ \A s \in Names :
              /\ DecodeFrame(d, Schema(s)) = [d EXCEPT !.types = d.types \cup {s}]
              /\ Decoded(d, Schema(s)) = << >>
         /\ \A s \in Str :
              /\ DecodeFrame(d, StringFrame(s)) = [d EXCEPT !.strings = Append(d.strings, s)]
              /\ Decoded(d, StringFrame(s)) = << >>
         /\ \A ids \in Seq(Nat) :
              /\ DecodeFrame(d, StackOf(ids)) =
                   IF \A i \in DOMAIN ids : Known(d.strings, ids[i])
                   THEN [d EXCEPT !.stacks = Append(d.stacks,
                           Joined([i \in DOMAIN ids |-> Text(d.strings, "", ids[i])]))]
                   ELSE [d EXCEPT !.ok = FALSE]
              /\ Decoded(d, StackOf(ids)) = << >>
         /\ \A t \in Nat :
              /\ DecodeFrame(d, ResetFrame(t)) = [d EXCEPT !.base = t]
              /\ Decoded(d, ResetFrame(t)) = << >>
         /\ DecodeFrame(d, MetaFrame) = d
         /\ Decoded(d, MetaFrame) = <<[type |-> "meta"]>>
         /\ \A n \in Nat :
              /\ DecodeFrame(d, GcFrame(n)) = IF "gc" \in d.types THEN d ELSE [d EXCEPT !.ok = FALSE]
              /\ Decoded(d, GcFrame(n)) =
                   IF "gc" \in d.types THEN <<[type |-> "gc", n |-> n]>> ELSE << >>
<1>1. ASSUME NEW s \in Names
      PROVE  /\ DecodeFrame(d, Schema(s)) = [d EXCEPT !.types = d.types \cup {s}]
             /\ Decoded(d, Schema(s)) = << >>
  BY DEF DecodeFrame, Decoded, Schema
<1>2. ASSUME NEW s \in Str
      PROVE  /\ DecodeFrame(d, StringFrame(s)) = [d EXCEPT !.strings = Append(d.strings, s)]
             /\ Decoded(d, StringFrame(s)) = << >>
  BY DEF DecodeFrame, Decoded, StringFrame
<1>3. ASSUME NEW ids \in Seq(Nat)
      PROVE  /\ DecodeFrame(d, StackOf(ids)) =
                  IF \A i \in DOMAIN ids : Known(d.strings, ids[i])
                  THEN [d EXCEPT !.stacks = Append(d.stacks,
                          Joined([i \in DOMAIN ids |-> Text(d.strings, "", ids[i])]))]
                  ELSE [d EXCEPT !.ok = FALSE]
             /\ Decoded(d, StackOf(ids)) = << >>
  BY DEF DecodeFrame, Decoded, StackOf
<1>4. ASSUME NEW t \in Nat
      PROVE  /\ DecodeFrame(d, ResetFrame(t)) = [d EXCEPT !.base = t]
             /\ Decoded(d, ResetFrame(t)) = << >>
  BY DEF DecodeFrame, Decoded, ResetFrame
<1>5. DecodeFrame(d, MetaFrame) = d /\ Decoded(d, MetaFrame) = <<[type |-> "meta"]>>
  BY DEF DecodeFrame, Decoded, MetaFrame
<1>6. ASSUME NEW n \in Nat
      PROVE  /\ DecodeFrame(d, GcFrame(n)) = IF "gc" \in d.types THEN d ELSE [d EXCEPT !.ok = FALSE]
             /\ Decoded(d, GcFrame(n)) =
                  IF "gc" \in d.types THEN <<[type |-> "gc", n |-> n]>> ELSE << >>
  BY DEF DecodeFrame, Decoded, GcFrame, EventIsKnown, AfterEvent, ItemOf
<1>7. QED  BY <1>1, <1>2, <1>3, <1>4, <1>5, <1>6

TimedItem(d, y, delta, ids, k) ==
  [type |-> y, ts |-> d.base + delta,
   texts |-> [t \in Places(y) |-> Text(d.strings, "", ids[t])], stack |-> Text(d.stacks, << >>, k)]

KnownTimed(d, y, ids, k) ==
  /\ y \in d.types
  /\ \A t \in Places(y) : Known(d.strings, ids[t])
  /\ Known(d.stacks, k)

LEMMA DecodeTimed ==
  ASSUME NEW d \in Decoders, NEW y \in Timed, NEW delta \in Nat, NEW k \in Nat,
         NEW ids \in [Places(y) -> Nat]
  PROVE  /\ DecodeFrame(d, TimedFrame(y, delta, ids, k)) =
              IF KnownTimed(d, y, ids, k) THEN [d EXCEPT !.base = d.base + delta]
              ELSE [d EXCEPT !.ok = FALSE]
         /\ Decoded(d, TimedFrame(y, delta, ids, k)) =
              IF KnownTimed(d, y, ids, k) THEN <<TimedItem(d, y, delta, ids, k)>> ELSE << >>
<1> DEFINE f == TimedFrame(y, delta, ids, k)
           P == Places(y)
<1> HIDE DEF P
<1>1. /\ f.tag = "event" /\ f.type = y /\ f.delta = delta /\ f.ids = ids
      /\ f.stack = k
  BY DEF TimedFrame
<1> HIDE DEF f
<1>2. y # "gc" /\ DOMAIN ids = P
  BY DEF Timed, P
<1>3. EventIsKnown(d, f) <=> KnownTimed(d, y, ids, k)
  BY <1>1, <1>2 DEF EventIsKnown, KnownTimed, P
<1>4. AfterEvent(d, f) = [d EXCEPT !.base = d.base + delta]
  BY <1>1, <1>2 DEF AfterEvent
<1>5. ItemOf(d, f) = TimedItem(d, y, delta, ids, k)
  BY <1>1, <1>2 DEF ItemOf, TimedItem, P
<1>6. DecodeFrame(d, f) = IF EventIsKnown(d, f) THEN AfterEvent(d, f) ELSE [d EXCEPT !.ok = FALSE]
  BY <1>1 DEF DecodeFrame
<1>7. Decoded(d, f) = IF EventIsKnown(d, f) THEN <<ItemOf(d, f)>> ELSE << >>
  BY <1>1 DEF Decoded
<1>8. QED  BY <1>3, <1>4, <1>5, <1>6, <1>7 DEF f

LEMMA TextType ==
  ASSUME NEW S, NEW pool \in Seq(S), NEW empty \in S, NEW id \in Nat, Known(pool, id)
  PROVE  Text(pool, empty, id) \in S
<1>1. id # 0 => id \in 1..Len(pool)
  BY LenProperties DEF Known
<1>2. id # 0 => pool[id] \in S
  BY <1>1, ElementOfSeq
<1>3. QED  BY <1>2 DEF Text

LEMMA StringType ==
  ASSUME NEW pool \in Seq(Str), NEW id \in Nat, Known(pool, id)
  PROVE  Text(pool, "", id) \in Str
<1>1. "" \in Str
  BY EmptyStr
<1>2. id # 0 => id \in 1..Len(pool)
  BY LenProperties DEF Known
<1>3. id # 0 => pool[id] \in Str
  BY <1>2, ElementOfSeq
<1>4. QED  BY <1>1, <1>3 DEF Text

LEMMA EmptyStack == << >> \in Stacks
BY DEF Stacks

LEMMA ItemKinds ==
  /\ [type |-> "meta"] \in Item
  /\ \A n \in Nat : [type |-> "gc", n |-> n] \in Item
  /\ \A y \in Timed : \A ts \in Nat, texts \in [Places(y) -> Str], stack \in Stacks :
       [type |-> y, ts |-> ts, texts |-> texts, stack |-> stack] \in Item
<1>1. ASSUME NEW y \in Timed, NEW ts \in Nat, NEW texts \in [Places(y) -> Str], NEW stack \in Stacks
      PROVE  [type |-> y, ts |-> ts, texts |-> texts, stack |-> stack] \in Item
  <2> DEFINE T == [Places(y) -> Str]
             S == [type : {y}, ts : Nat, texts : T, stack : Stacks]
             it == [type |-> y, ts |-> ts, texts |-> texts, stack |-> stack]
  <2> HIDE DEF T
  <2>1. it \in S
    BY DEF T
  <2> HIDE DEF it, S
  <2>2. S \subseteq Item
    BY DEF Item, S, T
  <2>3. QED  BY <2>1, <2>2 DEF it
<1>2. QED  BY <1>1 DEF Item

LEMMA ItemShape ==
  ASSUME NEW it \in Item, it.type \in Timed
  PROVE  it \in [type : {it.type}, ts : Nat, texts : [Places(it.type) -> Str], stack : Stacks]
<1>1. ~(it \in [type : {"meta"}]) /\ ~(it \in [type : {"gc"}, n : Nat])
  BY DEF Timed, Names
<1>2. PICK y \in Timed : it \in [type : {y}, ts : Nat, texts : [Places(y) -> Str], stack : Stacks]
  BY <1>1 DEF Item
<1>3. it.type = y
  <2> DEFINE T == [Places(y) -> Str]
  <2> HIDE DEF T
  <2>1. it \in [type : {y}, ts : Nat, texts : T, stack : Stacks]
    BY <1>2 DEF T
  <2>2. QED  BY <2>1
<1>4. QED  BY <1>2, <1>3

LEMMA SwitchShape ==
  ASSUME NEW it \in Item, it.type = "switch"
  PROVE  it.texts \in [Fields -> Str]
<1>1. it.type \in Timed /\ Places(it.type) = Fields
  BY DEF Timed, Names, Places
<1>2. it \in [type : {it.type}, ts : Nat, texts : [Places(it.type) -> Str], stack : Stacks]
  BY <1>1, ItemShape
<1> DEFINE T == [Places(it.type) -> Str]
<1>3. T = [Fields -> Str]
  BY <1>1
<1> HIDE DEF T
<1>4. it \in [type : {it.type}, ts : Nat, texts : T, stack : Stacks]
  BY <1>2 DEF T
<1>5. it.texts \in T
  BY ONLY <1>4
<1>6. QED  BY <1>3, <1>5

LEMMA DecodeType ==
  ASSUME NEW d \in Decoders, NEW f \in Frame
  PROVE  /\ DecodeFrame(d, f) \in Decoders
         /\ Decoded(d, f) \in Seq(Item)
<1>1. /\ \A x \in Seq(Str) : [d EXCEPT !.strings = x] \in Decoders
      /\ \A x \in Seq(Stacks) : [d EXCEPT !.stacks = x] \in Decoders
      /\ \A x \in SUBSET Names : [d EXCEPT !.types = x] \in Decoders
      /\ \A x \in Nat : [d EXCEPT !.base = x] \in Decoders
      /\ \A x \in BOOLEAN : [d EXCEPT !.ok = x] \in Decoders
  <2>1. ASSUME NEW a \in Seq(Str), NEW b \in Seq(Stacks), NEW c \in SUBSET Names,
               NEW m \in Nat, NEW o \in BOOLEAN
        PROVE  [strings |-> a, stacks |-> b, types |-> c, base |-> m, ok |-> o] \in Decoders
    BY DEF Decoders
  <2>2. /\ d.strings \in Seq(Str) /\ d.stacks \in Seq(Stacks) /\ d.types \in SUBSET Names
        /\ d.base \in Nat /\ d.ok \in BOOLEAN
    BY DecoderIs
  <2>3. ASSUME NEW x \in Seq(Str) PROVE [d EXCEPT !.strings = x] \in Decoders
    <3> DEFINE made == [strings |-> x, stacks |-> d.stacks, types |-> d.types, base |-> d.base, ok |-> d.ok]
    <3>1. [d EXCEPT !.strings = x] = made
      BY DecoderChanged
    <3>2. made \in Decoders
      BY <2>1, <2>2
    <3> HIDE DEF made
    <3>3. QED  BY <3>1, <3>2
  <2>4. ASSUME NEW x \in Seq(Stacks) PROVE [d EXCEPT !.stacks = x] \in Decoders
    <3> DEFINE made == [strings |-> d.strings, stacks |-> x, types |-> d.types, base |-> d.base, ok |-> d.ok]
    <3>1. [d EXCEPT !.stacks = x] = made
      BY DecoderChanged
    <3>2. made \in Decoders
      BY <2>1, <2>2
    <3> HIDE DEF made
    <3>3. QED  BY <3>1, <3>2
  <2>5. ASSUME NEW x \in SUBSET Names PROVE [d EXCEPT !.types = x] \in Decoders
    <3> DEFINE made == [strings |-> d.strings, stacks |-> d.stacks, types |-> x, base |-> d.base, ok |-> d.ok]
    <3>1. [d EXCEPT !.types = x] = made
      BY DecoderChanged
    <3>2. made \in Decoders
      BY <2>1, <2>2
    <3> HIDE DEF made
    <3>3. QED  BY <3>1, <3>2
  <2>6. ASSUME NEW x \in Nat PROVE [d EXCEPT !.base = x] \in Decoders
    <3> DEFINE made == [strings |-> d.strings, stacks |-> d.stacks, types |-> d.types, base |-> x, ok |-> d.ok]
    <3>1. [d EXCEPT !.base = x] = made
      BY DecoderChanged
    <3>2. made \in Decoders
      BY <2>1, <2>2
    <3> HIDE DEF made
    <3>3. QED  BY <3>1, <3>2
  <2>7. ASSUME NEW x \in BOOLEAN PROVE [d EXCEPT !.ok = x] \in Decoders
    <3> DEFINE made == [strings |-> d.strings, stacks |-> d.stacks, types |-> d.types, base |-> d.base, ok |-> x]
    <3>1. [d EXCEPT !.ok = x] = made
      BY DecoderChanged
    <3>2. made \in Decoders
      BY <2>1, <2>2
    <3> HIDE DEF made
    <3>3. QED  BY <3>1, <3>2
  <2>8. QED  BY <2>3, <2>4, <2>5, <2>6, <2>7
<1>2. << >> \in Seq(Item) /\ \A it \in Item : <<it>> \in Seq(Item)
  OBVIOUS
<1>3. CASE \E s \in Names : f = Schema(s)
  <2>1. PICK s \in Names : f = Schema(s)
    BY <1>3
  <2>2. d.types \cup {s} \in SUBSET Names
    BY DecoderIs
  <2>3. DecodeFrame(d, f) = [d EXCEPT !.types = d.types \cup {s}] /\ Decoded(d, f) = << >>
    BY <2>1, DecodeIs
  <2>4. QED  BY <1>1, <1>2, <2>2, <2>3
<1>4. CASE \E s \in Str : f = StringFrame(s)
  <2>1. PICK s \in Str : f = StringFrame(s)
    BY <1>4
  <2>2. Append(d.strings, s) \in Seq(Str)
    BY DecoderIs, AppendProperties
  <2>3. DecodeFrame(d, f) = [d EXCEPT !.strings = Append(d.strings, s)] /\ Decoded(d, f) = << >>
    BY <2>1, DecodeIs
  <2>4. QED  BY <1>1, <1>2, <2>2, <2>3
<1>5. CASE \E ids \in Seq(Nat) : f = StackOf(ids)
  <2>1. PICK ids \in Seq(Nat) : f = StackOf(ids)
    BY <1>5
  <2> DEFINE fs == [i \in DOMAIN ids |-> Text(d.strings, "", ids[i])]
             known == \A i \in DOMAIN ids : Known(d.strings, ids[i])
  <2>2. ASSUME known PROVE Joined(fs) \in Stacks
    <3>1. DOMAIN ids = 1..Len(ids) /\ Len(ids) \in Nat
      BY LenProperties
    <3>2. ASSUME NEW i \in DOMAIN ids PROVE Text(d.strings, "", ids[i]) \in Str
      <4>1. ids[i] \in Nat /\ Known(d.strings, ids[i])
        BY <2>2, <3>1, ElementOfSeq
      <4>2. d.strings \in Seq(Str)
        BY DecoderIs
      <4>3. QED  BY ONLY <4>1, <4>2, StringType
    <3>3. fs \in Seq(Str)
      <4>1. fs \in [1..Len(ids) -> Str]
        BY <3>1, <3>2
      <4> HIDE DEF fs
      <4>2. QED  BY <3>1, <4>1, SMT
    <3> HIDE DEF fs
    <3>4. << >> \in Stacks
      BY EmptyStack
    <3>5. QED  BY <3>3, <3>4 DEF Joined, Stacks
  <2>3. known => Append(d.stacks, Joined(fs)) \in Seq(Stacks)
    BY <2>2, DecoderIs, AppendProperties
  <2>4. /\ DecodeFrame(d, f) = IF known THEN [d EXCEPT !.stacks = Append(d.stacks, Joined(fs))]
                               ELSE [d EXCEPT !.ok = FALSE]
        /\ Decoded(d, f) = << >>
    BY <2>1, DecodeIs
  <2> HIDE DEF known, fs
  <2>5. CASE known
    BY <1>1, <1>2, <2>3, <2>4, <2>5
  <2>6. CASE ~known
    <3>1. DecodeFrame(d, f) = [d EXCEPT !.ok = FALSE] /\ Decoded(d, f) = << >>
      BY <2>4, <2>6
    <3>2. QED  BY <1>1, <1>2, <3>1
  <2>7. QED  BY <2>5, <2>6
<1>6. CASE \E t \in Nat : f = ResetFrame(t)
  <2>1. PICK t \in Nat : f = ResetFrame(t)
    BY <1>6
  <2>2. DecodeFrame(d, f) = [d EXCEPT !.base = t] /\ Decoded(d, f) = << >>
    BY <2>1, DecodeIs
  <2>3. QED  BY <1>1, <1>2, <2>2
<1>7. CASE f = MetaFrame
  <2>1. [type |-> "meta"] \in Item
    BY DEF Item
  <2>2. QED  BY <1>2, <1>7, <2>1, DecodeIs
<1>8. CASE \E n \in Nat : f = GcFrame(n)
  <2>1. PICK n \in Nat : f = GcFrame(n)
    BY <1>8
  <2>2. [type |-> "gc", n |-> n] \in Item
    BY DEF Item
  <2>3. CASE "gc" \in d.types
    <3>1. DecodeFrame(d, f) = d /\ Decoded(d, f) = <<[type |-> "gc", n |-> n]>>
      BY <2>1, <2>3, DecodeIs
    <3>2. QED  BY <1>2, <2>2, <3>1
  <2>4. CASE ~("gc" \in d.types)
    <3>1. DecodeFrame(d, f) = [d EXCEPT !.ok = FALSE] /\ Decoded(d, f) = << >>
      BY <2>1, <2>4, DecodeIs
    <3>2. QED  BY <1>1, <1>2, <3>1
  <2>5. QED  BY <2>3, <2>4
<1>9. CASE \E y \in Timed : \E delta, k \in Nat, ids \in [Places(y) -> Nat] : f = TimedFrame(y, delta, ids, k)
  <2>1. PICK y \in Timed : \E delta, k \in Nat, ids \in [Places(y) -> Nat] : f = TimedFrame(y, delta, ids, k)
    BY <1>9
  <2>2. PICK delta \in Nat, k \in Nat, ids \in [Places(y) -> Nat] : f = TimedFrame(y, delta, ids, k)
    BY <2>1
  <2> DEFINE known == KnownTimed(d, y, ids, k)
  <2>3. ASSUME known PROVE TimedItem(d, y, delta, ids, k) \in Item
    <3>1. ASSUME NEW t \in Places(y) PROVE Text(d.strings, "", ids[t]) \in Str
      <4>1. ids[t] \in Nat /\ Known(d.strings, ids[t])
        BY <2>3 DEF KnownTimed
      <4>2. d.strings \in Seq(Str)
        BY DecoderIs
      <4>3. QED  BY ONLY <4>1, <4>2, StringType
    <3>2. Text(d.stacks, << >>, k) \in Stacks
      <4>1. Known(d.stacks, k) /\ << >> \in Stacks
        BY <2>3, EmptyStack DEF KnownTimed
      <4>2. QED  BY <4>1, DecoderIs, TextType
    <3>3. d.base + delta \in Nat
      BY DecoderIs
    <3>4. QED  BY <3>1, <3>2, <3>3, ItemKinds DEF TimedItem
  <2>4. /\ DecodeFrame(d, f) = IF known THEN [d EXCEPT !.base = d.base + delta]
                               ELSE [d EXCEPT !.ok = FALSE]
        /\ Decoded(d, f) = IF known THEN <<TimedItem(d, y, delta, ids, k)>> ELSE << >>
    BY <2>2, DecodeTimed
  <2>5. d.base + delta \in Nat
    BY DecoderIs
  <2> HIDE DEF known
  <2>6. CASE known
    BY <1>1, <1>2, <2>3, <2>4, <2>5, <2>6
  <2>7. CASE ~known
    BY <1>1, <1>2, <2>4, <2>7
  <2>8. QED  BY <2>6, <2>7
<1>10. QED  BY <1>3, <1>4, <1>5, <1>6, <1>7, <1>8, <1>9, FrameCases

\* Reading a frame: the same decoder and items after an error, more items otherwise.
LEMMA ReadType ==
  ASSUME NEW a \in Reads, NEW f \in Frame
  PROVE  /\ ReadFrame(a, f) \in Reads
         /\ a.dec \in Decoders /\ a.items \in Seq(Item)
         /\ ~a.dec.ok => ReadFrame(a, f) = a
         /\ a.dec.ok => /\ ReadFrame(a, f).dec = DecodeFrame(a.dec, f)
                        /\ ReadFrame(a, f).items = a.items \o Decoded(a.dec, f)
<1>1. a.dec \in Decoders /\ a.items \in Seq(Item)
  BY DEF Reads
<1>2. DecodeFrame(a.dec, f) \in Decoders /\ Decoded(a.dec, f) \in Seq(Item)
  BY <1>1, DecodeType
<1>3. a.items \o Decoded(a.dec, f) \in Seq(Item)
  BY <1>1, <1>2, ConcatProperties
<1>4. [dec |-> DecodeFrame(a.dec, f), items |-> a.items \o Decoded(a.dec, f)] \in Reads
  BY <1>2, <1>3 DEF Reads
<1>5. QED  BY <1>1, <1>4 DEF ReadFrame

-----------------------------------------------------------------------------
(* Reading a stream. *)

\* The fold that reads frames goes through the states g.
ReadSteps(g, a, fs) ==
  g[0] = a /\ \A i \in 1..Len(fs) : g[i] = ReadFrame(g[i - 1], fs[i])

LEMMA ReadFold ==
  ASSUME NEW a \in Reads, NEW fs \in Seq(Frame)
  PROVE  \E g \in [0..Len(fs) -> Reads] :
           ReadSteps(g, a, fs) /\ FoldLeft(ReadFrame, a, fs) = g[Len(fs)]
<1> DEFINE N == Len(fs)
           F == [p \in Reads \X (1..N) |-> ReadFrame(p[1], fs[p[2]])]
           Recursion(h) ==
             h = [S \in SUBSET (DOMAIN fs) |->
                    IF S = {} THEN a ELSE ReadFrame(h[S \ {Max(S)}], fs[Max(S)])]
           iter == CHOOSE h : Recursion(h)
           g == [i \in 0..N |-> iter[1..i]]
<1>1. N \in Nat /\ DOMAIN fs = 1..N /\ \A i \in 1..N : fs[i] \in Frame
  BY LenProperties, ElementOfSeq
<1>2. F \in [Reads \X (1..N) -> Reads]
  BY <1>1, ReadType
<1>3. \A x \in Reads, m \in 1..N : F[<<x, m>>] = ReadFrame(x, fs[m])
  OBVIOUS
<1> HIDE DEF F
<1>4. PICK h \in [SUBSET (1..N) -> Reads] : FoldsBy(h, a, F, N)
  BY <1>1, <1>2, FoldExists
<1>5. Recursion(h)
  <2>1. ASSUME NEW S \in SUBSET (1..N)
        PROVE  h[S] = IF S = {} THEN a ELSE ReadFrame(h[S \ {Max(S)}], fs[Max(S)])
    <3>1. h[S] = IF S = {} THEN a ELSE F[<<h[S \ {Max(S)}], Max(S)>>]
      BY <1>4 DEF FoldsBy
    <3>2. S # {} => Max(S) \in 1..N /\ h[S \ {Max(S)}] \in Reads
      BY <1>1, MaxIs
    <3>3. QED  BY <1>3, <3>1, <3>2
  <2>2. QED  BY <1>1, <2>1
<1>6. Recursion(iter)
  <2> HIDE DEF Recursion
  <2>1. QED  BY <1>5
<1>7. FoldLeft(ReadFrame, a, fs) = iter[DOMAIN fs]
  BY DEF FoldLeft, MapThenFoldSet
<1> HIDE DEF iter
<1>8. \A S \in SUBSET (1..N) :
        iter[S] = IF S = {} THEN a ELSE ReadFrame(iter[S \ {Max(S)}], fs[Max(S)])
  BY <1>1, <1>6
<1>9. g[0] = a
  <2>1. 1..0 = {} /\ 1..0 \in SUBSET (1..N) /\ 0 \in 0..N
    BY <1>1
  <2>2. QED  BY <1>8, <2>1
<1>10. ASSUME NEW i \in 1..N PROVE g[i] = ReadFrame(g[i - 1], fs[i])
  <2>1. 1..i \in SUBSET (1..N) /\ 1..i # {} /\ Max(1..i) = i /\ (1..i) \ {i} = 1..(i - 1)
    BY <1>1, UpTo
  <2>2. iter[1..i] = ReadFrame(iter[1..(i - 1)], fs[i])
    BY <1>8, <2>1
  <2>3. i \in 0..N /\ i - 1 \in 0..N
    BY <1>1
  <2>4. QED  BY <2>2, <2>3
<1>11. g[N] = iter[DOMAIN fs]
  BY <1>1
<1>12. DOMAIN g = 0..N /\ g = [i \in 0..N |-> g[i]]
  OBVIOUS
<1> HIDE DEF g
<1>13. \A i \in 0..N : g[i] \in Reads
  <2> DEFINE T == {i \in 0..N : g[i] \in Reads}
  <2>1. 0 \in T
    BY <1>1, <1>9
  <2>2. ASSUME NEW i \in 1..N, i - 1 \in T PROVE i \in T
    <3>1. g[i - 1] \in Reads /\ fs[i] \in Frame /\ i \in 0..N
      BY <1>1, <2>2
    <3>2. ReadFrame(g[i - 1], fs[i]) \in Reads
      BY <3>1, ReadType
    <3>3. g[i] = ReadFrame(g[i - 1], fs[i])
      BY <1>10
    <3>4. QED  BY <3>1, <3>2, <3>3
  <2>3. \A i \in 0..N : i \in T
    <3> HIDE DEF T
    <3>1. QED  BY <1>1, <2>1, <2>2, Climb
  <2>4. QED  BY <2>3
<1>14. g \in [0..N -> Reads]
  BY <1>12, <1>13
<1>15. ReadSteps(g, a, fs)
  BY <1>9, <1>10 DEF ReadSteps
<1>16. QED  BY <1>7, <1>11, <1>14, <1>15

Read(a, fs) == FoldLeft(ReadFrame, a, fs)

LEMMA ReadIs ==
  ASSUME NEW a \in Reads, NEW fs \in Seq(Frame)
  PROVE  \E g \in [0..Len(fs) -> Reads] : ReadSteps(g, a, fs) /\ Read(a, fs) = g[Len(fs)]
BY ReadFold DEF Read

LEMMA ReadNone ==
  ASSUME NEW a \in Reads
  PROVE  Read(a, << >>) = a
<1>1. << >> \in Seq(Frame) /\ Len(<< >>) = 0
  OBVIOUS
<1>2. PICK g \in [0..0 -> Reads] : ReadSteps(g, a, << >>) /\ Read(a, << >>) = g[0]
  BY <1>1, ReadIs
<1>3. QED  BY <1>2 DEF ReadSteps

\* What is read in two parts is read as one.
LEMMA ReadConcat ==
  ASSUME NEW a \in Reads, NEW s \in Seq(Frame), NEW t \in Seq(Frame)
  PROVE  /\ Read(a, s) \in Reads
         /\ Read(a, s \o t) = Read(Read(a, s), t)
<1> DEFINE M == Len(s)
           N == Len(t)
           c == s \o t
<1>1. /\ M \in Nat /\ N \in Nat /\ c \in Seq(Frame) /\ Len(c) = M + N
      /\ \A i \in 1..(M + N) : c[i] = IF i <= M THEN s[i] ELSE t[i - M]
      /\ Len(s) = M /\ Len(t) = N
  BY LenProperties, ConcatProperties
<1> HIDE DEF M, N, c
<1>2. PICK g \in [0..M -> Reads] : ReadSteps(g, a, s) /\ Read(a, s) = g[M]
  BY <1>1, ReadIs
<1>3. g[M] \in Reads
  BY <1>1
<1>4. PICK h \in [0..N -> Reads] : ReadSteps(h, g[M], t) /\ Read(g[M], t) = h[N]
  BY <1>1, <1>3, ReadIs
<1>5. PICK k \in [0..(M + N) -> Reads] : ReadSteps(k, a, c) /\ Read(a, c) = k[M + N]
  BY <1>1, ReadIs
<1> DEFINE T == {i \in 0..M : k[i] = g[i]}
           U == {i \in 0..N : k[M + i] = h[i]}
<1>6. \A i \in 0..M : i \in T
  <2>1. 0 \in T
    BY <1>1, <1>2, <1>5 DEF ReadSteps
  <2>2. ASSUME NEW i \in 1..M, i - 1 \in T PROVE i \in T
    <3>1. i \in 1..(M + N) /\ c[i] = s[i] /\ i \in 0..M
      BY <1>1
    <3>2. k[i - 1] = g[i - 1]
      BY <2>2
    <3>3. k[i] = ReadFrame(k[i - 1], c[i])
      BY <1>1, <1>5, <3>1 DEF ReadSteps
    <3>4. g[i] = ReadFrame(g[i - 1], s[i])
      BY <1>1, <1>2 DEF ReadSteps
    <3>5. QED  BY <3>1, <3>2, <3>3, <3>4
  <2> HIDE DEF T
  <2>3. QED  BY <1>1, <2>1, <2>2, Climb
<1>7. \A i \in 0..N : i \in U
  <2>1. 0 \in U
    <3>1. M \in T /\ M + 0 = M
      BY <1>1, <1>6
    <3>2. h[0] = g[M]
      BY <1>4 DEF ReadSteps
    <3>3. QED  BY <1>1, <3>1, <3>2
  <2>2. ASSUME NEW i \in 1..N, i - 1 \in U PROVE i \in U
    <3>0. /\ M + i \in 1..(M + N) /\ ~(M + i <= M) /\ (M + i) - M = i /\ i \in 0..N
          /\ (M + i) - 1 = M + (i - 1)
      BY <1>1
    <3>1. /\ M + i \in 1..(M + N) /\ c[M + i] = t[i] /\ i \in 0..N
          /\ (M + i) - 1 = M + (i - 1)
      <4>1. c[M + i] = t[(M + i) - M]
        BY <1>1, <3>0
      <4>2. QED  BY <3>0, <4>1
    <3>2. k[M + (i - 1)] = h[i - 1]
      BY <2>2
    <3>3. k[M + i] = ReadFrame(k[(M + i) - 1], c[M + i])
      BY <1>1, <1>5, <3>1 DEF ReadSteps
    <3>4. h[i] = ReadFrame(h[i - 1], t[i])
      BY <1>1, <1>4 DEF ReadSteps
    <3>5. QED  BY <3>1, <3>2, <3>3, <3>4
  <2> HIDE DEF U
  <2>3. QED  BY <1>1, <2>1, <2>2, Climb
<1>8. k[M + N] = h[N]
  BY <1>1, <1>7
<1>9. QED  BY <1>2, <1>3, <1>4, <1>5, <1>8 DEF c

LEMMA ReadMore ==
  ASSUME NEW a \in Reads, NEW s \in Seq(Frame), NEW f \in Frame
  PROVE  Read(a, Append(s, f)) = ReadFrame(Read(a, s), f)
<1>1. <<f>> \in Seq(Frame) /\ Len(<<f>>) = 1 /\ <<f>>[1] = f
  OBVIOUS
<1>2. Append(s, f) = s \o <<f>>
  BY AppendIsConcat
<1> DEFINE b == Read(a, s)
<1>3. b \in Reads /\ Read(a, s \o <<f>>) = Read(b, <<f>>)
  BY <1>1, ReadConcat
<1> HIDE DEF b
<1>4. PICK g \in [0..1 -> Reads] : ReadSteps(g, b, <<f>>) /\ Read(b, <<f>>) = g[1]
  BY <1>1, <1>3, ReadIs
<1>5. g[1] = ReadFrame(b, f)
  <2>1. 1 \in 1..Len(<<f>>) /\ 1 - 1 = 0
    BY <1>1
  <2>2. g[0] = b /\ g[1] = ReadFrame(g[1 - 1], <<f>>[1])
    BY <1>4, <2>1 DEF ReadSteps
  <2>3. QED  BY <1>1, <2>1, <2>2
<1>6. QED  BY <1>2, <1>3, <1>4, <1>5 DEF b

\* What has been read stays.
Begins(s, t) == Len(s) <= Len(t) /\ \A i \in 1..Len(s) : t[i] = s[i]

LEMMA ReadKeeps ==
  ASSUME NEW a \in Reads, NEW fs \in Seq(Frame)
  PROVE  Begins(a.items, Read(a, fs).items)
<1> DEFINE N == Len(fs)
<1>1. N \in Nat /\ \A i \in 1..N : fs[i] \in Frame
  BY LenProperties, ElementOfSeq
<1>2. PICK g \in [0..N -> Reads] : ReadSteps(g, a, fs) /\ Read(a, fs) = g[N]
  BY ReadIs
<1> DEFINE T == {i \in 0..N : Begins(a.items, g[i].items)}
<1>3. a.items \in Seq(Item)
  BY DEF Reads
<1>4. 0 \in T
  <2>1. Begins(a.items, a.items)
    BY <1>3, LenProperties DEF Begins
  <2>2. QED  BY <1>1, <1>2, <2>1 DEF ReadSteps
<1>5. ASSUME NEW i \in 1..N, i - 1 \in T PROVE i \in T
  <2>1. i \in 0..N /\ i - 1 \in 0..N /\ g[i - 1] \in Reads
    BY <1>1
  <2> DEFINE b == g[i - 1]
  <2>2. b \in Reads /\ Begins(a.items, b.items)
    BY <1>5, <2>1
  <2>3. g[i] = ReadFrame(b, fs[i])
    BY <1>2 DEF ReadSteps
  <2> HIDE DEF b
  <2>4. Begins(a.items, ReadFrame(b, fs[i]).items)
    <3>1. CASE ~b.dec.ok
      BY <1>1, <2>2, <3>1, ReadType
    <3>2. CASE b.dec.ok
      <4> DEFINE more == Decoded(b.dec, fs[i])
      <4>1. /\ b.dec \in Decoders /\ b.items \in Seq(Item)
            /\ ReadFrame(b, fs[i]).items = b.items \o more
        BY <1>1, <2>2, <3>2, ReadType
      <4>2. more \in Seq(Item)
        BY <1>1, <4>1, DecodeType
      <4> HIDE DEF more
      <4>3. /\ Len(b.items \o more) = Len(b.items) + Len(more)
            /\ \A j \in 1..(Len(b.items) + Len(more)) :
                 (b.items \o more)[j] = IF j <= Len(b.items) THEN b.items[j] ELSE more[j - Len(b.items)]
            /\ Len(b.items) \in Nat /\ Len(more) \in Nat /\ Len(a.items) \in Nat
        BY <1>3, <4>1, <4>2, ConcatProperties, LenProperties
      <4>4. Begins(a.items, b.items \o more)
        BY <2>2, <4>3 DEF Begins
      <4>5. QED  BY <4>1, <4>4
    <3>3. QED  BY <3>1, <3>2
  <2>5. QED  BY <2>1, <2>3, <2>4
<1>6. \A i \in 0..N : i \in T
  <2> HIDE DEF T
  <2>1. QED  BY <1>1, <1>4, <1>5, Climb
<1>7. N \in T
  BY <1>1, <1>6
<1>8. QED  BY <1>2, <1>7

-----------------------------------------------------------------------------
(* The two sides in step. *)

\* A text or a stack comes through, or its pool is full: TextKept and StackKept
\* for any encoder.
Meant(e, s, t) == t = s \/ (t = "" /\ Full(e, e.strings))
StackMeant(e, fs, t) ==
  \/ Len(t) = Len(fs) /\ \A i \in DOMAIN fs : Meant(e, fs[i], t[i])
  \/ t = << >> /\ Full(e, IF Len(fs) = 1 THEN e.strings ELSE e.stacks)
  \/ t = << >> /\ Full(e, e.stacks)

\* The events of the hook, and those of the file.
TypesOf(e) == IF e.bounded THEN {"switch", "gc"} ELSE {"execution", "gc", "sample"}

\* The decoder d has the pools and the base of the encoder e.
InStep(e, d) ==
  /\ d.ok /\ d.types = TypesOf(e)
  /\ e.bounded => Len(e.strings) < MaxPool /\ Len(e.stacks) < MaxPool
  /\ d.strings = e.strings /\ d.base = e.base
  /\ Len(d.stacks) = Len(e.stacks)
  /\ \A k \in 1..Len(e.stacks) : StackMeant(e, e.stacks[k], d.stacks[k])

\* Pools only grow.
Grown(e, e2) ==
  e2.bounded = e.bounded /\ Begins(e.strings, e2.strings) /\ Begins(e.stacks, e2.stacks)

\* A reader at a, given what e has put out, is in step with it.
Follows(a, e) == e \in Encoders /\ InStep(e, Read(a, e.out).dec)

\* A step of the encoder that makes no item.
Quiet(a, e, e2) ==
  /\ Follows(a, e2) /\ Grown(e, e2)
  /\ Read(a, e2.out).items = Read(a, e.out).items

\* A string, or a stack, that may be meant by its id.
Covered(e, s) == s = "" \/ Has(e.strings, s) \/ Full(e, e.strings)
StackCovered(e, fs) == fs = << >> \/ Has(e.stacks, fs) \/ Full(e, e.stacks)

LEMMA BeginsAll ==
  /\ \A s : Len(s) \in Nat => Begins(s, s)
  /\ \A s, t, u : (Len(s) \in Nat /\ Len(t) \in Nat /\ Len(u) \in Nat /\ Begins(s, t) /\ Begins(t, u)) =>
       Begins(s, u)
<1>1. ASSUME NEW s, Len(s) \in Nat PROVE Begins(s, s)
  BY <1>1 DEF Begins
<1>2. ASSUME NEW s, NEW t, NEW u, Len(s) \in Nat, Len(t) \in Nat, Len(u) \in Nat,
             Begins(s, t), Begins(t, u)
      PROVE  Begins(s, u)
  BY <1>2 DEF Begins
<1>3. QED  BY <1>1, <1>2

LEMMA BeginsAppend ==
  ASSUME NEW S, NEW s \in Seq(S), NEW x \in S
  PROVE  Begins(s, Append(s, x))
BY AppendProperties, LenProperties DEF Begins

LEMMA GrownSame ==
  ASSUME NEW e \in Encoders
  PROVE  Grown(e, e)
<1>1. Len(e.strings) \in Nat /\ Len(e.stacks) \in Nat
  BY EncoderIs, LenProperties
<1>2. QED  BY <1>1, BeginsAll DEF Grown

LEMMA GrownTwice ==
  ASSUME NEW e \in Encoders, NEW e1 \in Encoders, NEW e2 \in Encoders, Grown(e, e1), Grown(e1, e2)
  PROVE  Grown(e, e2)
<1>1. /\ Len(e.strings) \in Nat /\ Len(e.stacks) \in Nat
      /\ Len(e1.strings) \in Nat /\ Len(e1.stacks) \in Nat
      /\ Len(e2.strings) \in Nat /\ Len(e2.stacks) \in Nat
  BY EncoderIs, LenProperties
<1>2. /\ e1.bounded = e.bounded /\ Begins(e.strings, e1.strings) /\ Begins(e.stacks, e1.stacks)
      /\ e2.bounded = e1.bounded /\ Begins(e1.strings, e2.strings) /\ Begins(e1.stacks, e2.stacks)
  BY DEF Grown
<1>3. Begins(e.strings, e2.strings)
  BY <1>1, <1>2, BeginsAll
<1>4. Begins(e.stacks, e2.stacks)
  BY <1>1, <1>2, BeginsAll
<1>5. QED  BY <1>2, <1>3, <1>4 DEF Grown

\* What holds of a text or a stack holds of it for good.
LEMMA GrownKeeps ==
  ASSUME NEW e \in Encoders, NEW e2 \in Encoders, Grown(e, e2)
  PROVE  /\ Full(e, e.strings) => Full(e2, e2.strings)
         /\ Full(e, e.stacks) => Full(e2, e2.stacks)
         /\ \A s : Has(e.strings, s) => Has(e2.strings, s)
         /\ \A s, t : Meant(e, s, t) => Meant(e2, s, t)
         /\ \A fs, t : StackMeant(e, fs, t) => StackMeant(e2, fs, t)
         /\ \A s : Covered(e, s) => Covered(e2, s)
<1>1. /\ Len(e.strings) \in Nat /\ Len(e.stacks) \in Nat
      /\ Len(e2.strings) \in Nat /\ Len(e2.stacks) \in Nat
      /\ DOMAIN e.strings = 1..Len(e.strings) /\ DOMAIN e2.strings = 1..Len(e2.strings)
      /\ MaxPool \in Nat
  BY EncoderIs, LenProperties, WireAssumption
<1>2. /\ Full(e, e.strings) => Full(e2, e2.strings)
      /\ Full(e, e.stacks) => Full(e2, e2.stacks)
  BY <1>1 DEF Grown, Begins, Full
<1>3. ASSUME NEW s, Has(e.strings, s) PROVE Has(e2.strings, s)
  <2>1. PICK i \in 1..Len(e.strings) : e.strings[i] = s
    BY <1>1, <1>3 DEF Has
  <2>2. i \in 1..Len(e2.strings) /\ e2.strings[i] = s
    BY <1>1, <2>1 DEF Grown, Begins
  <2>3. QED  BY <1>1, <2>2 DEF Has
<1>4. \A s, t : Meant(e, s, t) => Meant(e2, s, t)
  BY <1>2 DEF Meant
<1>5. ASSUME NEW fs, NEW t, StackMeant(e, fs, t) PROVE StackMeant(e2, fs, t)
  <2>1. CASE Len(t) = Len(fs) /\ \A i \in DOMAIN fs : Meant(e, fs[i], t[i])
    BY <1>4, <2>1 DEF StackMeant
  <2>2. CASE t = << >> /\ Full(e, IF Len(fs) = 1 THEN e.strings ELSE e.stacks)
    <3>1. Full(e2, IF Len(fs) = 1 THEN e2.strings ELSE e2.stacks)
      <4>1. CASE Len(fs) = 1
        BY <1>2, <2>2, <4>1
      <4>2. CASE Len(fs) # 1
        BY <1>2, <2>2, <4>2
      <4>3. QED  BY <4>1, <4>2
    <3>2. QED  BY <2>2, <3>1 DEF StackMeant
  <2>3. CASE t = << >> /\ Full(e, e.stacks)
    BY <1>2, <2>3 DEF StackMeant
  <2>4. QED  BY <1>5, <2>1, <2>2, <2>3 DEF StackMeant
<1>6. \A s : Covered(e, s) => Covered(e2, s)
  BY <1>2, <1>3 DEF Covered
<1>7. QED  BY <1>2, <1>3, <1>4, <1>5, <1>6

LEMMA QuietSame ==
  ASSUME NEW a, NEW e, Follows(a, e)
  PROVE  Quiet(a, e, e)
BY GrownSame DEF Quiet, Follows

LEMMA QuietTwice ==
  ASSUME NEW a, NEW e \in Encoders, NEW e1, NEW e2, Quiet(a, e, e1), Quiet(a, e1, e2)
  PROVE  Quiet(a, e, e2)
<1>1. e1 \in Encoders /\ e2 \in Encoders /\ Grown(e, e1) /\ Grown(e1, e2)
  BY DEF Quiet, Follows
<1>2. Grown(e, e2)
  BY <1>1, GrownTwice
<1>3. QED  BY <1>2 DEF Quiet

\* A frame more is read by a reader who has read all before it.
LEMMA FollowsMore ==
  ASSUME NEW a \in Reads, NEW e, Follows(a, e), NEW f \in Frame
  PROVE  LET r == Read(a, e.out)
             r2 == Read(a, Append(e.out, f))
         IN  /\ r.dec \in Decoders /\ r.items \in Seq(Item)
             /\ r2.dec = DecodeFrame(r.dec, f)
             /\ r2.items = r.items \o Decoded(r.dec, f)
<1> DEFINE r == Read(a, e.out)
<1>1. e.out \in Seq(Frame) /\ r.dec.ok
  BY EncoderIs DEF Follows, InStep
<1>2. << >> \in Seq(Frame) /\ r \in Reads
  BY <1>1, ReadConcat
<1>3. Read(a, Append(e.out, f)) = ReadFrame(r, f)
  BY <1>1, ReadMore
<1> HIDE DEF r
<1>4. /\ r.dec \in Decoders /\ r.items \in Seq(Item)
      /\ ReadFrame(r, f).dec = DecodeFrame(r.dec, f)
      /\ ReadFrame(r, f).items = r.items \o Decoded(r.dec, f)
  BY <1>1, <1>2, ReadType
<1>5. QED  BY <1>3, <1>4 DEF r

LEMMA InternQuiet ==
  ASSUME NEW a \in Reads, NEW e, Follows(a, e), NEW s \in Str
  PROVE  /\ Quiet(a, e, Intern(e, s)) /\ Covered(Intern(e, s), s)
         /\ Intern(e, s).stacks = e.stacks
<1> DEFINE r == Read(a, e.out)
           d == r.dec
<1>1. e \in Encoders /\ InStep(e, d)
  BY DEF Follows
<1>2. CASE s = "" \/ Has(e.strings, s) \/ Full(e, e.strings)
  BY <1>1, <1>2, InternIs, QuietSame DEF Covered
<1>3. CASE ~(s = "" \/ Has(e.strings, s) \/ Full(e, e.strings))
  <2> DEFINE e2 == Interned(e, s)
             d2 == [d EXCEPT !.strings = Append(d.strings, s)]
  <2>1. Intern(e, s) = e2 /\ e2 \in Encoders
    BY <1>1, <1>3, InternIs
  <2>2. /\ e2.strings = Append(e.strings, s) /\ e2.stacks = e.stacks /\ e2.base = e.base
        /\ e2.bounded = e.bounded /\ e2.out = Append(e.out, StringFrame(s))
    BY DEF Interned, StringFrame
  <2>3. /\ d \in Decoders /\ r.items \in Seq(Item)
        /\ Read(a, e2.out).dec = DecodeFrame(d, StringFrame(s))
        /\ Read(a, e2.out).items = r.items \o Decoded(d, StringFrame(s))
    <3>1. StringFrame(s) \in Frame
      BY FrameKinds DEF StringFrame
    <3>2. QED  BY <2>2, <3>1, FollowsMore
  <2>4. Read(a, e2.out).dec = d2 /\ Read(a, e2.out).items = r.items
    <3>1. r.items \o << >> = r.items
      BY <2>3, ConcatEmptySeq
    <3>2. DecodeFrame(d, StringFrame(s)) = d2 /\ Decoded(d, StringFrame(s)) = << >>
      BY <2>3, DecodeIs
    <3>3. QED  BY <2>3, <3>1, <3>2
  <2>5. /\ d2.strings = Append(d.strings, s) /\ d2.stacks = d.stacks /\ d2.types = d.types
        /\ d2.base = d.base /\ d2.ok = d.ok
    <3>1. d2 = [strings |-> Append(d.strings, s), stacks |-> d.stacks, types |-> d.types,
                base |-> d.base, ok |-> d.ok]
      BY <2>3, DecoderChanged
    <3> HIDE DEF d2
    <3>2. QED  BY <3>1
  <2> HIDE DEF e2, d2
  <2>6. /\ e.strings \in Seq(Str) /\ e.stacks \in Seq(Seq(Str))
        /\ Len(e.strings) \in Nat /\ Len(e.stacks) \in Nat /\ MaxPool \in Nat
    BY <1>1, EncoderIs, LenProperties, WireAssumption DEF InStep
  <2>7. Grown(e, e2)
    BY <2>2, <2>6, BeginsAll, BeginsAppend DEF Grown
  <2>8. /\ Len(e2.strings) = Len(e.strings) + 1 /\ e2.strings[Len(e.strings) + 1] = s
        /\ DOMAIN e2.strings = 1..(Len(e.strings) + 1)
    BY <2>2, <2>6, AppendProperties, LenProperties
  <2>9. InStep(e2, d2)
    <3>1. ASSUME NEW k \in 1..Len(e2.stacks) PROVE StackMeant(e2, e2.stacks[k], d2.stacks[k])
      <4>1. StackMeant(e, e.stacks[k], d.stacks[k])
        BY <1>1, <2>2 DEF InStep
      <4>2. StackMeant(e2, e.stacks[k], d.stacks[k])
        BY <1>1, <2>1, <2>7, <4>1, GrownKeeps
      <4>3. QED  BY <2>2, <2>5, <4>2
    <3>2. ASSUME e.bounded PROVE Len(e2.strings) < MaxPool
      <4>1. ~(Len(e.strings) + 1 >= MaxPool)
        BY <1>3, <3>2 DEF Full
      <4>2. QED  BY ONLY <2>6, <2>8, <4>1
    <3>3. TypesOf(e2) = TypesOf(e)
      BY <2>2 DEF TypesOf
    <3>4. QED  BY <1>1, <2>2, <2>5, <3>1, <3>2, <3>3 DEF InStep
  <2>10. Covered(e2, s)
    <3>1. Len(e.strings) + 1 \in DOMAIN e2.strings
      BY <2>6, <2>8
    <3>2. QED  BY <2>8, <3>1 DEF Covered, Has
  <2>11. QED  BY <2>1, <2>2, <2>4, <2>7, <2>9, <2>10 DEF Quiet, Follows
<1>4. QED  BY <1>2, <1>3

\* Several strings, and none that was covered is lost.
LEMMA InternAll ==
  ASSUME NEW a \in Reads, NEW e, Follows(a, e), NEW ss \in Seq(Str)
  PROVE  LET e2 == FoldLeft(Intern, e, ss)
         IN  /\ Quiet(a, e, e2) /\ e2.stacks = e.stacks
             /\ \A i \in 1..Len(ss) : Covered(e2, ss[i])
<1> DEFINE N == Len(ss)
<1>1. N \in Nat /\ (\A i \in 1..N : ss[i] \in Str) /\ e \in Encoders
  BY LenProperties, ElementOfSeq DEF Follows
<1>2. PICK g \in [0..N -> Encoders] : Goes(g, e, ss) /\ FoldLeft(Intern, e, ss) = g[N]
  BY <1>1, InternFold
<1> DEFINE Good(i) == Quiet(a, e, g[i]) /\ g[i].stacks = e.stacks /\ \A j \in 1..i : Covered(g[i], ss[j])
           T == {i \in 0..N : Good(i)}
<1>3. 0 \in T
  <2>1. g[0] = e /\ 0 \in 0..N /\ 1..0 = {}
    BY <1>1, <1>2 DEF Goes
  <2>2. QED  BY <2>1, QuietSame
<1>4. ASSUME NEW i \in 1..N, i - 1 \in T PROVE i \in T
  <2> DEFINE e1 == g[i - 1]
             e2 == g[i]
  <2>1. i \in 0..N /\ i - 1 \in 0..N /\ e1 \in Encoders /\ e2 \in Encoders
    BY <1>1
  <2>2. e2 = Intern(e1, ss[i]) /\ ss[i] \in Str
    BY <1>1, <1>2 DEF Goes
  <2>3. Quiet(a, e, e1) /\ e1.stacks = e.stacks /\ \A j \in 1..(i - 1) : Covered(e1, ss[j])
    BY <1>4
  <2> HIDE DEF e1, e2
  <2>4. Quiet(a, e1, e2) /\ Covered(e2, ss[i]) /\ e2.stacks = e1.stacks
    BY <2>2, <2>3, InternQuiet DEF Quiet
  <2>5. Quiet(a, e, e2)
    BY <1>1, <2>3, <2>4, QuietTwice
  <2>6. ASSUME NEW j \in 1..i PROVE Covered(e2, ss[j])
    <3>1. CASE j = i
      BY <2>4, <3>1
    <3>2. CASE j # i
      <4>1. j \in 1..(i - 1)
        BY <3>2
      <4>2. Grown(e1, e2) /\ Covered(e1, ss[j])
        BY <2>3, <2>4, <4>1 DEF Quiet
      <4>3. QED  BY <2>1, <4>2, GrownKeeps
    <3>3. QED  BY <3>1, <3>2
  <2>7. Quiet(a, e, e2) /\ e2.stacks = e.stacks /\ \A j \in 1..i : Covered(e2, ss[j])
    BY <2>3, <2>4, <2>5, <2>6
  <2>8. QED  BY <2>1, <2>7 DEF e2
<1>5. \A i \in 0..N : i \in T
  <2> HIDE DEF T
  <2>1. QED  BY <1>1, <1>3, <1>4, Climb
<1>6. N \in T
  BY <1>1, <1>5
<1>7. QED  BY <1>2, <1>6

LEMMA IdIs ==
  ASSUME NEW S, NEW pool \in Seq(S), NEW x
  PROVE  /\ Id(pool, x) \in 0..Len(pool)
         /\ Known(pool, Id(pool, x))
         /\ \A empty : Text(pool, empty, Id(pool, x)) = IF Has(pool, x) THEN x ELSE empty
         /\ Has(pool, x) => Id(pool, x) \in 1..Len(pool) /\ pool[Id(pool, x)] = x
         /\ ~Has(pool, x) => Id(pool, x) = 0
<1>1. DOMAIN pool = 1..Len(pool) /\ Len(pool) \in Nat
  BY LenProperties
<1>2. CASE Has(pool, x)
  <2>1. Id(pool, x) \in DOMAIN pool /\ pool[Id(pool, x)] = x
    BY <1>2 DEF Id, Has
  <2>2. Id(pool, x) \in 1..Len(pool) /\ Id(pool, x) # 0
    BY <1>1, <2>1
  <2>3. QED  BY <1>1, <1>2, <2>1, <2>2 DEF Known, Text
<1>3. CASE ~Has(pool, x)
  <2>1. Id(pool, x) = 0
    BY <1>3 DEF Id
  <2>2. QED  BY <1>1, <1>3, <2>1 DEF Known, Text
<1>4. QED  BY <1>2, <1>3

\* A covered string comes through, or as "" if the pool is full.
LEMMA CoveredMeant ==
  ASSUME NEW e \in Encoders, NEW s, Covered(e, s)
  PROVE  Meant(e, s, Text(e.strings, "", Id(e.strings, s)))
<1>1. Text(e.strings, "", Id(e.strings, s)) = IF Has(e.strings, s) THEN s ELSE ""
  <2>1. e.strings \in Seq(Str)
    BY EncoderIs
  <2>2. QED  BY ONLY <2>1, IdIs
<1>2. QED  BY <1>1 DEF Covered, Meant

\* A stack is sent after its strings.
LEMMA StackSent ==
  ASSUME NEW a \in Reads, NEW e, Follows(a, e), NEW fs \in Seq(Str), fs # << >>,
         fs # <<"">>, \A i \in 1..Len(fs) : Covered(e, fs[i]), ~Full(e, e.stacks)
  PROVE  LET e2 == Emit([e EXCEPT !.stacks = Append(@, fs)], StackFrame(e, fs))
         IN  Quiet(a, e, e2) /\ Has(e2.stacks, fs)
<1> DEFINE r == Read(a, e.out)
           d == r.dec
           more == [e EXCEPT !.stacks = Append(@, fs)]
           ids == [i \in DOMAIN fs |-> Id(e.strings, fs[i])]
           texts == [i \in DOMAIN ids |-> Text(d.strings, "", ids[i])]
           e2 == Emit(more, StackFrame(e, fs))
           d2 == [d EXCEPT !.stacks = Append(d.stacks, Joined(texts))]
<1>1. /\ e \in Encoders /\ InStep(e, d)
      /\ e.strings \in Seq(Str) /\ e.stacks \in Seq(Seq(Str))
      /\ Len(e.strings) \in Nat /\ Len(e.stacks) \in Nat /\ MaxPool \in Nat
  BY EncoderIs, LenProperties, WireAssumption DEF Follows, InStep
<1>2. DOMAIN fs = 1..Len(fs) /\ Len(fs) \in Nat /\ DOMAIN ids = 1..Len(fs)
  BY LenProperties
<1>3. ids \in Seq(Nat) /\ \A i \in DOMAIN ids : ids[i] = Id(e.strings, fs[i]) /\ Known(d.strings, ids[i])
  <2>1. \A i \in 1..Len(fs) : Id(e.strings, fs[i]) \in Nat /\ Known(e.strings, Id(e.strings, fs[i]))
    <3>1. ASSUME NEW x PROVE Id(e.strings, x) \in Nat /\ Known(e.strings, Id(e.strings, x))
      <4>1. e.strings \in Seq(Str) /\ Len(e.strings) \in Nat
        BY <1>1
      <4>2. Id(e.strings, x) \in 0..Len(e.strings) /\ Known(e.strings, Id(e.strings, x))
        BY ONLY <4>1, IdIs
      <4>3. QED  BY ONLY <4>1, <4>2
    <3>2. QED  BY <3>1
  <2>2. ids \in [1..Len(fs) -> Nat]
    BY <1>2, <2>1
  <2>3. \A i \in DOMAIN ids : ids[i] = Id(e.strings, fs[i]) /\ Known(d.strings, ids[i])
    BY <1>1, <1>2, <2>1 DEF InStep
  <2> HIDE DEF ids
  <2>4. ids \in Seq(Nat)
    BY <1>2, <2>2, SequenceOf
  <2>5. QED  BY <2>3, <2>4
<1>4. StackFrame(e, fs) = StackOf(ids) /\ StackOf(ids) \in Frame
  BY <1>3, FrameKinds DEF StackFrame, StackOf
<1>5. /\ e2.strings = e.strings /\ e2.stacks = Append(e.stacks, fs) /\ e2.base = e.base
      /\ e2.bounded = e.bounded /\ e2.out = Append(e.out, StackOf(ids)) /\ e2 \in Encoders
  <2>1. Append(e.stacks, fs) \in Seq(Seq(Str))
    BY <1>1, AppendProperties
  <2>2. /\ more = [strings |-> e.strings, stacks |-> Append(e.stacks, fs), base |-> e.base,
                   bounded |-> e.bounded, out |-> e.out]
        /\ more \in Encoders
    BY <1>1, <2>1, Changed, EncoderIs DEF Encoders
  <2> HIDE DEF more, ids
  <2>3. /\ e2 = [strings |-> more.strings, stacks |-> more.stacks, base |-> more.base,
                 bounded |-> more.bounded, out |-> Append(more.out, StackOf(ids))]
        /\ e2 \in Encoders
    BY <1>4, <2>2, EmitIs
  <2> HIDE DEF e2
  <2>4. QED  BY <2>2, <2>3
<1>6. /\ d \in Decoders /\ r.items \in Seq(Item)
      /\ Read(a, e2.out).dec = DecodeFrame(d, StackOf(ids))
      /\ Read(a, e2.out).items = r.items \o Decoded(d, StackOf(ids))
  <2> HIDE DEF ids, e2
  <2>1. QED  BY <1>4, <1>5, FollowsMore
<1>7. Read(a, e2.out).dec = d2 /\ Read(a, e2.out).items = r.items
  <2>1. r.items \o << >> = r.items
    BY <1>6, ConcatEmptySeq
  <2> HIDE DEF ids, e2
  <2>2. DecodeFrame(d, StackOf(ids)) = d2 /\ Decoded(d, StackOf(ids)) = << >>
    BY <1>3, <1>6, DecodeIs
  <2>3. QED  BY <1>6, <2>1, <2>2
<1>8. /\ d2.strings = d.strings /\ d2.stacks = Append(d.stacks, Joined(texts)) /\ d2.types = d.types
      /\ d2.base = d.base /\ d2.ok = d.ok
  <2> HIDE DEF texts
  <2>1. d2 = [strings |-> d.strings, stacks |-> Append(d.stacks, Joined(texts)), types |-> d.types,
              base |-> d.base, ok |-> d.ok]
    BY <1>6, DecoderChanged
  <2> HIDE DEF d2
  <2>2. QED  BY <2>1
<1>9. /\ texts \in Seq(Str) /\ Len(texts) = Len(fs)
      /\ \A i \in 1..Len(fs) : Meant(e, fs[i], texts[i])
  <2>1. DOMAIN texts = 1..Len(fs)
    BY <1>2
  <2>2. ASSUME NEW i \in 1..Len(fs)
        PROVE  texts[i] = Text(e.strings, "", Id(e.strings, fs[i])) /\ texts[i] \in Str
    <3>1. texts[i] = Text(e.strings, "", Id(e.strings, fs[i]))
      BY <1>1, <1>2, <1>3 DEF InStep
    <3>2. Id(e.strings, fs[i]) \in Nat /\ Known(e.strings, Id(e.strings, fs[i]))
      <4>1. i \in DOMAIN ids /\ d.strings = e.strings
        BY <1>1, <1>2 DEF InStep
      <4> HIDE DEF ids
      <4>2. ids[i] \in Nat
        <5>1. ids \in Seq(Nat) /\ i \in DOMAIN ids
          BY <1>3, <4>1
        <5>2. QED  BY ONLY <5>1, LenProperties
      <4>3. QED  BY <1>3, <4>1, <4>2
    <3> HIDE DEF texts
    <3>3. QED  BY <1>1, <3>1, <3>2, StringType
  <2>3. ASSUME NEW i \in 1..Len(fs) PROVE Meant(e, fs[i], texts[i])
    <3>1. Covered(e, fs[i])
      OBVIOUS
    <3> HIDE DEF texts
    <3>2. QED  BY <1>1, <2>2, <3>1, CoveredMeant
  <2>4. texts \in [1..Len(fs) -> Str]
    BY <2>1, <2>2
  <2> HIDE DEF texts
  <2>5. QED  BY <1>2, <2>3, <2>4, SequenceOf
<1> HIDE DEF more, ids, texts, e2, d2
<1>10. StackMeant(e2, fs, Joined(texts))
  <2>1. \A s, t : Meant(e, s, t) => Meant(e2, s, t)
    BY <1>5 DEF Meant, Full
  <2>2. CASE texts = <<"">>
    <3>1. Len(fs) = 1 /\ Joined(texts) = << >> /\ Len(<<"">>) = 1 /\ texts[1] = ""
      BY <1>9, <2>2 DEF Joined
    <3>2. 1 \in 1..Len(fs)
      <4>1. Len(fs) = 1
        BY <3>1
      <4>2. QED  BY ONLY <4>1
    <3>3. fs[1] # "" /\ Meant(e, fs[1], "")
      <4>1. Meant(e, fs[1], "")
        BY <1>9, <3>1, <3>2
      <4>2. fs = <<fs[1]>>
        <5>1. fs \in Seq(Str) /\ Len(fs) = 1
          BY <3>1
        <5>2. QED  BY ONLY <5>1
      <4>3. QED  BY <4>1, <4>2
    <3>4. Full(e2, e2.strings)
      BY <1>5, <3>3 DEF Meant, Full
    <3>5. QED  BY <3>1, <3>4 DEF StackMeant
  <2>3. CASE texts # <<"">>
    <3>1. Joined(texts) = texts
      BY <2>3 DEF Joined
    <3>2. QED  BY <1>2, <1>9, <2>1, <3>1 DEF StackMeant
  <2>4. QED  BY <2>2, <2>3
<1>11. Grown(e, e2)
  BY <1>1, <1>5, BeginsAll, BeginsAppend DEF Grown
<1>12. /\ Len(e2.stacks) = Len(e.stacks) + 1 /\ e2.stacks[Len(e.stacks) + 1] = fs
       /\ DOMAIN e2.stacks = 1..(Len(e.stacks) + 1)
       /\ \A k \in 1..Len(e.stacks) : e2.stacks[k] = e.stacks[k]
  <2>1. e.stacks \in Seq(Seq(Str)) /\ fs \in Seq(Str)
    BY <1>1
  <2>2. /\ Append(e.stacks, fs) \in Seq(Seq(Str))
        /\ Len(Append(e.stacks, fs)) = Len(e.stacks) + 1
        /\ Append(e.stacks, fs)[Len(e.stacks) + 1] = fs
        /\ \A k \in 1..Len(e.stacks) : Append(e.stacks, fs)[k] = e.stacks[k]
    BY ONLY <2>1, AppendProperties
  <2>3. DOMAIN Append(e.stacks, fs) = 1..(Len(e.stacks) + 1)
    BY ONLY <2>2, LenProperties
  <2>4. QED  BY <1>5, <2>2, <2>3
<1>13. /\ Len(d2.stacks) = Len(e.stacks) + 1 /\ d2.stacks[Len(e.stacks) + 1] = Joined(texts)
       /\ \A k \in 1..Len(e.stacks) : d2.stacks[k] = d.stacks[k]
  <2>1. d.stacks \in Seq(Stacks) /\ Len(d.stacks) = Len(e.stacks)
    BY <1>1, <1>6, DecoderIs DEF InStep
  <2>2. Joined(texts) \in Stacks
    BY <1>9, EmptyStack DEF Joined, Stacks
  <2>3. /\ Len(Append(d.stacks, Joined(texts))) = Len(d.stacks) + 1
        /\ Append(d.stacks, Joined(texts))[Len(d.stacks) + 1] = Joined(texts)
        /\ \A k \in 1..Len(d.stacks) : Append(d.stacks, Joined(texts))[k] = d.stacks[k]
    <3>1. d.stacks \in Seq(Stacks)
      BY <2>1
    <3>2. QED  BY ONLY <2>2, <3>1, AppendProperties
  <2>4. QED  BY <1>8, <2>1, <2>3
<1>14. InStep(e2, d2)
  <2>1. ASSUME NEW k \in 1..Len(e2.stacks) PROVE StackMeant(e2, e2.stacks[k], d2.stacks[k])
    <3>1. CASE k = Len(e.stacks) + 1
      BY <1>10, <1>12, <1>13, <3>1
    <3>2. CASE k # Len(e.stacks) + 1
      <4>1. k \in 1..Len(e.stacks)
        <5>1. k \in 1..(Len(e.stacks) + 1) /\ Len(e.stacks) \in Nat
          BY <1>1, <1>12
        <5>2. QED  BY ONLY <3>2, <5>1
      <4>2. StackMeant(e, e.stacks[k], d.stacks[k])
        BY <1>1, <4>1 DEF InStep
      <4>3. StackMeant(e2, e.stacks[k], d.stacks[k])
        <5>1. e \in Encoders /\ e2 \in Encoders /\ Grown(e, e2)
          BY <1>1, <1>5, <1>11
        <5>2. QED  BY ONLY <4>2, <5>1, GrownKeeps
      <4>4. QED  BY <1>12, <1>13, <4>1, <4>3
    <3>3. QED  BY <3>1, <3>2
  <2>2. ASSUME e.bounded PROVE Len(e2.stacks) < MaxPool
    <3>1. ~(Len(e.stacks) + 1 >= MaxPool)
      BY <1>1, <2>2 DEF Full
    <3>2. QED  BY ONLY <1>1, <1>12, <3>1
  <2>3. TypesOf(e2) = TypesOf(e)
    BY <1>5 DEF TypesOf
  <2>4. QED  BY <1>1, <1>5, <1>8, <1>12, <1>13, <2>1, <2>2, <2>3 DEF InStep
<1>15. Has(e2.stacks, fs)
  <2>1. Len(e.stacks) + 1 \in DOMAIN e2.stacks
    <3>1. DOMAIN e2.stacks = 1..(Len(e.stacks) + 1) /\ Len(e.stacks) \in Nat
      BY <1>1, <1>12
    <3>2. QED  BY ONLY <3>1
  <2>2. QED  BY <1>12, <2>1 DEF Has
<1>16. QED  BY <1>5, <1>7, <1>11, <1>14, <1>15 DEF Quiet, Follows, e2, more

LEMMA InternStackQuiet ==
  ASSUME NEW a \in Reads, NEW e, Follows(a, e), NEW fs \in Seq(Str), fs # <<"">>
  PROVE  Quiet(a, e, InternStack(e, fs)) /\ StackCovered(InternStack(e, fs), fs)
<1>1. CASE fs = << >> \/ Has(e.stacks, fs) \/ Full(e, e.stacks)
  BY <1>1, QuietSame DEF InternStack, StackCovered
<1>2. CASE ~(fs = << >> \/ Has(e.stacks, fs) \/ Full(e, e.stacks))
  <2> DEFINE e1 == FoldLeft(Intern, e, fs)
             e2 == Emit([e1 EXCEPT !.stacks = Append(@, fs)], StackFrame(e1, fs))
  <2>1. InternStack(e, fs) = e2
    BY <1>2 DEF InternStack
  <2>2. Quiet(a, e, e1) /\ e1.stacks = e.stacks /\ \A i \in 1..Len(fs) : Covered(e1, fs[i])
    BY InternAll
  <2> HIDE DEF e1
  <2>3. /\ Follows(a, e1) /\ ~Full(e1, e1.stacks) /\ e \in Encoders
    BY <1>2, <2>2 DEF Quiet, Follows, Full, Grown
  <2>4. Quiet(a, e1, e2) /\ Has(e2.stacks, fs)
    <3>1. /\ a \in Reads /\ Follows(a, e1) /\ fs \in Seq(Str) /\ fs # << >>
          /\ fs # <<"">> /\ \A i \in 1..Len(fs) : Covered(e1, fs[i])
          /\ ~Full(e1, e1.stacks)
      BY <1>2, <2>2, <2>3
    <3>2. QED  BY ONLY <3>1, StackSent
  <2> HIDE DEF e2
  <2>5. Quiet(a, e, e2)
    BY <2>2, <2>3, <2>4, QuietTwice
  <2>6. QED  BY <2>1, <2>4, <2>5 DEF StackCovered
<1>3. QED  BY <1>1, <1>2

LEMMA StampQuiet ==
  ASSUME NEW a \in Reads, NEW e, Follows(a, e), NEW ts \in Nat
  PROVE  LET s == Stamp(e, ts)
         IN  /\ Quiet(a, e, s) /\ s.strings = e.strings /\ s.stacks = e.stacks
             /\ s.base \in Nat /\ s.base <= ts /\ ts - s.base <= MaxDelta
<1> DEFINE r == Read(a, e.out)
           d == r.dec
           more == [e EXCEPT !.base = ts]
           e2 == Emit(more, ResetFrame(ts))
           d2 == [d EXCEPT !.base = ts]
<1>1. /\ e \in Encoders /\ InStep(e, d) /\ e.base \in Nat /\ MaxDelta \in Nat
      /\ e.strings \in Seq(Str) /\ e.stacks \in Seq(Seq(Str)) /\ e.out \in Seq(Frame)
      /\ Len(e.strings) \in Nat /\ Len(e.stacks) \in Nat
  BY EncoderIs, LenProperties, WireAssumption DEF Follows
<1>2. CASE ~(ts < e.base \/ ts - e.base > MaxDelta)
  <2>1. Stamp(e, ts) = e
    BY <1>2 DEF Stamp
  <2>2. Quiet(a, e, e)
    BY QuietSame
  <2>3. e.base <= ts /\ ts - e.base <= MaxDelta
    BY <1>1, <1>2
  <2>4. QED  BY <1>1, <2>1, <2>2, <2>3
<1>3. CASE ts < e.base \/ ts - e.base > MaxDelta
  <2>1. Stamp(e, ts) = e2
    BY <1>3 DEF Stamp, ResetFrame
  <2>2. ResetFrame(ts) \in Frame
    BY FrameKinds DEF ResetFrame
  <2>3. /\ e2.strings = e.strings /\ e2.stacks = e.stacks /\ e2.base = ts
        /\ e2.bounded = e.bounded /\ e2.out = Append(e.out, ResetFrame(ts)) /\ e2 \in Encoders
    <3>1. /\ more = [strings |-> e.strings, stacks |-> e.stacks, base |-> ts,
                     bounded |-> e.bounded, out |-> e.out]
          /\ more \in Encoders
      BY <1>1, Changed, EncoderIs DEF Encoders
    <3> HIDE DEF more
    <3>2. /\ e2 = [strings |-> more.strings, stacks |-> more.stacks, base |-> more.base,
                   bounded |-> more.bounded, out |-> Append(more.out, ResetFrame(ts))]
          /\ e2 \in Encoders
      BY <2>2, <3>1, EmitIs
    <3> HIDE DEF e2
    <3>3. QED  BY <3>1, <3>2
  <2> HIDE DEF e2
  <2>4. /\ d \in Decoders /\ r.items \in Seq(Item)
        /\ Read(a, e2.out).dec = DecodeFrame(d, ResetFrame(ts))
        /\ Read(a, e2.out).items = r.items \o Decoded(d, ResetFrame(ts))
    BY <2>2, <2>3, FollowsMore
  <2>5. Read(a, e2.out).dec = d2 /\ Read(a, e2.out).items = r.items
    <3>1. r.items \o << >> = r.items
      BY <2>4, ConcatEmptySeq
    <3>2. DecodeFrame(d, ResetFrame(ts)) = d2 /\ Decoded(d, ResetFrame(ts)) = << >>
      BY <2>4, DecodeIs
    <3>3. QED  BY <2>4, <3>1, <3>2
  <2>6. /\ d2.strings = d.strings /\ d2.stacks = d.stacks /\ d2.types = d.types
        /\ d2.base = ts /\ d2.ok = d.ok
    <3>1. d2 = [strings |-> d.strings, stacks |-> d.stacks, types |-> d.types,
                base |-> ts, ok |-> d.ok]
      BY <2>4, DecoderChanged
    <3> HIDE DEF d2
    <3>2. QED  BY <3>1
  <2> HIDE DEF d2
  <2>7. Grown(e, e2)
    BY <1>1, <2>3, BeginsAll DEF Grown
  <2>8. InStep(e2, d2)
    <3>1. ASSUME NEW k \in 1..Len(e2.stacks) PROVE StackMeant(e2, e2.stacks[k], d2.stacks[k])
      <4>1. StackMeant(e, e.stacks[k], d.stacks[k])
        BY <1>1, <2>3 DEF InStep
      <4>2. StackMeant(e2, e.stacks[k], d.stacks[k])
        BY <1>1, <2>3, <2>7, <4>1, GrownKeeps
      <4>3. QED  BY <2>3, <2>6, <4>2
    <3>2. TypesOf(e2) = TypesOf(e)
      BY <2>3 DEF TypesOf
    <3>3. QED  BY <1>1, <2>3, <2>6, <3>1, <3>2 DEF InStep
  <2>9. Quiet(a, e, e2)
    BY <2>3, <2>5, <2>7, <2>8 DEF Quiet, Follows
  <2>10. e2.base \in Nat /\ e2.base <= ts /\ ts - e2.base <= MaxDelta
    BY <1>1, <2>3
  <2>11. QED  BY <2>1, <2>3, <2>9, <2>10
<1>4. QED  BY <1>2, <1>3

LEMMA ModSmall ==
  ASSUME NEW n \in Nat, NEW x \in 0..n
  PROVE  x % (n + 1) = x
BY SMT

\* A step of the encoder that makes one item.
Makes(a, e, e2, it) ==
  /\ Follows(a, e2) /\ Grown(e, e2)
  /\ Read(a, e2.out).items = Append(Read(a, e.out).items, it)

LEMMA QuietThenMakes ==
  ASSUME NEW a, NEW e \in Encoders, NEW e1, NEW e2, NEW it, Quiet(a, e, e1), Makes(a, e1, e2, it)
  PROVE  Makes(a, e, e2, it)
<1>1. e1 \in Encoders /\ e2 \in Encoders /\ Grown(e, e1) /\ Grown(e1, e2)
  BY DEF Quiet, Makes, Follows
<1>2. Grown(e, e2)
  BY <1>1, GrownTwice
<1>3. QED  BY <1>2 DEF Quiet, Makes

\* What an event whose texts are `texts` comes through as.
PutItem(e, d, y, ts, texts, stack) ==
  [type |-> y, ts |-> ts,
   texts |-> [f \in Places(y) |-> Text(e.strings, "", Id(e.strings, texts[f]))],
   stack |-> Text(d.stacks, << >>, Id(e.stacks, stack))]

LEMMA PutMakes ==
  ASSUME NEW a \in Reads, NEW e, Follows(a, e), NEW y \in Timed, y \in TypesOf(e),
         NEW ts \in Nat, NEW texts \in [Places(y) -> Str], NEW stack
  PROVE  LET e2 == Put(e, y, ts, texts, stack)
             d == Read(a, Stamp(e, ts).out).dec
         IN  /\ Makes(a, e, e2, PutItem(e, d, y, ts, texts, stack))
             /\ InStep(Stamp(e, ts), d) /\ Stamp(e, ts).stacks = e.stacks
             /\ e2.strings = e.strings /\ e2.stacks = e.stacks
<1> DEFINE s == Stamp(e, ts)
           r == Read(a, s.out)
           d == r.dec
           P == Places(y)
           ids == [f \in P |-> Id(e.strings, texts[f])]
           k == Id(e.stacks, stack)
           f1 == TimedFrame(y, ts - s.base, ids, k)
           more == [s EXCEPT !.base = ts]
           e2 == Emit(more, f1)
           d2 == [d EXCEPT !.base = ts]
           it == PutItem(e, d, y, ts, texts, stack)
<1> HIDE DEF P
<1>0. texts \in [P -> Str]
  BY DEF P
<1>1. /\ Quiet(a, e, s) /\ s.strings = e.strings /\ s.stacks = e.stacks
      /\ s.base \in Nat /\ s.base <= ts /\ ts - s.base <= MaxDelta
  BY StampQuiet
<1> HIDE DEF s
<1>2. /\ e \in Encoders /\ s \in Encoders /\ Follows(a, s) /\ InStep(s, d) /\ MaxDelta \in Nat
      /\ s.strings \in Seq(Str) /\ s.stacks \in Seq(Seq(Str)) /\ s.out \in Seq(Frame)
      /\ Len(s.strings) \in Nat /\ Len(s.stacks) \in Nat
  BY <1>1, EncoderIs, LenProperties, WireAssumption DEF Quiet, Follows
<1>3. ts - s.base \in Nat /\ (ts - s.base) % (MaxDelta + 1) = ts - s.base
  <2>1. ts - s.base \in 0..MaxDelta
    <3>1. ts \in Nat /\ s.base \in Nat /\ s.base <= ts /\ ts - s.base <= MaxDelta /\ MaxDelta \in Nat
      BY <1>1, <1>2
    <3>2. QED  BY ONLY <3>1
  <2> DEFINE x == ts - s.base
  <2>2. x \in 0..MaxDelta /\ MaxDelta \in Nat
    BY <1>2, <2>1
  <2> HIDE DEF x
  <2>3. x % (MaxDelta + 1) = x
    BY <2>2, ModSmall
  <2>4. x \in Nat
    BY <2>2
  <2>5. QED  BY <2>3, <2>4 DEF x
<1>4. /\ \A f \in P : Id(e.strings, texts[f]) \in Nat /\ Known(e.strings, Id(e.strings, texts[f]))
      /\ k \in Nat /\ Known(e.stacks, k)
  <2>1. ASSUME NEW x PROVE Id(e.strings, x) \in Nat /\ Known(e.strings, Id(e.strings, x))
    <3>1. e.strings \in Seq(Str) /\ Len(e.strings) \in Nat
      BY <1>1, <1>2
    <3>2. Id(e.strings, x) \in 0..Len(e.strings) /\ Known(e.strings, Id(e.strings, x))
      BY ONLY <3>1, IdIs
    <3>3. QED  BY ONLY <3>1, <3>2
  <2>2. k \in Nat /\ Known(e.stacks, k)
    <3>1. e.stacks \in Seq(Seq(Str)) /\ Len(e.stacks) \in Nat
      BY <1>1, <1>2
    <3>2. Id(e.stacks, stack) \in 0..Len(e.stacks) /\ Known(e.stacks, Id(e.stacks, stack))
      BY ONLY <3>1, IdIs
    <3>3. QED  BY ONLY <3>1, <3>2
  <2>3. QED  BY <2>1, <2>2
<1>5. ids \in [P -> Nat] /\ \A f \in P : ids[f] = Id(e.strings, texts[f])
  BY <1>4
<1>6. Put(e, y, ts, texts, stack) = e2
  <2>1. [f \in DOMAIN texts |-> Id(e.strings, texts[f])] = ids
    BY <1>0
  <2> HIDE DEF ids
  <2>2. QED  BY <1>3, <2>1 DEF Put, s, TimedFrame
<1> HIDE DEF ids, k
<1>7. f1 \in Frame
  BY <1>3, <1>4, <1>5, FrameKinds DEF TimedFrame, P
<1>8. /\ more = [strings |-> s.strings, stacks |-> s.stacks, base |-> ts,
                 bounded |-> s.bounded, out |-> s.out]
      /\ more \in Encoders
  BY <1>2, Changed, EncoderIs DEF Encoders
<1> HIDE DEF more, f1
<1>9. /\ e2.strings = s.strings /\ e2.stacks = s.stacks /\ e2.base = ts
      /\ e2.bounded = s.bounded /\ e2.out = Append(s.out, f1) /\ e2 \in Encoders
  <2>1. /\ e2 = [strings |-> more.strings, stacks |-> more.stacks, base |-> more.base,
                 bounded |-> more.bounded, out |-> Append(more.out, f1)]
        /\ e2 \in Encoders
    BY <1>7, <1>8, EmitIs
  <2> HIDE DEF e2
  <2>2. QED  BY <1>8, <2>1
<1> HIDE DEF e2
<1>10. /\ d \in Decoders /\ r.items \in Seq(Item)
       /\ Read(a, e2.out).dec = DecodeFrame(d, f1)
       /\ Read(a, e2.out).items = r.items \o Decoded(d, f1)
  BY <1>2, <1>7, <1>9, FollowsMore
<1>11. /\ d.types = TypesOf(s) /\ d.strings = e.strings /\ d.base = s.base /\ Len(d.stacks) = Len(e.stacks)
  BY <1>1, <1>2 DEF InStep
<1>12. KnownTimed(d, y, ids, k)
  <2>1. TypesOf(s) = TypesOf(e)
    BY <1>1 DEF TypesOf, Quiet, Grown
  <2>2. QED  BY <1>4, <1>5, <1>11, <2>1 DEF KnownTimed, Known, P
<1>13. d.base + (ts - s.base) = ts
  BY <1>1, <1>11
<1>14. TimedItem(d, y, ts - s.base, ids, k) = it
  BY <1>5, <1>11, <1>13 DEF TimedItem, PutItem, k, P
<1>15. DecodeFrame(d, f1) = d2 /\ Decoded(d, f1) = <<it>>
  <2> HIDE DEF it
  <2>1. QED  BY <1>3, <1>4, <1>5, <1>10, <1>12, <1>13, <1>14, DecodeTimed DEF f1, P
<1>16. Read(a, e2.out).items = Append(r.items, it)
  <2>1. <<it>> \in Seq(Item)
    BY <1>7, <1>10, <1>15, DecodeType
  <2>2. it \in Item
    <3> HIDE DEF it
    <3>1. QED  BY <2>1
  <2>3. Append(r.items, it) = r.items \o <<it>>
    BY <1>10, <2>2, AppendIsConcat
  <2>4. QED  BY <1>10, <1>15, <2>3
<1>17. /\ d2.strings = d.strings /\ d2.stacks = d.stacks /\ d2.types = d.types
       /\ d2.base = ts /\ d2.ok = d.ok
  <2>1. d2 = [strings |-> d.strings, stacks |-> d.stacks, types |-> d.types,
              base |-> ts, ok |-> d.ok]
    BY <1>10, DecoderChanged
  <2> HIDE DEF d2
  <2>2. QED  BY <2>1
<1> HIDE DEF d2
<1>18. Grown(s, e2)
  BY <1>2, <1>9, BeginsAll DEF Grown
<1>19. InStep(e2, d2)
  <2>1. ASSUME NEW j \in 1..Len(e2.stacks) PROVE StackMeant(e2, e2.stacks[j], d2.stacks[j])
    <3>1. StackMeant(s, s.stacks[j], d.stacks[j])
      BY <1>2, <1>9 DEF InStep
    <3>2. StackMeant(e2, s.stacks[j], d.stacks[j])
      BY <1>2, <1>9, <1>18, <3>1, GrownKeeps
    <3>3. QED  BY <1>9, <1>17, <3>2
  <2>2. TypesOf(e2) = TypesOf(s)
    BY <1>9 DEF TypesOf
  <2>3. QED  BY <1>2, <1>9, <1>17, <2>1, <2>2 DEF InStep
<1>20. Makes(a, s, e2, it)
  BY <1>9, <1>10, <1>15, <1>16, <1>18, <1>19 DEF Makes, Follows
<1>21. Makes(a, e, e2, it)
  <2> HIDE DEF it
  <2>1. QED  BY <1>1, <1>2, <1>20, QuietThenMakes
<1>22. QED  BY <1>1, <1>2, <1>6, <1>9, <1>21 DEF s

\* What the item of an event keeps of it, given the texts the encoder knew before.
TimedKept(e, e2, ev, it) ==
  /\ it.type = ev.type /\ it.ts = ev.ts
  /\ \A f \in Places(ev.type) : Meant(e2, ev.texts[f], it.texts[f])
  /\ \A f \in Places(ev.type) : it.texts[f] = "" \/ Has(e2.strings, it.texts[f])
  /\ \A f \in Places(ev.type) : (ev.texts[f] = "" \/ Has(e.strings, ev.texts[f])) => it.texts[f] = ev.texts[f]
  /\ StackMeant(e2, ev.stack, it.stack)
  /\ it \in [type : {ev.type}, ts : Nat, texts : [Places(ev.type) -> Str], stack : Stacks]

\* An event whose texts are interned first, and its stack after them.
LEMMA TimedMakes ==
  ASSUME NEW a \in Reads, NEW e, Follows(a, e), NEW y \in Timed, y \in TypesOf(e),
         NEW ts \in Nat, NEW texts \in [Places(y) -> Str],
         NEW ss \in Seq(Str), \A f \in Places(y) : \E i \in 1..Len(ss) : ss[i] = texts[f],
         NEW stack \in Seq(Str), stack # <<"">>,
         NEW ev, ev = [type |-> y, ts |-> ts, texts |-> texts, stack |-> stack]
  PROVE  LET e3 == Put(InternStack(FoldLeft(Intern, e, ss), stack), y, ts, texts, stack)
         IN  \E it : Makes(a, e, e3, it) /\ TimedKept(e, e3, ev, it)
<1> DEFINE e1 == FoldLeft(Intern, e, ss)
           e2 == InternStack(e1, stack)
           e3 == Put(e2, y, ts, texts, stack)
           s == Stamp(e2, ts)
           d == Read(a, s.out).dec
           it == PutItem(e2, d, y, ts, texts, stack)
           P == Places(y)
<1> HIDE DEF P
<1>2. texts \in [P -> Str]
  BY DEF P
<1>3. ev.type = y /\ ev.ts = ts /\ ev.texts = texts /\ ev.stack = stack
  OBVIOUS
<1>4. /\ Quiet(a, e, e1) /\ \A i \in 1..Len(ss) : Covered(e1, ss[i])
  BY InternAll
<1>5. \A f \in P : Covered(e1, texts[f])
  BY <1>4 DEF P
<1>6. Follows(a, e1) /\ e \in Encoders /\ e1 \in Encoders
  BY <1>4 DEF Quiet, Follows
<1> HIDE DEF e1
<1>7. Quiet(a, e1, e2) /\ StackCovered(e2, stack)
  BY <1>6, InternStackQuiet
<1>8. Follows(a, e2) /\ e2 \in Encoders /\ Grown(e1, e2)
  BY <1>7 DEF Quiet, Follows
<1>9. \A f \in P : Covered(e2, texts[f])
  BY <1>5, <1>6, <1>8, GrownKeeps
<1> HIDE DEF e2
<1>10. /\ Makes(a, e2, e3, it) /\ InStep(s, d) /\ s.stacks = e2.stacks
       /\ e3.strings = e2.strings /\ e3.stacks = e2.stacks
  <2>1. /\ a \in Reads /\ Follows(a, e2) /\ ts \in Nat /\ texts \in [Places(y) -> Str]
        /\ y \in Timed /\ y \in TypesOf(e2)
    <3>1. e2.bounded = e.bounded
      BY <1>4, <1>8 DEF Quiet, Grown
    <3>2. QED  BY <1>8, <3>1 DEF TypesOf
  <2> HIDE DEF it, s, d, e3
  <2>2. /\ Makes(a, e2, Put(e2, y, ts, texts, stack),
                PutItem(e2, Read(a, Stamp(e2, ts).out).dec, y, ts, texts, stack))
        /\ InStep(Stamp(e2, ts), Read(a, Stamp(e2, ts).out).dec) /\ Stamp(e2, ts).stacks = e2.stacks
        /\ Put(e2, y, ts, texts, stack).strings = e2.strings
        /\ Put(e2, y, ts, texts, stack).stacks = e2.stacks
    BY ONLY <2>1, PutMakes
  <2>3. QED  BY <2>2 DEF it, s, d, e3
<1> HIDE DEF e3, s, d
<1>11. Quiet(a, e, e2)
  BY <1>4, <1>6, <1>7, QuietTwice
<1>12. Makes(a, e, e3, it)
  <2> HIDE DEF it
  <2>1. QED  BY <1>6, <1>10, <1>11, QuietThenMakes
<1>13. e3 \in Encoders /\ Grown(e2, e3) /\ Grown(e, e2)
  BY <1>10, <1>11 DEF Makes, Follows, Quiet
<1>14. /\ it = [type |-> y, ts |-> ts, texts |-> it.texts, stack |-> it.stack]
       /\ it.type = y /\ it.ts = ts /\ DOMAIN it.texts = P
       /\ it.texts = [f \in P |-> it.texts[f]]
       /\ \A f \in P : it.texts[f] = Text(e2.strings, "", Id(e2.strings, texts[f]))
       /\ it.stack = Text(d.stacks, << >>, Id(e2.stacks, stack))
  <2> DEFINE T == [f \in P |-> Text(e2.strings, "", Id(e2.strings, texts[f]))]
  <2>1. it = [type |-> y, ts |-> ts, texts |-> T, stack |-> Text(d.stacks, << >>, Id(e2.stacks, stack))]
    BY DEF PutItem, P
  <2> HIDE DEF it
  <2>2. it.type = y /\ it.ts = ts /\ it.texts = T /\ it.stack = Text(d.stacks, << >>, Id(e2.stacks, stack))
    BY ONLY <2>1
  <2>3. it = [type |-> y, ts |-> ts, texts |-> it.texts, stack |-> it.stack]
    BY ONLY <2>1, <2>2
  <2>4. /\ DOMAIN T = P /\ T = [f \in P |-> T[f]]
        /\ \A f \in P : T[f] = Text(e2.strings, "", Id(e2.strings, texts[f]))
    OBVIOUS
  <2> HIDE DEF T
  <2>5. QED  BY ONLY <2>2, <2>3, <2>4
<1> HIDE DEF it
<1>15. ASSUME NEW f \in P
       PROVE  /\ Meant(e3, texts[f], it.texts[f])
              /\ it.texts[f] = "" \/ Has(e3.strings, it.texts[f])
              /\ (texts[f] = "" \/ Has(e.strings, texts[f])) => it.texts[f] = texts[f]
  <2>1. Meant(e3, texts[f], it.texts[f])
    <3>1. Meant(e2, texts[f], it.texts[f])
      <4>1. Covered(e2, texts[f]) /\ it.texts[f] = Text(e2.strings, "", Id(e2.strings, texts[f]))
        BY <1>9, <1>14
      <4>2. e2 \in Encoders /\ texts[f] \in Str
        BY <1>2, <1>8
      <4>3. QED  BY ONLY <4>1, <4>2, CoveredMeant
    <3>2. QED  BY <1>8, <1>13, <3>1, GrownKeeps
  <2>2. it.texts[f] = IF Has(e2.strings, texts[f]) THEN texts[f] ELSE ""
    <3>1. e2.strings \in Seq(Str)
      BY <1>8, EncoderIs
    <3>2. Text(e2.strings, "", Id(e2.strings, texts[f])) = IF Has(e2.strings, texts[f]) THEN texts[f] ELSE ""
      BY ONLY <3>1, IdIs
    <3>3. QED  BY <1>14, <3>2
  <2>3. Has(e.strings, texts[f]) => Has(e2.strings, texts[f])
    BY <1>6, <1>8, <1>13, GrownKeeps
  <2>4. QED  BY <1>10, <2>1, <2>2, <2>3
<1>16. StackMeant(e3, stack, it.stack)
  <2>1. /\ e2.stacks \in Seq(Seq(Str)) /\ s.stacks = e2.stacks
    BY <1>8, <1>10, EncoderIs
  <2>2. /\ Has(e2.stacks, stack) => Id(e2.stacks, stack) \in 1..Len(e2.stacks)
                                    /\ e2.stacks[Id(e2.stacks, stack)] = stack
        /\ ~Has(e2.stacks, stack) => Id(e2.stacks, stack) = 0
    BY <2>1, IdIs
  <2>3. e3.bounded = e2.bounded
    BY <1>13 DEF Grown
  <2>4. CASE Has(e2.stacks, stack)
    <3> DEFINE k == Id(e2.stacks, stack)
    <3>1. k \in 1..Len(s.stacks) /\ s.stacks[k] = stack /\ k # 0
      <4>1. k \in 1..Len(e2.stacks) /\ e2.stacks[k] = stack
        BY <2>2, <2>4
      <4> HIDE DEF k
      <4>2. k # 0
        BY ONLY <4>1
      <4>3. QED  BY <2>1, <4>1, <4>2
    <3> HIDE DEF k
    <3>2. StackMeant(s, stack, d.stacks[k])
      BY <1>10, <3>1 DEF InStep
    <3>3. it.stack = d.stacks[k]
      BY <1>14, <3>1 DEF Text, k
    <3>4. StackMeant(e3, stack, d.stacks[k])
      <4>1. s \in Encoders /\ s.strings = e2.strings /\ s.bounded = e2.bounded
        <5>1. Quiet(a, e2, s) /\ s.strings = e2.strings
          BY <1>8, StampQuiet DEF s
        <5>2. QED  BY <5>1 DEF Quiet, Follows, Grown
      <4>2. Grown(s, e3)
        BY <1>10, <1>13, <2>1, <2>3, <4>1 DEF Grown
      <4>3. QED  BY <1>13, <3>2, <4>1, <4>2, GrownKeeps
    <3>5. QED  BY <3>3, <3>4
  <2>5. CASE ~Has(e2.stacks, stack)
    <3>1. it.stack = << >>
      BY <1>14, <2>2, <2>5 DEF Text
    <3>2. CASE stack = << >>
      <4>1. Len(it.stack) = Len(stack)
        BY <3>1, <3>2
      <4>2. DOMAIN stack = {}
        BY ONLY <3>2
      <4>3. QED  BY <4>1, <4>2 DEF StackMeant
    <3>3. CASE Full(e2, e2.stacks)
      <4>1. Full(e3, e3.stacks)
        BY <1>10, <2>3, <3>3 DEF Full
      <4>2. QED  BY <3>1, <4>1 DEF StackMeant
    <3>4. QED  BY <1>7, <2>5, <3>2, <3>3 DEF StackCovered
  <2>6. QED  BY <2>4, <2>5
<1>17. it \in [type : {y}, ts : Nat, texts : [P -> Str], stack : Stacks]
  <2>1. /\ e2.strings \in Seq(Str) /\ e2.stacks \in Seq(Seq(Str))
        /\ d.stacks \in Seq(Stacks) /\ Len(d.stacks) = Len(e2.stacks)
    <3>1. Follows(a, s) /\ s \in Encoders
      BY <1>8, StampQuiet DEF s, Quiet, Follows
    <3>2. Read(a, s.out) \in Reads
      <4>1. s.out \in Seq(Frame)
        BY <3>1, EncoderIs
      <4>2. << >> \in Seq(Frame)
        BY EmptySeq
      <4>3. QED  BY <4>1, <4>2, ReadConcat
    <3>3. d \in Decoders
      BY <3>2 DEF d, Reads
    <3>4. QED  BY <1>8, <1>10, <3>3, EncoderIs, DecoderIs DEF InStep
  <2>2. ASSUME NEW f \in P PROVE it.texts[f] \in Str
    <3>1. Id(e2.strings, texts[f]) \in Nat /\ Known(e2.strings, Id(e2.strings, texts[f]))
      <4>1. e2.strings \in Seq(Str)
        BY <2>1
      <4>2. QED  BY ONLY <4>1, IdIs, LenProperties
    <3>2. Text(e2.strings, "", Id(e2.strings, texts[f])) \in Str
      BY <2>1, <3>1, StringType
    <3>3. QED  BY <1>14, <3>2
  <2>3. it.stack \in Stacks
    <3>1. Id(e2.stacks, stack) \in Nat /\ Known(e2.stacks, Id(e2.stacks, stack))
      <4>1. e2.stacks \in Seq(Seq(Str))
        BY <2>1
      <4>2. QED  BY ONLY <4>1, IdIs, LenProperties
    <3>2. Known(d.stacks, Id(e2.stacks, stack))
      BY <2>1, <3>1 DEF Known
    <3>3. Text(d.stacks, << >>, Id(e2.stacks, stack)) \in Stacks
      BY <2>1, <3>1, <3>2, EmptyStack, TextType
    <3>4. QED  BY <1>14, <3>3
  <2>4. it.texts \in [P -> Str]
    BY <1>14, <2>2
  <2>5. QED  BY <1>14, <2>3, <2>4
<1>18. TimedKept(e, e3, ev, it)
  <2>1. Places(ev.type) = P /\ ev.type = y
    BY <1>3 DEF P
  <2>2. it.type = y /\ it.ts = ts
    BY <1>14
  <2>3. /\ \A f \in P : Meant(e3, ev.texts[f], it.texts[f])
        /\ \A f \in P : it.texts[f] = "" \/ Has(e3.strings, it.texts[f])
        /\ \A f \in P : (ev.texts[f] = "" \/ Has(e.strings, ev.texts[f])) => it.texts[f] = ev.texts[f]
    BY <1>3, <1>15
  <2>4. StackMeant(e3, ev.stack, it.stack)
    BY <1>3, <1>16
  <2>5. it.type = ev.type /\ it.ts = ev.ts
    BY <1>3, <2>2
  <2>6. it \in [type : {ev.type}, ts : Nat, texts : [Places(ev.type) -> Str], stack : Stacks]
    BY <1>17, <2>1
  <2>7. /\ \A f \in Places(ev.type) : Meant(e3, ev.texts[f], it.texts[f])
        /\ \A f \in Places(ev.type) : it.texts[f] = "" \/ Has(e3.strings, it.texts[f])
        /\ \A f \in Places(ev.type) :
             (ev.texts[f] = "" \/ Has(e.strings, ev.texts[f])) => it.texts[f] = ev.texts[f]
    BY ONLY <2>1, <2>3
  <2> HIDE DEF e3
  <2>8. QED  BY ONLY <2>4, <2>5, <2>6, <2>7 DEF TimedKept
<1>19. QED  BY <1>12, <1>18 DEF e1, e2, e3

\* Three texts interned in some order.
LEMMA ThreeTexts ==
  ASSUME NEW x \in Str, NEW y \in Str, NEW z \in Str
  PROVE  /\ <<x, y, z>> \in Seq(Str) /\ Len(<<x, y, z>>) = 3
         /\ <<x, y, z>>[1] = x /\ <<x, y, z>>[2] = y /\ <<x, y, z>>[3] = z
OBVIOUS

LEMMA SwitchMakes ==
  ASSUME NEW a \in Reads, NEW e, Follows(a, e), e.bounded,
         NEW ts \in Nat, NEW texts \in [Fields -> Str],
         NEW stack \in Seq(Str), stack # <<"">>
  PROVE  LET ev == [type |-> "switch", ts |-> ts, texts |-> texts, stack |-> stack]
         IN  \E it : Makes(a, e, EncodeSwitch(e, ev), it) /\ TimedKept(e, EncodeSwitch(e, ev), ev, it)
<1> DEFINE ev == [type |-> "switch", ts |-> ts, texts |-> texts, stack |-> stack]
           x == texts["label"]
           y == texts["func"]
           z == texts["task"]
           ss == <<x, y, z>>
           e3 == Put(InternStack(FoldLeft(Intern, e, ss), stack), "switch", ts, texts, stack)
<1>1. x \in Str /\ y \in Str /\ z \in Str
  BY DEF Fields
<1>2. EncodeSwitch(e, ev) = e3
  BY DEF EncodeSwitch
<1>3. \A f \in Fields : texts[f] = x \/ texts[f] = y \/ texts[f] = z
  BY DEF Fields
<1> HIDE DEF x, y, z
<1>4. ss \in Seq(Str) /\ Len(ss) = 3 /\ ss[1] = x /\ ss[2] = y /\ ss[3] = z
  BY ONLY <1>1, ThreeTexts
<1> HIDE DEF ss
<1>5. \A f \in Fields : \E i \in 1..Len(ss) : ss[i] = texts[f]
  <2>1. 1 \in 1..Len(ss) /\ 2 \in 1..Len(ss) /\ 3 \in 1..Len(ss)
    BY ONLY <1>4
  <2>2. QED  BY ONLY <1>3, <1>4, <2>1
<1>6. Places("switch") = Fields /\ "switch" \in Timed /\ "switch" \in TypesOf(e)
  BY DEF Places, Timed, Names, TypesOf
<1>7. \A f \in Places("switch") : \E i \in 1..Len(ss) : ss[i] = texts[f]
  BY ONLY <1>5, <1>6
<1>8. texts \in [Places("switch") -> Str]
  BY ONLY <1>6, texts \in [Fields -> Str]
<1> HIDE DEF ev
<1>9. ev = [type |-> "switch", ts |-> ts, texts |-> texts, stack |-> stack]
  BY DEF ev
<1>10. \E it : Makes(a, e, e3, it) /\ TimedKept(e, e3, ev, it)
  BY ONLY <1>4, <1>6, <1>7, <1>8, <1>9, a \in Reads, Follows(a, e), ts \in Nat,
          stack \in Seq(Str), stack # <<"">>, TimedMakes
<1>11. QED  BY <1>2, <1>10 DEF ev

LEMMA GcMakes ==
  ASSUME NEW a \in Reads, NEW e, Follows(a, e), NEW n \in Nat
  PROVE  Makes(a, e, EncodeGc(e, n), [type |-> "gc", n |-> n])
<1> DEFINE r == Read(a, e.out)
           d == r.dec
           it == [type |-> "gc", n |-> n]
           e2 == Emit(e, GcFrame(n))
<1>1. /\ e \in Encoders /\ InStep(e, d) /\ GcFrame(n) \in Frame
      /\ Len(e.strings) \in Nat /\ Len(e.stacks) \in Nat
  BY EncoderIs, LenProperties, FrameKinds DEF Follows, GcFrame
<1>2. EncodeGc(e, n) = e2
  BY DEF EncodeGc, GcFrame
<1>3. /\ e2.strings = e.strings /\ e2.stacks = e.stacks /\ e2.base = e.base
      /\ e2.bounded = e.bounded /\ e2.out = Append(e.out, GcFrame(n)) /\ e2 \in Encoders
  <2>1. /\ e2 = [strings |-> e.strings, stacks |-> e.stacks, base |-> e.base,
                 bounded |-> e.bounded, out |-> Append(e.out, GcFrame(n))]
        /\ e2 \in Encoders
    BY <1>1, EmitIs
  <2> HIDE DEF e2
  <2>2. QED  BY <2>1
<1> HIDE DEF e2
<1>4. /\ d \in Decoders /\ r.items \in Seq(Item)
      /\ Read(a, e2.out).dec = DecodeFrame(d, GcFrame(n))
      /\ Read(a, e2.out).items = r.items \o Decoded(d, GcFrame(n))
  BY <1>1, <1>3, FollowsMore
<1>5. DecodeFrame(d, GcFrame(n)) = d /\ Decoded(d, GcFrame(n)) = <<it>>
  <2>1. "gc" \in d.types
    BY <1>1 DEF InStep, TypesOf
  <2>2. QED  BY <1>4, <2>1, DecodeIs
<1>6. Read(a, e2.out).items = Append(r.items, it)
  <2>1. it \in Item
    BY DEF Item
  <2> HIDE DEF it
  <2>2. Append(r.items, it) = r.items \o <<it>>
    BY <1>4, <2>1, AppendIsConcat
  <2>3. QED  BY <1>4, <1>5, <2>2
<1>7. Grown(e, e2)
  BY <1>1, <1>3, BeginsAll DEF Grown
<1>8. InStep(e2, d)
  <2>1. ASSUME NEW k \in 1..Len(e2.stacks) PROVE StackMeant(e2, e2.stacks[k], d.stacks[k])
    <3>1. StackMeant(e, e.stacks[k], d.stacks[k])
      BY <1>1, <1>3 DEF InStep
    <3>2. QED  BY <1>1, <1>3, <1>7, <3>1, GrownKeeps
  <2>2. TypesOf(e2) = TypesOf(e)
    BY <1>3 DEF TypesOf
  <2>3. QED  BY <1>1, <1>3, <2>1, <2>2 DEF InStep
<1>9. QED  BY <1>2, <1>3, <1>4, <1>5, <1>6, <1>7, <1>8 DEF Makes, Follows

-----------------------------------------------------------------------------
(* What was sent and what is read of it. *)

Meta == [type |-> "meta"]

\* EventKept for any encoder.
EventMeant(e, ev, it) ==
  IF ev.type = "gc" THEN it = ev
  ELSE /\ it.type = ev.type /\ it.ts = ev.ts
       /\ \A f \in DOMAIN ev.texts : Meant(e, ev.texts[f], it.texts[f])
       /\ StackMeant(e, ev.stack, it.stack)

\* The texts of an item are in the pool.
TextsKnown(e, it) == \A f \in Fields : it.texts[f] = "" \/ Has(e.strings, it.texts[f])

\* A text of an earlier item is not missing from a later one.
SeenKept(it1, ev2, it2) ==
  \A f, g \in Fields : ev2.texts[g] = it1.texts[f] => it2.texts[g] = ev2.texts[g]

\* The items are the meta frame's and one for each event.
Told(e, evs, its) ==
  /\ Len(its) = Len(evs) + 1 /\ its[1] = Meta
  /\ \A i \in 1..Len(evs) : EventMeant(e, evs[i], its[i + 1])
  /\ \A i \in 1..Len(evs) : evs[i].type = "switch" => TextsKnown(e, its[i + 1])
  /\ \A i, j \in 1..Len(evs) : (i < j /\ evs[i].type = "switch" /\ evs[j].type = "switch") =>
       SeenKept(its[i + 1], evs[j], its[j + 1])

LEMMA ToldGrown ==
  ASSUME NEW e \in Encoders, NEW e2 \in Encoders, Grown(e, e2), NEW evs, NEW its, Told(e, evs, its)
  PROVE  Told(e2, evs, its)
<1>1. \A ev, it : EventMeant(e, ev, it) => EventMeant(e2, ev, it)
  BY GrownKeeps DEF EventMeant
<1>2. \A it : TextsKnown(e, it) => TextsKnown(e2, it)
  BY GrownKeeps DEF TextsKnown
<1>3. QED  BY <1>1, <1>2 DEF Told

\* One event and its item more.
LEMMA ToldMore ==
  ASSUME NEW e \in Encoders, NEW e2 \in Encoders, Grown(e, e2),
         NEW evs \in Seq(Event), NEW its \in Seq(Item), Told(e, evs, its),
         NEW ev \in Event, NEW it,
         \/ ev.type = "gc" /\ it = ev
         \/ ev.type = "switch" /\ TimedKept(e, e2, ev, it)
  PROVE  Told(e2, Append(evs, ev), Append(its, it))
<1> DEFINE N == Len(evs)
           evs2 == Append(evs, ev)
           its2 == Append(its, it)
<1>1. Told(e2, evs, its)
  BY ToldGrown
<1>2. /\ N \in Nat /\ Len(its) = N + 1
  BY LenProperties DEF Told
<1>3. /\ Len(evs2) = N + 1 /\ evs2[N + 1] = ev
      /\ \A i \in 1..N : evs2[i] = evs[i]
  BY AppendProperties
<1>4. /\ Len(its2) = N + 2 /\ its2[N + 2] = it
      /\ \A i \in 1..(N + 1) : its2[i] = its[i]
  <2> DEFINE S == Item \cup {it}
  <2>1. its \in Seq(S) /\ it \in S
    <3>1. Item \subseteq S
      OBVIOUS
    <3> HIDE DEF S
    <3>2. its \in Seq(S)
      BY <3>1, SeqMonotonic
    <3>3. QED  BY <3>2 DEF S
  <2> HIDE DEF S
  <2>2. /\ Len(Append(its, it)) = Len(its) + 1 /\ Append(its, it)[Len(its) + 1] = it
        /\ \A i \in 1..Len(its) : Append(its, it)[i] = its[i]
    BY <2>1, AppendProperties
  <2>3. Len(its) + 1 = N + 2 /\ Len(its) = N + 1
    BY <1>2
  <2>4. QED  BY <2>2, <2>3
<1> HIDE DEF N, evs2, its2
<1>5. its2[1] = Meta
  <2>1. 1 \in 1..(N + 1)
    BY <1>2
  <2>2. QED  BY <1>1, <1>4, <2>1 DEF Told
<1>6. ASSUME NEW i \in 1..(N + 1), i # N + 1
      PROVE  i \in 1..N /\ evs2[i] = evs[i] /\ its2[i + 1] = its[i + 1]
  <2>1. i \in 1..N /\ i + 1 \in 1..(N + 1)
    BY <1>2, <1>6
  <2>2. QED  BY <1>3, <1>4, <2>1
<1>7. evs2[N + 1] = ev /\ its2[(N + 1) + 1] = it
  <2>1. (N + 1) + 1 = N + 2
    BY <1>2
  <2>2. QED  BY <1>3, <1>4, <2>1
<1>8. EventMeant(e2, ev, it) /\ (ev.type = "switch" => TextsKnown(e2, it))
  <2>1. CASE ev.type = "gc" /\ it = ev
    BY <2>1 DEF EventMeant
  <2>2. CASE ev.type = "switch" /\ TimedKept(e, e2, ev, it)
    <3>1. DOMAIN ev.texts = Fields /\ Places(ev.type) = Fields
      BY <2>2 DEF Event, Places
    <3>2. QED  BY <2>2, <3>1 DEF EventMeant, TimedKept, TextsKnown
  <2>3. QED  BY <2>1, <2>2
<1>9. ASSUME NEW i \in 1..N, evs[i].type = "switch", ev.type = "switch"
      PROVE  SeenKept(its[i + 1], ev, it)
  <2>1. TextsKnown(e, its[i + 1])
    BY <1>9 DEF Told, N
  <2>2. TimedKept(e, e2, ev, it) /\ Places(ev.type) = Fields
    BY <1>9 DEF Places
  <2>3. QED  BY <2>1, <2>2 DEF TextsKnown, TimedKept, SeenKept
<1>10. ASSUME NEW i \in 1..(N + 1)
       PROVE  /\ EventMeant(e2, evs2[i], its2[i + 1])
              /\ evs2[i].type = "switch" => TextsKnown(e2, its2[i + 1])
  <2>1. CASE i = N + 1
    BY <1>7, <1>8, <2>1
  <2>2. CASE i # N + 1
    <3>1. i \in 1..N /\ evs2[i] = evs[i] /\ its2[i + 1] = its[i + 1]
      BY <1>6, <2>2
    <3>2. EventMeant(e2, evs[i], its[i + 1]) /\ (evs[i].type = "switch" => TextsKnown(e2, its[i + 1]))
      BY <1>1, <3>1 DEF Told, N
    <3>3. QED  BY <3>1, <3>2
  <2>3. QED  BY <2>1, <2>2
<1>11. ASSUME NEW i \in 1..(N + 1), NEW j \in 1..(N + 1), i < j,
              evs2[i].type = "switch", evs2[j].type = "switch"
       PROVE  SeenKept(its2[i + 1], evs2[j], its2[j + 1])
  <2>0. i # N + 1
    BY <1>2, <1>11
  <2>1. i \in 1..N /\ evs2[i] = evs[i] /\ its2[i + 1] = its[i + 1]
    BY <1>6, <2>0
  <2>2. CASE j = N + 1
    BY <1>7, <1>9, <1>11, <2>1, <2>2
  <2>3. CASE j # N + 1
    <3>1. j \in 1..N /\ evs2[j] = evs[j] /\ its2[j + 1] = its[j + 1]
      BY <1>6, <2>3
    <3>2. SeenKept(its[i + 1], evs[j], its[j + 1])
      BY <1>11, <2>1, <3>1 DEF Told, N
    <3>3. QED  BY <2>1, <3>1, <3>2
  <2>4. QED  BY <2>2, <2>3
<1>12. Len(its2) = Len(evs2) + 1
  BY <1>2, <1>3, <1>4
<1>13. Told(e2, evs2, its2)
  BY <1>3, <1>5, <1>10, <1>11, <1>12 DEF Told
<1>14. QED  BY <1>13 DEF evs2, its2

-----------------------------------------------------------------------------
(* The invariant: the collector, once it has read what is on its way, is in step *)
(* with the hook and has an item for each event.                                 *)

Start == [dec |-> dec, items |-> items]
AfterPipe == Read(Start, pipe)

WireInv ==
  /\ hub \in Encoders /\ hub.out = << >> /\ hub.bounded
  /\ pipe \in Seq(Frame) /\ Start \in Reads
  /\ now \in Nat /\ sent \in Seq(Event)
  /\ InStep(hub, AfterPipe.dec)
  /\ Told(hub, sent, AfterPipe.items)

\* What the encoder puts out is the collector's to read after all before it.
LEMMA SendStep ==
  ASSUME WireInv, NEW e2, Follows(AfterPipe, e2), Sends(e2), dec' = dec, items' = items
  PROVE  /\ hub' \in Encoders /\ hub'.out = << >> /\ hub'.bounded = e2.bounded
         /\ pipe' \in Seq(Frame) /\ Start' \in Reads
         /\ AfterPipe' = Read(AfterPipe, e2.out)
         /\ InStep(hub', AfterPipe'.dec)
         /\ \A evs, its : Told(e2, evs, its) => Told(hub', evs, its)
<1>1. e2 \in Encoders /\ InStep(e2, Read(AfterPipe, e2.out).dec) /\ e2.out \in Seq(Frame)
  BY EncoderIs DEF Follows
<1>2. hub' = [e2 EXCEPT !.out = << >>] /\ pipe' = pipe \o e2.out
  BY DEF Sends
<1>3. /\ hub'.strings = e2.strings /\ hub'.stacks = e2.stacks /\ hub'.base = e2.base
      /\ hub'.bounded = e2.bounded /\ hub'.out = << >> /\ hub' \in Encoders
  <2>1. hub' = [strings |-> e2.strings, stacks |-> e2.stacks, base |-> e2.base,
                bounded |-> e2.bounded, out |-> << >>]
    BY <1>1, <1>2, Changed
  <2>2. << >> \in Seq(Frame)
    OBVIOUS
  <2>3. QED  BY <1>1, <2>1, <2>2, EncoderIs DEF Encoders
<1>4. Start' = Start /\ Start \in Reads /\ pipe \in Seq(Frame)
  BY DEF Start, WireInv
<1>5. pipe' \in Seq(Frame) /\ AfterPipe' = Read(AfterPipe, e2.out)
  <2>1. pipe \o e2.out \in Seq(Frame)
    BY <1>1, <1>4, ConcatProperties
  <2>2. Read(Start, pipe \o e2.out) = Read(Read(Start, pipe), e2.out)
    BY <1>1, <1>4, ReadConcat
  <2>3. AfterPipe' = Read(Start, pipe \o e2.out)
    BY <1>2, <1>4 DEF AfterPipe
  <2>4. QED  BY <1>2, <2>1, <2>2, <2>3 DEF AfterPipe
<1> DEFINE h == hub'
<1>6. /\ h.strings = e2.strings /\ h.stacks = e2.stacks /\ h.base = e2.base
      /\ h.bounded = e2.bounded
  BY <1>3
<1> HIDE DEF h
<1>7. /\ \A s, t : Meant(e2, s, t) <=> Meant(h, s, t)
      /\ \A fs, t : StackMeant(e2, fs, t) <=> StackMeant(h, fs, t)
  BY <1>6 DEF Meant, StackMeant, Full
<1>8. InStep(h, Read(AfterPipe, e2.out).dec)
  <2>1. TypesOf(h) = TypesOf(e2)
    BY <1>6 DEF TypesOf
  <2>2. QED  BY ONLY <1>1, <1>6, <1>7, <2>1 DEF InStep
<1>9. ASSUME NEW evs, NEW its, Told(e2, evs, its) PROVE Told(h, evs, its)
  <2>1. Grown(e2, h) /\ h \in Encoders
    <3>1. Len(e2.strings) \in Nat /\ Len(e2.stacks) \in Nat
      BY <1>1, EncoderIs, LenProperties
    <3>2. QED  BY <1>3, <1>6, <3>1, BeginsAll DEF Grown, h
  <2>2. QED  BY <1>1, <1>9, <2>1, ToldGrown
<1>10. QED  BY <1>3, <1>4, <1>5, <1>8, <1>9 DEF h

LEMMA InvFollows ==
  ASSUME WireInv
  PROVE  /\ AfterPipe \in Reads /\ Follows(AfterPipe, hub) /\ hub \in Encoders
         /\ Read(AfterPipe, hub.out) = AfterPipe
<1>1. Start \in Reads /\ pipe \in Seq(Frame) /\ << >> \in Seq(Frame)
  BY DEF WireInv
<1>2. AfterPipe \in Reads
  BY <1>1, ReadConcat DEF AfterPipe
<1>3. Read(AfterPipe, << >>) = AfterPipe
  BY <1>2, ReadNone
<1>4. QED  BY <1>2, <1>3 DEF WireInv, Follows

LEMMA InputTypes ==
  /\ \A texts \in Resumes : texts \in [Fields -> Str]
  /\ \A y \in Yields : y.took \in Nat /\ y.stack \in Seq(Str) /\ \A i \in 1..Len(y.stack) : y.stack[i] # ""
<1>1. STRING \subseteq Str
  BY DEF Str
<1>2. ASSUME NEW texts \in Resumes PROVE texts \in [Fields -> Str]
  <2>1. texts \in [Fields -> STRING]
    BY WireAssumption DEF Fields
  <2>2. QED  BY <1>1, <2>1
<1>3. ASSUME NEW y \in Yields
      PROVE  y.took \in Nat /\ y.stack \in Seq(Str) /\ \A i \in 1..Len(y.stack) : y.stack[i] # ""
  <2>1. y \in [took : Nat, stack : Seq(STRING)] /\ \A i \in DOMAIN y.stack : y.stack[i] # ""
    BY WireAssumption
  <2>2. y.took \in Nat /\ y.stack \in Seq(STRING)
    BY <2>1
  <2>3. y.stack \in Seq(Str)
    BY <1>1, <2>2, SeqMonotonic
  <2>4. DOMAIN y.stack = 1..Len(y.stack)
    BY <2>2, LenProperties
  <2>5. QED  BY <2>1, <2>2, <2>3, <2>4
<1>4. QED  BY <1>2, <1>3

LEMMA SwitchStep ==
  ASSUME WireInv, NEW texts \in Resumes, NEW y \in Yields, Switch(texts, y)
  PROVE  WireInv'
<1> DEFINE ev == [type |-> "switch", ts |-> now + y.took, texts |-> texts, stack |-> y.stack]
           e2 == EncodeSwitch(hub, ev)
           a == AfterPipe
<1>1. /\ now' = ev.ts /\ Sends(e2) /\ sent' = Append(sent, ev) /\ dec' = dec /\ items' = items
  BY DEF Switch
<1>2. /\ texts \in [Fields -> Str] /\ y.took \in Nat /\ y.stack \in Seq(Str)
      /\ \A i \in 1..Len(y.stack) : y.stack[i] # ""
  BY InputTypes
<1>3. now + y.took \in Nat /\ sent \in Seq(Event)
  <2>1. now \in Nat /\ sent \in Seq(Event)
    BY DEF WireInv
  <2>2. y.took \in Nat
    BY <1>2
  <2>3. QED  BY ONLY <2>1, <2>2
<1>4. ev \in Event /\ ev.type = "switch" /\ ev.ts \in Nat
  BY <1>2, <1>3 DEF Event
<1>5. a \in Reads /\ Follows(a, hub) /\ hub \in Encoders /\ Read(a, hub.out) = a
  BY InvFollows
<1>6. \E it : Makes(a, hub, EncodeSwitch(hub, ev), it) /\ TimedKept(hub, EncodeSwitch(hub, ev), ev, it)
  <2> HIDE DEF a, ev
  <2>1. y.stack # <<"">>
    <3>1. 1 \in 1..Len(<<"">>) /\ <<"">>[1] = ""
      OBVIOUS
    <3>2. QED  BY <1>2, <3>1
  <2>2. /\ a \in Reads /\ Follows(a, hub) /\ hub.bounded /\ now + y.took \in Nat
        /\ texts \in [Fields -> Str] /\ y.stack \in Seq(Str) /\ y.stack # <<"">>
    BY <1>2, <1>3, <1>5, <2>1 DEF WireInv
  <2>3. \E it : /\ Makes(a, hub, EncodeSwitch(hub, [type |-> "switch", ts |-> now + y.took,
                                                     texts |-> texts, stack |-> y.stack]), it)
               /\ TimedKept(hub, EncodeSwitch(hub, [type |-> "switch", ts |-> now + y.took,
                                                     texts |-> texts, stack |-> y.stack]),
                            [type |-> "switch", ts |-> now + y.took, texts |-> texts, stack |-> y.stack], it)
    BY ONLY <2>2, SwitchMakes
  <2>4. QED  BY <2>3 DEF ev
<1>7. PICK it : Makes(a, hub, e2, it) /\ TimedKept(hub, e2, ev, it)
  BY <1>6
<1> HIDE DEF ev, e2
<1>8. /\ Follows(a, e2) /\ Grown(hub, e2) /\ e2 \in Encoders
      /\ Read(a, e2.out).items = Append(a.items, it)
  BY <1>5, <1>7 DEF Makes, Follows
<1>9. /\ hub' \in Encoders /\ hub'.out = << >> /\ hub'.bounded = e2.bounded
      /\ pipe' \in Seq(Frame) /\ Start' \in Reads
      /\ AfterPipe' = Read(a, e2.out)
      /\ InStep(hub', AfterPipe'.dec)
      /\ \A evs, its : Told(e2, evs, its) => Told(hub', evs, its)
  BY <1>1, <1>8, SendStep
<1>10. Told(e2, Append(sent, ev), Append(a.items, it))
  <2>1. Told(hub, sent, a.items) /\ a.items \in Seq(Item)
    BY <1>5 DEF WireInv, Reads
  <2>2. QED  BY <1>3, <1>4, <1>5, <1>7, <1>8, <2>1, ToldMore
<1>11. sent' \in Seq(Event) /\ now' \in Nat
  BY <1>1, <1>3, <1>4, AppendProperties
<1>12. Told(hub', sent', AfterPipe'.items)
  BY <1>1, <1>8, <1>9, <1>10
<1>13. QED  BY <1>8, <1>9, <1>11, <1>12 DEF WireInv, Grown

LEMMA PauseStep ==
  ASSUME WireInv, Pause
  PROVE  WireInv'
<1> DEFINE ev == [type |-> "gc", n |-> Len(sent)]
           e2 == EncodeGc(hub, Len(sent))
           a == AfterPipe
<1>1. /\ now' = now /\ Sends(e2) /\ sent' = Append(sent, ev) /\ dec' = dec /\ items' = items
  BY DEF Pause
<1>2. sent \in Seq(Event) /\ Len(sent) \in Nat /\ now \in Nat
  BY LenProperties DEF WireInv
<1>3. ev \in Event /\ ev.type = "gc"
  BY <1>2 DEF Event
<1>4. a \in Reads /\ Follows(a, hub) /\ hub \in Encoders /\ Read(a, hub.out) = a
  BY InvFollows
<1>5. Makes(a, hub, e2, ev)
  <2> HIDE DEF a
  <2>1. QED  BY <1>2, <1>4, GcMakes
<1> HIDE DEF ev, e2
<1>6. /\ Follows(a, e2) /\ Grown(hub, e2) /\ e2 \in Encoders
      /\ Read(a, e2.out).items = Append(a.items, ev)
  BY <1>4, <1>5 DEF Makes, Follows
<1>7. /\ hub' \in Encoders /\ hub'.out = << >> /\ hub'.bounded = e2.bounded
      /\ pipe' \in Seq(Frame) /\ Start' \in Reads
      /\ AfterPipe' = Read(a, e2.out)
      /\ InStep(hub', AfterPipe'.dec)
      /\ \A evs, its : Told(e2, evs, its) => Told(hub', evs, its)
  BY <1>1, <1>6, SendStep
<1>8. Told(e2, Append(sent, ev), Append(a.items, ev))
  <2>1. Told(hub, sent, a.items) /\ a.items \in Seq(Item)
    BY <1>4 DEF WireInv, Reads
  <2>2. QED  BY <1>2, <1>3, <1>4, <1>6, <2>1, ToldMore
<1>9. sent' \in Seq(Event) /\ now' \in Nat
  BY <1>1, <1>2, <1>3, AppendProperties
<1>10. Told(hub', sent', AfterPipe'.items)
  BY <1>1, <1>6, <1>7, <1>8
<1>11. QED  BY <1>6, <1>7, <1>9, <1>10 DEF WireInv, Grown

LEMMA SkipStep ==
  ASSUME WireInv, NEW texts \in Resumes, SkipSwitch(texts)
  PROVE  WireInv'
<1> DEFINE ss == <<texts.label, texts.func>>
           e2 == FoldLeft(Intern, hub, ss)
           a == AfterPipe
<1>1. /\ now' = now /\ Sends(e2) /\ sent' = sent /\ dec' = dec /\ items' = items
  BY DEF SkipSwitch
<1>2. ss \in Seq(Str)
  <2> DEFINE x == texts["label"]
             y == texts["func"]
  <2>1. x \in Str /\ y \in Str
    BY InputTypes DEF Fields
  <2>2. ss = <<x, y>>
    OBVIOUS
  <2> HIDE DEF x, y, ss
  <2>3. QED  BY ONLY <2>1, <2>2
<1> HIDE DEF ss
<1>3. a \in Reads /\ Follows(a, hub) /\ hub \in Encoders /\ Read(a, hub.out) = a
  BY InvFollows
<1>4. Quiet(a, hub, e2)
  <2> HIDE DEF a
  <2>1. QED  BY <1>2, <1>3, InternAll
<1> HIDE DEF e2
<1>5. /\ Follows(a, e2) /\ Grown(hub, e2) /\ e2 \in Encoders
      /\ Read(a, e2.out).items = a.items
  BY <1>3, <1>4 DEF Quiet, Follows
<1>6. /\ hub' \in Encoders /\ hub'.out = << >> /\ hub'.bounded = e2.bounded
      /\ pipe' \in Seq(Frame) /\ Start' \in Reads
      /\ AfterPipe' = Read(a, e2.out)
      /\ InStep(hub', AfterPipe'.dec)
      /\ \A evs, its : Told(e2, evs, its) => Told(hub', evs, its)
  BY <1>1, <1>5, SendStep
<1>7. Told(e2, sent, a.items)
  BY <1>3, <1>5, ToldGrown DEF WireInv
<1>8. QED  BY <1>1, <1>5, <1>6, <1>7 DEF WireInv, Grown

\* Reading some of what is on its way leaves the rest to read.
LEMMA ReceiveStep ==
  ASSUME WireInv, Receive
  PROVE  WireInv'
<1> DEFINE L == Len(pipe)
           ends == {i \in DOMAIN pipe : pipe[i].tag \in {"event", "meta"} \/ i = Len(pipe)}
           n == CHOOSE i \in ends : \A j \in ends : i <= j
           first == SubSeq(pipe, 1, n)
           rest == SubSeq(pipe, n + 1, Len(pipe))
           read == FoldLeft(ReadFrame, [dec |-> dec, items |-> items], first)
<1>1. /\ pipe # << >> /\ dec' = read.dec /\ items' = read.items /\ pipe' = rest
      /\ hub' = hub /\ now' = now /\ sent' = sent
  BY DEF Receive
<1>2. pipe \in Seq(Frame) /\ L \in Nat /\ DOMAIN pipe = 1..L /\ L # 0 /\ Start \in Reads
  BY <1>1, LenProperties, EmptySeq DEF WireInv
<1>3. n \in 1..L
  <2>1. ends \in SUBSET Nat /\ L \in ends /\ ends \subseteq 1..L
    BY <1>2
  <2> HIDE DEF ends
  <2>2. \E i \in ends : \A j \in ends : i <= j
    BY <2>1, LeastOf
  <2>3. n \in ends
    BY <2>2
  <2>4. QED  BY <2>1, <2>3
<1> HIDE DEF n
<1>4. /\ first \in Seq(Frame) /\ rest \in Seq(Frame) /\ first \o rest = pipe
  <2>1. first \in Seq(Frame)
    <3>1. 1 \in Int /\ n \in Int /\ \A i \in 1..n : pipe[i] \in Frame
      BY <1>2, <1>3, ElementOfSeq
    <3>2. QED  BY <3>1, SubSeqProperties
  <2>2. rest \in Seq(Frame)
    BY <1>2, <1>3, RestType
  <2>3. SubSeq(pipe, 1, L) = pipe
    BY <1>2, SubSeqFull
  <2>4. SubSeq(pipe, 1, n) \o SubSeq(pipe, n + 1, L) = SubSeq(pipe, 1, L)
    <3>1. pipe \in Seq(Frame) /\ 1 \in 1..(L + 1) /\ n \in (1 - 1)..L /\ L \in n..L
      BY <1>2, <1>3
    <3>2. QED  BY ONLY <3>1, ConcatAdjacentSubSeq
  <2>5. QED  BY <2>1, <2>2, <2>3, <2>4
<1> HIDE DEF first, rest
<1>5. read = Read(Start, first) /\ read \in Reads
  <2>1. read = Read(Start, first)
    BY DEF Read, Start
  <2>2. QED  BY <1>2, <1>4, <2>1, ReadConcat
<1> HIDE DEF read
<1>6. Start' = read
  BY <1>1, <1>5 DEF Start, Reads
<1>7. AfterPipe' = AfterPipe
  <2>1. AfterPipe = Read(Read(Start, first), rest)
    BY <1>2, <1>4, ReadConcat DEF AfterPipe
  <2>2. AfterPipe' = Read(Start', rest)
    BY <1>1 DEF AfterPipe
  <2>3. QED  BY <1>5, <1>6, <2>1, <2>2
<1>8. QED  BY <1>1, <1>4, <1>5, <1>6, <1>7 DEF WireInv

LEMMA WireInit ==
  ASSUME Init
  PROVE  WireInv
<1> DEFINE f1 == Schema("switch")
           f2 == Schema("gc")
           f3 == MetaFrame
           p0 == << >>
           p1 == Append(p0, f1)
           p2 == Append(p1, f2)
           p3 == Append(p2, f3)
           d1 == [FreshDecoder EXCEPT !.types = FreshDecoder.types \cup {"switch"}]
           d2 == [d1 EXCEPT !.types = d1.types \cup {"gc"}]
<1>1. f1 \in Frame /\ f2 \in Frame /\ f3 \in Frame
  BY FrameKinds DEF Names, MetaFrame
<1>2. FreshDecoder \in Decoders /\ Start \in Reads /\ Start.dec = FreshDecoder /\ Start.items = << >>
  BY DEF Init, FreshDecoder, Decoders, Start, Reads
<1>3. pipe = p3
  <2>1. FreshEncoder(TRUE, WireTypes).out = <<f1, f2>>
    BY DEF FreshEncoder, WireTypes
  <2>2. pipe = Append(<<f1, f2>>, f3)
    BY <2>1 DEF Init, EncodeMeta, Emit, MetaFrame, FreshEncoder
  <2>3. <<f1, f2>> = p2
    <3> HIDE DEF f1, f2
    <3>1. QED  OBVIOUS
  <2>4. QED  BY <2>2, <2>3
<1>4. p0 \in Seq(Frame) /\ p1 \in Seq(Frame) /\ p2 \in Seq(Frame) /\ p3 \in Seq(Frame)
  <2>1. p0 \in Seq(Frame)
    OBVIOUS
  <2> HIDE DEF f1, f2, f3, p0
  <2>2. p1 \in Seq(Frame)
    BY <1>1, <2>1, AppendProperties
  <2> HIDE DEF p1
  <2>3. p2 \in Seq(Frame)
    BY <1>1, <2>2, AppendProperties
  <2> HIDE DEF p2
  <2>4. p3 \in Seq(Frame)
    BY <1>1, <2>3, AppendProperties
  <2>5. QED  BY <2>1, <2>2, <2>3, <2>4
<1>5. Read(Start, p0) = Start
  BY <1>2, ReadNone
<1> HIDE DEF p0
<1>6. /\ DecodeFrame(FreshDecoder, f1) = d1 /\ Decoded(FreshDecoder, f1) = << >>
      /\ d1 = [strings |-> << >>, stacks |-> << >>, types |-> {"switch"}, base |-> 0, ok |-> TRUE]
  <2>1. DecodeFrame(FreshDecoder, f1) = d1 /\ Decoded(FreshDecoder, f1) = << >>
    BY <1>2, DecodeIs DEF Names
  <2>2. d1 = [strings |-> << >>, stacks |-> << >>, types |-> {"switch"}, base |-> 0, ok |-> TRUE]
    <3> DEFINE D == FreshDecoder
               T == D.types \cup {"switch"}
    <3>1. /\ D.strings = << >> /\ D.stacks = << >> /\ D.base = 0 /\ D.ok = TRUE
          /\ T = {"switch"}
      BY DEF FreshDecoder
    <3>2. D \in Decoders
      BY <1>2
    <3> HIDE DEF D, T
    <3>3. [D EXCEPT !.types = T] = [strings |-> D.strings, stacks |-> D.stacks, types |-> T,
                                    base |-> D.base, ok |-> D.ok]
      BY <3>2, DecoderChanged
    <3>4. QED  BY <3>1, <3>3 DEF D, T
  <2>3. QED  BY <2>1, <2>2
<1>7. /\ Read(Start, p1).dec = d1 /\ Read(Start, p1).items = << >> /\ Read(Start, p1) \in Reads
  <2>1. Read(Start, p1) = ReadFrame(Start, f1)
    BY <1>1, <1>2, <1>4, <1>5, ReadMore
  <2>2. FreshDecoder.ok
    BY DEF FreshDecoder
  <2>3. /\ ReadFrame(Start, f1).dec = DecodeFrame(FreshDecoder, f1)
        /\ ReadFrame(Start, f1).items = << >> \o Decoded(FreshDecoder, f1)
        /\ ReadFrame(Start, f1) \in Reads
    BY <1>1, <1>2, <2>2, ReadType
  <2>4. << >> \o << >> = << >>
    OBVIOUS
  <2> HIDE DEF f1, p1, d1
  <2>5. QED  BY <1>6, <2>1, <2>3, <2>4
<1> DEFINE r1 == Read(Start, p1)
<1>8. d1 \in Decoders /\ d1.ok /\ r1.dec = d1 /\ r1.items = << >> /\ r1 \in Reads
  <2>1. d1.ok
    BY <1>6
  <2> HIDE DEF d1, p1
  <2>2. QED  BY <1>7, <2>1 DEF Reads
<1>9. /\ DecodeFrame(d1, f2) = d2 /\ Decoded(d1, f2) = << >>
      /\ d2 = [strings |-> << >>, stacks |-> << >>, types |-> {"switch", "gc"}, base |-> 0, ok |-> TRUE]
  <2>1. d1.types \cup {"gc"} = {"switch", "gc"}
    BY <1>6
  <2> HIDE DEF d1
  <2>2. DecodeFrame(d1, f2) = d2 /\ Decoded(d1, f2) = << >>
    BY <1>8, DecodeIs DEF Names
  <2>3. d2 = [strings |-> << >>, stacks |-> << >>, types |-> {"switch", "gc"}, base |-> 0, ok |-> TRUE]
    <3> DEFINE T == d1.types \cup {"gc"}
    <3>1. T = {"switch", "gc"}
      BY <2>1
    <3> HIDE DEF T
    <3>2. [d1 EXCEPT !.types = T] = [strings |-> d1.strings, stacks |-> d1.stacks, types |-> T,
                                     base |-> d1.base, ok |-> d1.ok]
      BY <1>8, DecoderChanged
    <3>3. /\ d1.strings = << >> /\ d1.stacks = << >> /\ d1.base = 0 /\ d1.ok = TRUE
      BY <1>6
    <3>4. QED  BY <3>1, <3>2, <3>3 DEF T
  <2>4. QED  BY <2>2, <2>3
<1>10. /\ Read(Start, p2).dec = d2 /\ Read(Start, p2).items = << >> /\ Read(Start, p2) \in Reads
  <2>1. Read(Start, p2) = ReadFrame(r1, f2)
    <3> HIDE DEF p1, f2
    <3>1. QED  BY <1>1, <1>2, <1>4, ReadMore
  <2> HIDE DEF f1, f2, p1, p2, d1, d2, r1
  <2>2. /\ ReadFrame(r1, f2).dec = DecodeFrame(d1, f2)
        /\ ReadFrame(r1, f2).items = << >> \o Decoded(d1, f2)
        /\ ReadFrame(r1, f2) \in Reads
    BY <1>1, <1>8, ReadType
  <2>3. << >> \o << >> = << >>
    OBVIOUS
  <2>4. QED  BY <1>9, <2>1, <2>2, <2>3
<1> DEFINE r2 == Read(Start, p2)
<1>11. d2 \in Decoders /\ d2.ok /\ r2.dec = d2 /\ r2.items = << >> /\ r2 \in Reads
  <2>1. d2.ok
    BY <1>9
  <2> HIDE DEF d2, p2
  <2>2. QED  BY <1>10, <2>1 DEF Reads
<1>12. AfterPipe.dec = d2 /\ AfterPipe.items = <<Meta>>
  <2>1. AfterPipe = ReadFrame(r2, f3)
    <3> HIDE DEF p2, f3
    <3>1. QED  BY <1>1, <1>2, <1>3, <1>4, ReadMore DEF AfterPipe
  <2> HIDE DEF f1, f2, p1, p2, p3, d1, d2, r1, r2
  <2>2. /\ ReadFrame(r2, f3).dec = DecodeFrame(d2, f3)
        /\ ReadFrame(r2, f3).items = << >> \o Decoded(d2, f3)
    BY <1>1, <1>11, ReadType
  <2>3. DecodeFrame(d2, f3) = d2 /\ Decoded(d2, f3) = <<Meta>>
    BY <1>11, DecodeIs DEF f3, Meta
  <2>4. << >> \o <<Meta>> = <<Meta>>
    OBVIOUS
  <2>5. QED  BY <2>1, <2>2, <2>3, <2>4
<1>13. hub = [strings |-> << >>, stacks |-> << >>, base |-> 0, bounded |-> TRUE, out |-> << >>]
  BY DEF Init, FreshEncoder
<1>14. hub \in Encoders /\ hub.out = << >> /\ hub.bounded
  BY <1>13 DEF Encoders
<1>15. InStep(hub, AfterPipe.dec)
  <2>0. MaxPool \in Nat \ {0}
    BY WireAssumption
  <2>1. Len(<< >>) = 0 /\ 0 < MaxPool /\ 1..0 = {}
    BY ONLY <2>0
  <2> HIDE DEF d2
  <2>2. QED  BY <1>9, <1>12, <1>13, <2>1 DEF InStep, TypesOf
<1>16. Told(hub, sent, AfterPipe.items)
  <2>1. sent = << >> /\ Len(<< >>) = 0 /\ 1..0 = {} /\ Len(<<Meta>>) = 1 /\ <<Meta>>[1] = Meta
    BY DEF Init
  <2>2. QED  BY <1>12, <2>1 DEF Told
<1>17. now \in Nat /\ sent \in Seq(Event)
  BY DEF Init
<1>18. QED  BY <1>2, <1>3, <1>4, <1>14, <1>15, <1>16, <1>17 DEF WireInv

LEMMA WireInductive ==
  ASSUME WireInv, [Next]_vars
  PROVE  WireInv'
<1>1. ASSUME NEW texts \in Resumes, NEW y \in Yields, Switch(texts, y) PROVE WireInv'
  BY <1>1, SwitchStep
<1>2. ASSUME NEW texts \in Resumes, SkipSwitch(texts) PROVE WireInv'
  BY <1>2, SkipStep
<1>3. ASSUME Pause PROVE WireInv'
  BY <1>3, PauseStep
<1>4. ASSUME Receive PROVE WireInv'
  BY <1>4, ReceiveStep
<1>5. ASSUME UNCHANGED <<hub, pipe, dec, items, now, sent>> PROVE WireInv'
  <2>1. Start' = Start
    BY <1>5 DEF Start
  <2>2. AfterPipe' = AfterPipe
    BY <1>5, <2>1 DEF AfterPipe
  <2>3. QED  BY <1>5, <2>1, <2>2 DEF WireInv
<1>6. ASSUME Seal PROVE WireInv'
  BY <1>5, <1>6 DEF Seal
<1>7. ASSUME UNCHANGED vars PROVE WireInv'
  BY <1>5, <1>7 DEF vars
<1>8. QED  BY <1>1, <1>2, <1>3, <1>4, <1>6, <1>7 DEF Next

LEMMA WireAlways == Spec => []WireInv
<1>1. Init => WireInv
  BY WireInit
<1>2. WireInv /\ [Next]_vars => WireInv'
  BY WireInductive
<1>3. QED  BY <1>1, <1>2, PTL DEF Spec

-----------------------------------------------------------------------------
(* The theorems about the stream. *)

\* glr.py's encoder and trace_format.rs's decoder never get out of step: once
\* the collector has read what is on its way, its string pool and time base are
\* the hook's and its stack pool as long, whatever was skipped, reset or refused by
\* a full pool, and no pool reaches _MAX_POOL.
THEOREM PoolsStayInStep == Spec => []PoolsInStep
<1>1. WireInv => PoolsInStep
  <2>1. FoldLeft(ReadFrame, [dec |-> dec, items |-> items], pipe) = AfterPipe
    BY DEF AfterPipe, Start, Read
  <2>2. QED  BY <2>1 DEF PoolsInStep, WireInv, InStep
<1>2. QED  BY <1>1, WireAlways, PTL

\* The collector decodes the meta frame first and then what the hook encoded, event
\* by event in order, each at its exact time and with its texts, or "" for a text
\* the full pool refused; a text seen in an event is never missing from a later
\* one.
THEOREM EventsComeExact == Spec => []EventsExact
<1>1. ASSUME WireInv PROVE EventsExact
  <2> DEFINE got == SubSeq(items, 2, Len(items))
             its == AfterPipe.items
             N == Len(sent)
  <2>1. /\ items \in Seq(Item) /\ Len(items) \in Nat /\ N \in Nat
        /\ sent \in Seq(Event) /\ \A i \in 1..N : sent[i] \in Event
    <3>1. Start.items \in Seq(Item) /\ Start.items = items /\ sent \in Seq(Event)
      BY <1>1 DEF WireInv, Reads, Start
    <3>2. QED  BY <3>1, LenProperties, ElementOfSeq
  <2>2. Begins(items, its)
    <3>1. Start \in Reads /\ pipe \in Seq(Frame) /\ Start.items = items
      BY <1>1 DEF WireInv, Start
    <3>2. QED  BY <3>1, ReadKeeps DEF AfterPipe
  <2>3. Told(hub, sent, its)
    BY <1>1 DEF WireInv
  <2> HIDE DEF its
  <2>4. /\ got \in Seq(Item) /\ Len(got) = IF 2 <= Len(items) THEN Len(items) - 1 ELSE 0
        /\ \A i \in 1..(Len(items) - 1) : got[i] = items[2 + i - 1]
    <3>1. 2 \in Int /\ Len(items) \in Int /\ \A i \in 2..Len(items) : items[i] \in Item
      BY <2>1, ElementOfSeq
    <3>2. /\ got \in Seq(Item) /\ Len(got) = IF 2 <= Len(items) THEN Len(items) - 2 + 1 ELSE 0
          /\ \A i \in 1..(Len(items) - 2 + 1) : got[i] = items[2 + i - 1]
      BY <3>1, SubSeqProperties
    <3> HIDE DEF got
    <3>3. QED  BY <2>1, <3>2
  <2>5. DOMAIN got = 1..Len(got)
    BY <2>4, LenProperties
  <2> HIDE DEF got
  <2>6. ASSUME NEW i \in DOMAIN got
        PROVE  /\ i \in 1..N /\ got[i] = its[i + 1]
               /\ EventMeant(hub, sent[i], got[i]) /\ sent[i] \in Event
    <3>1. i \in 1..(Len(items) - 1) /\ i + 1 \in 1..Len(items) /\ 2 + i - 1 = i + 1
      BY <2>1, <2>4, <2>5
    <3>2. got[i] = its[i + 1] /\ i \in 1..N
      BY <2>1, <2>2, <2>3, <2>4, <3>1 DEF Begins, Told
    <3>3. QED  BY <2>1, <2>3, <3>2 DEF Told
  <2>7. items # << >> => items[1].type = "meta"
    <3>1. ASSUME items # << >> PROVE items[1].type = "meta"
      <4>1. 1 \in 1..Len(items)
        BY <2>1, <3>1, EmptySeq
      <4>2. items[1] = Meta
        BY <2>2, <2>3, <4>1 DEF Begins, Told
      <4>3. QED  BY <4>2 DEF Meta
    <3>2. QED  BY <3>1
  <2>8. Len(got) <= N
    BY <2>1, <2>2, <2>3, <2>4 DEF Begins, Told
  <2>9. ASSUME NEW i \in DOMAIN got PROVE EventKept(sent[i], got[i])
    BY <2>6 DEF EventKept, EventMeant, TextKept, StackKept, Meant, StackMeant
  <2>10. ASSUME NEW i \in DOMAIN got, NEW j \in DOMAIN got, i < j,
                got[i].type = "switch", got[j].type = "switch",
                NEW f \in DOMAIN got[i].texts, NEW g \in DOMAIN sent[j].texts,
                sent[j].texts[g] = got[i].texts[f], DOMAIN got[i].texts = Fields
         PROVE  got[j].texts[g] = sent[j].texts[g]
    <3>1. sent[i].type = "switch" /\ sent[j].type = "switch"
      BY <2>6, <2>10 DEF EventMeant, Event
    <3>2. DOMAIN sent[j].texts = Fields
      BY <2>6, <3>1 DEF Event
    <3>3. SeenKept(its[i + 1], sent[j], its[j + 1])
      BY <2>3, <2>6, <2>10, <3>1 DEF Told
    <3>4. QED  BY <2>6, <2>10, <3>2, <3>3 DEF SeenKept
  <2>11. ASSUME NEW i \in DOMAIN got, got[i].type = "switch" PROVE DOMAIN got[i].texts = Fields
    <3>1. got[i] \in Item
      BY <2>4, <2>5, ElementOfSeq
    <3>2. got[i].texts \in [Fields -> Str]
      BY ONLY <2>11, <3>1, SwitchShape
    <3>3. QED  BY <3>2
  <2> DEFINE Texts(ev) == {<<f, ev.texts[f]>> : f \in DOMAIN ev.texts}
  <2>12. ASSUME NEW i \in DOMAIN got, NEW j \in DOMAIN got, i < j,
                got[i].type = "switch", got[j].type = "switch",
                NEW p \in Texts(got[i]), NEW q \in Texts(sent[j]), q[2] = p[2]
         PROVE  got[j].texts[q[1]] = q[2]
    <3>1. PICK f \in DOMAIN got[i].texts : p = <<f, got[i].texts[f]>>
      OBVIOUS
    <3>2. PICK g \in DOMAIN sent[j].texts : q = <<g, sent[j].texts[g]>>
      OBVIOUS
    <3>3. p[2] = got[i].texts[f] /\ q[1] = g /\ q[2] = sent[j].texts[g]
      BY <3>1, <3>2
    <3>4. QED  BY <2>10, <2>11, <2>12, <3>3
  <2> HIDE DEF Texts
  <2>13. \A i, j \in DOMAIN got : (i < j /\ got[i].type = "switch" /\ got[j].type = "switch") =>
           \A p \in Texts(got[i]), q \in Texts(sent[j]) : q[2] = p[2] => got[j].texts[q[1]] = q[2]
    BY <2>12
  <2>14. QED  BY <2>7, <2>8, <2>9, <2>13 DEF EventsExact, got, Texts
<1>2. QED  BY <1>1, WireAlways, PTL

-----------------------------------------------------------------------------
(* The file: an encoder whose pools have no bound gives every item back.        *)

FreshRead == [dec |-> FreshDecoder, items |-> << >>]

\* The encoders of a segment, and what is read of what one has put out.
FileEncoders == {e \in Encoders : Follows(FreshRead, e) /\ ~e.bounded}
ItemsOf(e) == Read(FreshRead, e.out).items

GcItem(n) == [type |-> "gc", n |-> n]
SampleItem(ts) == [type |-> "sample", ts |-> ts, texts |-> << >>, stack |-> << >>]
ExecItem == [type : {"execution"}, ts : Nat, texts : [Fields -> Str], stack : Stacks]

LEMMA FileItems ==
  /\ Meta \in Item
  /\ \A n \in Nat : GcItem(n) \in Item
  /\ \A ts \in Nat : SampleItem(ts) \in Item
  /\ \A x \in ExecItem : x \in Item
<1>1. ASSUME NEW ts \in Nat PROVE SampleItem(ts) \in Item
  <2>1. "sample" \in Timed /\ << >> \in [Places("sample") -> Str] /\ << >> \in Stacks
    BY EmptyStack DEF Timed, Names, Places
  <2>2. [type |-> "sample", ts |-> ts, texts |-> << >>, stack |-> << >>] \in Item
    BY ONLY <2>1, ts \in Nat, ItemKinds
  <2>3. QED  BY <2>2 DEF SampleItem
<1>2. ASSUME NEW x \in ExecItem PROVE x \in Item
  <2>1. "execution" \in Timed /\ Places("execution") = Fields
    BY DEF Timed, Names, Places
  <2> DEFINE T == [Fields -> Str]
  <2> HIDE DEF T
  <2>2. /\ x = [type |-> "execution", ts |-> x.ts, texts |-> x.texts, stack |-> x.stack]
        /\ x.ts \in Nat /\ x.texts \in T /\ x.stack \in Stacks
    BY DEF ExecItem, T
  <2>3. x.texts \in [Places("execution") -> Str]
    BY <2>1, <2>2 DEF T
  <2>4. [type |-> "execution", ts |-> x.ts, texts |-> x.texts, stack |-> x.stack] \in Item
    BY ONLY <2>1, <2>2, <2>3, ItemKinds
  <2>5. QED  BY <2>2, <2>4
<1>3. QED  BY <1>1, <1>2, ItemKinds DEF Meta, GcItem

\* Without a bound a text and a stack come through as they are.
LEMMA MeantExactly ==
  ASSUME NEW e, ~e.bounded
  PROVE  /\ \A s, t : Meant(e, s, t) => t = s
         /\ \A fs \in Seq(Str), t \in Seq(Str) : StackMeant(e, fs, t) => t = fs
<1>1. \A pool : ~Full(e, pool)
  BY DEF Full
<1>2. \A s, t : Meant(e, s, t) => t = s
  BY <1>1 DEF Meant
<1>3. ASSUME NEW fs \in Seq(Str), NEW t \in Seq(Str), StackMeant(e, fs, t) PROVE t = fs
  <2>1. Len(t) = Len(fs) /\ \A i \in DOMAIN fs : t[i] = fs[i]
    BY <1>1, <1>2, <1>3 DEF StackMeant
  <2>2. DOMAIN fs = 1..Len(fs)
    BY LenProperties
  <2>3. Len(t) = Len(fs) /\ \A i \in 1..Len(t) : t[i] = fs[i]
    BY <2>1, <2>2
  <2>4. QED  BY <2>3, SeqEqual
<1>4. QED  BY <1>2, <1>3

LEMMA SampleMakes ==
  ASSUME NEW a \in Reads, NEW e, Follows(a, e), ~e.bounded, NEW ts \in Nat
  PROVE  Makes(a, e, EncodeSample(e, ts), SampleItem(ts))
<1> DEFINE ev == [type |-> "sample", ts |-> ts, texts |-> << >>, stack |-> << >>]
           e2 == InternStack(FoldLeft(Intern, e, << >>), << >>)
           e3 == Put(e2, "sample", ts, << >>, << >>)
<1>1. e2 = e
  <2>1. << >> \in Seq(Str) /\ Len(<< >>) = 0
    OBVIOUS
  <2>2. e \in Encoders
    BY DEF Follows
  <2>3. PICK g \in [0..0 -> Encoders] : Goes(g, e, << >>) /\ FoldLeft(Intern, e, << >>) = g[0]
    BY <2>1, <2>2, InternFold
  <2>4. QED  BY <2>3 DEF Goes, InternStack
<1>2. EncodeSample(e, ts) = e3
  BY <1>1 DEF EncodeSample
<1> HIDE DEF ev, e2
<1>3. /\ "sample" \in Timed /\ "sample" \in TypesOf(e) /\ Places("sample") = {}
      /\ << >> \in [Places("sample") -> Str]
      /\ << >> \in Seq(Str) /\ Len(<< >>) = 0 /\ Len(<<"">>) = 1
  BY DEF Timed, Names, Places, TypesOf
<1>4. /\ \A f \in Places("sample") : \E i \in 1..Len(<< >>) : << >>[i] = << >>[f]
      /\ << >> # <<"">>
  BY <1>3
<1>5. ev = [type |-> "sample", ts |-> ts, texts |-> << >>, stack |-> << >>]
  BY DEF ev
<1>6. \E it : Makes(a, e, e3, it) /\ TimedKept(e, e3, ev, it)
  <2>1. \E it : /\ Makes(a, e, Put(InternStack(FoldLeft(Intern, e, << >>), << >>), "sample", ts, << >>, << >>), it)
                /\ TimedKept(e, Put(InternStack(FoldLeft(Intern, e, << >>), << >>), "sample", ts, << >>, << >>), ev, it)
    BY ONLY a \in Reads, Follows(a, e), ts \in Nat, <1>3, <1>4, <1>5, TimedMakes
  <2>2. QED  BY <2>1 DEF e2
<1>7. PICK it : Makes(a, e, e3, it) /\ TimedKept(e, e3, ev, it)
  BY <1>6
<1>8. ~e3.bounded
  BY <1>7 DEF Makes, Grown
<1> HIDE DEF e3
<1>9. ev.type = "sample" /\ ev.ts = ts /\ ev.stack = << >>
  BY <1>5
<1>10. /\ it \in [type : {"sample"}, ts : Nat, texts : [{} -> Str], stack : Stacks]
       /\ it.ts = ts /\ StackMeant(e3, << >>, it.stack)
  BY ONLY <1>3, <1>7, <1>9 DEF TimedKept
<1>11. it.stack \in Seq(Str) /\ it.texts \in [{} -> Str]
  BY <1>10 DEF Stacks
<1>12. it.stack = << >> /\ it.texts = << >>
  <2>1. << >> \in Seq(Str)
    BY <1>3
  <2>2. it.stack = << >>
    BY ONLY <1>8, <1>10, <1>11, <2>1, MeantExactly
  <2>3. it.texts = << >>
    BY ONLY <1>11
  <2>4. QED  BY <2>2, <2>3
<1>13. it = SampleItem(ts)
  <2>1. it = [type |-> it.type, ts |-> it.ts, texts |-> it.texts, stack |-> it.stack] /\ it.type = "sample"
    BY ONLY <1>10
  <2>2. QED  BY ONLY <1>10, <1>12, <2>1 DEF SampleItem
<1>14. QED  BY <1>2, <1>7, <1>13

LEMMA ExecutionMakes ==
  ASSUME NEW a \in Reads, NEW e, Follows(a, e), ~e.bounded, NEW x \in ExecItem
  PROVE  Makes(a, e, EncodeExecution(e, x), x)
<1> DEFINE p == x.texts["func"]
           q == x.texts["label"]
           r == x.texts["task"]
           ss == <<p, q, r>>
           e3 == Put(InternStack(FoldLeft(Intern, e, ss), x.stack), "execution", x.ts, x.texts, x.stack)
           T == [Fields -> Str]
<1> HIDE DEF T
<1>1. /\ x = [type |-> "execution", ts |-> x.ts, texts |-> x.texts, stack |-> x.stack]
      /\ x.ts \in Nat /\ x.texts \in T /\ x.stack \in Stacks
  BY DEF ExecItem, T
<1>2. x.stack \in Seq(Str) /\ x.stack # <<"">>
  BY <1>1 DEF Stacks
<1>3. /\ p \in Str /\ q \in Str /\ r \in Str
      /\ \A f \in Fields : x.texts[f] = p \/ x.texts[f] = q \/ x.texts[f] = r
  BY <1>1 DEF Fields, T
<1>4. EncodeExecution(e, x) = e3
  BY DEF EncodeExecution
<1> HIDE DEF p, q, r
<1>5. ss \in Seq(Str) /\ Len(ss) = 3 /\ ss[1] = p /\ ss[2] = q /\ ss[3] = r
  BY ONLY <1>3, ThreeTexts
<1> HIDE DEF ss
<1>6. Places("execution") = Fields /\ "execution" \in Timed /\ "execution" \in TypesOf(e)
  BY DEF Places, Timed, Names, TypesOf
<1>7. \A f \in Places("execution") : \E i \in 1..Len(ss) : ss[i] = x.texts[f]
  <2>1. 1 \in 1..Len(ss) /\ 2 \in 1..Len(ss) /\ 3 \in 1..Len(ss)
    BY ONLY <1>5
  <2>2. \A f \in Fields : \E i \in 1..Len(ss) : ss[i] = x.texts[f]
    BY ONLY <1>3, <1>5, <2>1
  <2>3. QED  BY ONLY <1>6, <2>2
<1>8. x.texts \in [Places("execution") -> Str]
  BY <1>1, <1>6 DEF T
<1>9. \E it : Makes(a, e, e3, it) /\ TimedKept(e, e3, x, it)
  BY ONLY <1>1, <1>2, <1>5, <1>6, <1>7, <1>8, a \in Reads, Follows(a, e), TimedMakes
<1>10. PICK it : Makes(a, e, e3, it) /\ TimedKept(e, e3, x, it)
  BY <1>9
<1>11. ~e3.bounded
  BY <1>10 DEF Makes, Grown
<1> HIDE DEF e3
<1>12. x.type = "execution"
  BY ONLY <1>1
<1>13. /\ it \in [type : {"execution"}, ts : Nat, texts : T, stack : Stacks]
       /\ it.ts = x.ts /\ StackMeant(e3, x.stack, it.stack)
       /\ \A f \in Fields : Meant(e3, x.texts[f], it.texts[f])
  BY ONLY <1>6, <1>10, <1>12 DEF TimedKept, T
<1>14. /\ it = [type |-> "execution", ts |-> it.ts, texts |-> it.texts, stack |-> it.stack]
       /\ it.texts \in T /\ it.stack \in Stacks
  BY ONLY <1>13
<1>15. it.stack = x.stack
  <2>1. it.stack \in Seq(Str)
    BY <1>14 DEF Stacks
  <2>2. QED  BY ONLY <1>2, <1>11, <1>13, <2>1, MeantExactly
<1>16. it.texts = x.texts
  <2>1. \A f \in Fields : it.texts[f] = x.texts[f]
    BY ONLY <1>11, <1>13, MeantExactly
  <2>2. QED  BY ONLY <1>1, <1>14, <2>1 DEF T
<1>17. it = x
  BY ONLY <1>1, <1>13, <1>14, <1>15, <1>16
<1>18. QED  BY <1>4, <1>10, <1>17

LEMMA MetaMakes ==
  ASSUME NEW a \in Reads, NEW e, Follows(a, e)
  PROVE  Makes(a, e, EncodeMeta(e), Meta)
<1> DEFINE r == Read(a, e.out)
           d == r.dec
           e2 == Emit(e, MetaFrame)
<1>1. /\ e \in Encoders /\ InStep(e, d) /\ MetaFrame \in Frame
      /\ Len(e.strings) \in Nat /\ Len(e.stacks) \in Nat
  BY EncoderIs, LenProperties, FrameKinds DEF Follows, MetaFrame
<1>2. EncodeMeta(e) = e2
  BY DEF EncodeMeta, MetaFrame
<1>3. /\ e2.strings = e.strings /\ e2.stacks = e.stacks /\ e2.base = e.base
      /\ e2.bounded = e.bounded /\ e2.out = Append(e.out, MetaFrame) /\ e2 \in Encoders
  <2>1. /\ e2 = [strings |-> e.strings, stacks |-> e.stacks, base |-> e.base,
                 bounded |-> e.bounded, out |-> Append(e.out, MetaFrame)]
        /\ e2 \in Encoders
    BY <1>1, EmitIs
  <2> HIDE DEF e2
  <2>2. QED  BY <2>1
<1> HIDE DEF e2
<1>4. /\ d \in Decoders /\ r.items \in Seq(Item)
      /\ Read(a, e2.out).dec = DecodeFrame(d, MetaFrame)
      /\ Read(a, e2.out).items = r.items \o Decoded(d, MetaFrame)
  BY <1>1, <1>3, FollowsMore
<1>5. DecodeFrame(d, MetaFrame) = d /\ Decoded(d, MetaFrame) = <<Meta>>
  BY <1>4, DecodeIs DEF Meta
<1>6. Read(a, e2.out).items = Append(r.items, Meta)
  <2>1. Meta \in Item
    BY FileItems
  <2>2. Append(r.items, Meta) = r.items \o <<Meta>>
    BY <1>4, <2>1, AppendIsConcat
  <2>3. QED  BY <1>4, <1>5, <2>2
<1>7. Grown(e, e2)
  BY <1>1, <1>3, BeginsAll DEF Grown
<1>8. InStep(e2, d)
  <2>1. ASSUME NEW k \in 1..Len(e2.stacks) PROVE StackMeant(e2, e2.stacks[k], d.stacks[k])
    <3>1. StackMeant(e, e.stacks[k], d.stacks[k])
      BY <1>1, <1>3 DEF InStep
    <3>2. QED  BY <1>1, <1>3, <1>7, <3>1, GrownKeeps
  <2>2. TypesOf(e2) = TypesOf(e)
    BY <1>3 DEF TypesOf
  <2>3. QED  BY <1>1, <1>3, <2>1, <2>2 DEF InStep
<1>9. QED  BY <1>2, <1>3, <1>4, <1>5, <1>6, <1>7, <1>8 DEF Makes, Follows

LEMMA FreshDecoders == FreshRead \in Reads
BY DEF FreshRead, FreshDecoder, Reads, Decoders

\* Each thing a segment is given is one item more of it.
LEMMA FileMakes ==
  ASSUME NEW e \in FileEncoders
  PROVE  /\ ItemsOf(e) \in Seq(Item)
         /\ EncodeMeta(e) \in FileEncoders /\ ItemsOf(EncodeMeta(e)) = Append(ItemsOf(e), Meta)
         /\ \A n \in Nat : /\ EncodeGc(e, n) \in FileEncoders
                           /\ ItemsOf(EncodeGc(e, n)) = Append(ItemsOf(e), GcItem(n))
         /\ \A ts \in Nat : /\ EncodeSample(e, ts) \in FileEncoders
                            /\ ItemsOf(EncodeSample(e, ts)) = Append(ItemsOf(e), SampleItem(ts))
         /\ \A x \in ExecItem : /\ EncodeExecution(e, x) \in FileEncoders
                                /\ ItemsOf(EncodeExecution(e, x)) = Append(ItemsOf(e), x)
<1>1. /\ FreshRead \in Reads /\ Follows(FreshRead, e) /\ ~e.bounded
  BY FreshDecoders DEF FileEncoders
<1>2. ASSUME NEW e2, NEW it, Makes(FreshRead, e, e2, it)
      PROVE  e2 \in FileEncoders /\ ItemsOf(e2) = Append(ItemsOf(e), it)
  <2>1. Follows(FreshRead, e2) /\ Grown(e, e2)
    BY <1>2 DEF Makes
  <2>2. e2 \in Encoders /\ ~e2.bounded
    BY <1>1, <2>1 DEF Follows, Grown
  <2>3. QED  BY <1>2, <2>1, <2>2 DEF Makes, FileEncoders, ItemsOf
<1>3. ItemsOf(e) \in Seq(Item)
  <2>1. e.out \in Seq(Frame) /\ << >> \in Seq(Frame)
    BY EncoderIs, EmptySeq DEF FileEncoders
  <2>2. Read(FreshRead, e.out) \in Reads
    BY <1>1, <2>1, ReadConcat
  <2>3. QED  BY <2>2 DEF ItemsOf, Reads
<1>4. Makes(FreshRead, e, EncodeMeta(e), Meta)
  BY ONLY <1>1, MetaMakes
<1>5. \A n \in Nat : Makes(FreshRead, e, EncodeGc(e, n), GcItem(n))
  BY ONLY <1>1, GcMakes DEF GcItem
<1>6. \A ts \in Nat : Makes(FreshRead, e, EncodeSample(e, ts), SampleItem(ts))
  BY ONLY <1>1, SampleMakes
<1>7. \A x \in ExecItem : Makes(FreshRead, e, EncodeExecution(e, x), x)
  BY ONLY <1>1, ExecutionMakes
<1>8. QED  BY <1>2, <1>3, <1>4, <1>5, <1>6, <1>7

\* A schema frame adds its event to those known.
LEMMA SchemaRead ==
  ASSUME NEW a \in Reads, NEW fs \in Seq(Frame), NEW y \in Names, NEW types \in SUBSET Names,
         Read(a, fs).items = << >>,
         Read(a, fs).dec = [strings |-> << >>, stacks |-> << >>, types |-> types, base |-> 0, ok |-> TRUE]
  PROVE  /\ Append(fs, Schema(y)) \in Seq(Frame)
         /\ Read(a, Append(fs, Schema(y))).items = << >>
         /\ Read(a, Append(fs, Schema(y))).dec =
              [strings |-> << >>, stacks |-> << >>, types |-> types \cup {y}, base |-> 0, ok |-> TRUE]
<1> DEFINE r == Read(a, fs)
           d == r.dec
           f == Schema(y)
           r2 == Read(a, Append(fs, f))
           U == d.types \cup {y}
<1>1. f \in Frame /\ Append(fs, f) \in Seq(Frame)
  <2>1. f \in Frame
    BY FrameKinds
  <2> HIDE DEF f
  <2>2. QED  BY <2>1, AppendProperties
<1>2. r \in Reads /\ << >> \in Seq(Frame)
  <2>1. << >> \in Seq(Frame)
    BY EmptySeq
  <2>2. QED  BY <2>1, ReadConcat
<1>3. r2 = ReadFrame(r, f)
  <2> HIDE DEF f
  <2>1. QED  BY <1>1, ReadMore
<1>4. d \in Decoders /\ d.ok /\ d.types = types
  <2>1. d \in Decoders
    BY <1>2 DEF Reads
  <2> HIDE DEF r
  <2>2. d = [strings |-> << >>, stacks |-> << >>, types |-> types, base |-> 0, ok |-> TRUE]
    BY DEF r
  <2> HIDE DEF d
  <2>3. QED  BY <2>1, <2>2
<1>5. r2.dec = DecodeFrame(d, f) /\ r2.items = r.items \o Decoded(d, f)
  <2> HIDE DEF f, r, r2
  <2>1. QED  BY <1>1, <1>2, <1>3, <1>4, ReadType
<1> HIDE DEF r
<1>6. DecodeFrame(d, f) = [d EXCEPT !.types = U] /\ Decoded(d, f) = << >>
  <2> HIDE DEF d
  <2>1. QED  BY <1>4, DecodeIs
<1>7. [d EXCEPT !.types = U] = [strings |-> d.strings, stacks |-> d.stacks, types |-> U,
                                base |-> d.base, ok |-> d.ok]
  <2> HIDE DEF d, U
  <2>1. QED  BY ONLY <1>4, DecoderChanged
<1>8. d.strings = << >> /\ d.stacks = << >> /\ d.base = 0 /\ d.ok = TRUE
  <2>1. d = [strings |-> << >>, stacks |-> << >>, types |-> types, base |-> 0, ok |-> TRUE]
    BY DEF r
  <2> HIDE DEF d
  <2>2. QED  BY <2>1
<1>9. r.items = << >> /\ << >> \o << >> = << >>
  BY DEF r
<1> HIDE DEF f, d, r2
<1>10. r2.items = << >>
  BY ONLY <1>5, <1>6, <1>9
<1>11. U = types \cup {y}
  BY <1>4
<1> HIDE DEF U
<1>12. r2.dec = [strings |-> << >>, stacks |-> << >>, types |-> types \cup {y}, base |-> 0, ok |-> TRUE]
  BY ONLY <1>5, <1>6, <1>7, <1>8, <1>11
<1>13. QED  BY <1>1, <1>10, <1>12 DEF r2, f

LEMMA FreshSegments == FreshSegment \in FileEncoders /\ ItemsOf(FreshSegment) = << >>
<1> DEFINE f1 == Schema("execution")
           f2 == Schema("gc")
           f3 == Schema("sample")
           p1 == Append(<< >>, f1)
           p2 == Append(p1, f2)
           p3 == Append(p2, f3)
           e == FreshSegment
           D(types) == [strings |-> << >>, stacks |-> << >>, types |-> types, base |-> 0, ok |-> TRUE]
<1>1. e = [strings |-> << >>, stacks |-> << >>, base |-> 0, bounded |-> FALSE, out |-> p3]
  <2>1. e.out = <<f1, f2, f3>>
    BY DEF FreshSegment, FreshEncoder, FileTypes
  <2>2. <<f1, f2, f3>> = p3
    <3> HIDE DEF f1, f2, f3
    <3>1. QED  OBVIOUS
  <2>3. e = [strings |-> << >>, stacks |-> << >>, base |-> 0, bounded |-> FALSE, out |-> e.out]
    BY DEF FreshSegment, FreshEncoder
  <2>4. QED  BY <2>1, <2>2, <2>3
<1>2. /\ FreshRead \in Reads /\ << >> \in Seq(Frame) /\ {} \in SUBSET Names
      /\ Read(FreshRead, << >>).items = << >> /\ Read(FreshRead, << >>).dec = D({})
  <2>1. Read(FreshRead, << >>) = FreshRead
    BY FreshDecoders, ReadNone
  <2>2. FreshRead.items = << >> /\ FreshRead.dec = D({})
    BY DEF FreshRead, FreshDecoder
  <2> HIDE DEF D
  <2>3. QED  BY <2>1, <2>2, FreshDecoders, EmptySeq
<1>3. /\ p1 \in Seq(Frame)
      /\ Read(FreshRead, p1).items = << >> /\ Read(FreshRead, p1).dec = D({} \cup {"execution"})
  BY <1>2, SchemaRead DEF Names
<1>4. {} \cup {"execution"} \in SUBSET Names /\ {} \cup {"execution"} \cup {"gc"} \in SUBSET Names
  BY DEF Names
<1> HIDE DEF p1
<1>5. /\ p2 \in Seq(Frame)
      /\ Read(FreshRead, p2).items = << >>
      /\ Read(FreshRead, p2).dec = D({} \cup {"execution"} \cup {"gc"})
  BY <1>2, <1>3, <1>4, SchemaRead DEF Names
<1> HIDE DEF p2
<1>6. /\ p3 \in Seq(Frame)
      /\ Read(FreshRead, p3).items = << >>
      /\ Read(FreshRead, p3).dec = D({} \cup {"execution"} \cup {"gc"} \cup {"sample"})
  BY <1>2, <1>4, <1>5, SchemaRead DEF Names
<1> HIDE DEF p3
<1>7. {} \cup {"execution"} \cup {"gc"} \cup {"sample"} = {"execution", "gc", "sample"}
  OBVIOUS
<1> DEFINE d == Read(FreshRead, e.out).dec
<1>8. /\ e.strings = << >> /\ e.stacks = << >> /\ e.base = 0 /\ e.bounded = FALSE /\ e.out = p3
      /\ e \in Encoders
  <2>1. << >> \in Seq(Str) /\ << >> \in Seq(Seq(Str))
    OBVIOUS
  <2> HIDE DEF e
  <2>2. QED  BY <1>1, <1>6, <2>1 DEF Encoders
<1> HIDE DEF e
<1>9. d = D({"execution", "gc", "sample"})
  BY <1>6, <1>7, <1>8
<1>10. InStep(e, d)
  <2>1. Len(<< >>) = 0 /\ 1..0 = {}
    OBVIOUS
  <2>2. TypesOf(e) = {"execution", "gc", "sample"}
    BY <1>8 DEF TypesOf
  <2>3. /\ d.ok /\ d.types = {"execution", "gc", "sample"}
        /\ d.strings = << >> /\ d.base = 0 /\ d.stacks = << >>
    <3> HIDE DEF d
    <3>1. QED  BY <1>9
  <2> HIDE DEF d
  <2>4. QED  BY ONLY <1>8, <2>1, <2>2, <2>3 DEF InStep
<1>11. ItemsOf(e) = << >>
  BY <1>6, <1>8 DEF ItemsOf
<1>12. QED  BY <1>8, <1>10, <1>11 DEF FileEncoders, Follows, e

\* The folds go from one encoder of a segment to the next.
LEMMA GcFold ==
  ASSUME NEW a \in FileEncoders, NEW s \in Seq(Nat)
  PROVE  \E g \in [0..Len(s) -> FileEncoders] :
           /\ g[0] = a /\ \A i \in 1..Len(s) : g[i] = EncodeGc(g[i - 1], s[i])
           /\ FoldLeft(EncodeGc, a, s) = g[Len(s)]
<1> DEFINE N == Len(s)
           F == [p \in FileEncoders \X (1..N) |-> EncodeGc(p[1], s[p[2]])]
           Recursion(h) ==
             h = [T \in SUBSET (DOMAIN s) |->
                    IF T = {} THEN a ELSE EncodeGc(h[T \ {Max(T)}], s[Max(T)])]
           iter == CHOOSE h : Recursion(h)
<1>1. N \in Nat /\ DOMAIN s = 1..N /\ \A i \in 1..N : s[i] \in Nat
  BY LenProperties, ElementOfSeq
<1>2. F \in [FileEncoders \X (1..N) -> FileEncoders]
  BY <1>1, FileMakes
<1>3. \A x \in FileEncoders, m \in 1..N : F[<<x, m>>] = EncodeGc(x, s[m])
  OBVIOUS
<1> HIDE DEF F
<1>4. PICK h \in [SUBSET (1..N) -> FileEncoders] : FoldsBy(h, a, F, N)
  BY <1>1, <1>2, FoldExists
<1>5. ASSUME NEW T \in SUBSET (1..N)
      PROVE  h[T] = IF T = {} THEN a ELSE EncodeGc(h[T \ {Max(T)}], s[Max(T)])
  <2>1. h[T] = IF T = {} THEN a ELSE F[<<h[T \ {Max(T)}], Max(T)>>]
    BY <1>4 DEF FoldsBy
  <2>2. T # {} => Max(T) \in 1..N /\ h[T \ {Max(T)}] \in FileEncoders
    BY <1>1, MaxIs
  <2>3. QED  BY <1>3, <2>1, <2>2
<1>6. Recursion(iter)
  <2>1. Recursion(h)
    BY <1>1, <1>5
  <2> HIDE DEF Recursion
  <2>2. QED  BY <2>1
<1>7. FoldLeft(EncodeGc, a, s) = iter[1..N]
  BY <1>1 DEF FoldLeft, MapThenFoldSet
<1> HIDE DEF iter
<1>8. \A T \in SUBSET (1..N) :
        iter[T] = IF T = {} THEN a ELSE EncodeGc(iter[T \ {Max(T)}], s[Max(T)])
  BY <1>1, <1>6
<1>9. Recurs(iter, FileEncoders, a, F, N)
  <2>1. iter[{}] = a
    BY <1>8
  <2>2. \A T \in SUBSET (1..N) : (T # {} /\ iter[T \ {Max(T)}] \in FileEncoders) =>
          iter[T] = F[<<iter[T \ {Max(T)}], Max(T)>>]
    BY <1>1, <1>3, <1>8, MaxIs
  <2>3. QED  BY <2>1, <2>2 DEF Recurs
<1>10. \E g \in [0..N -> FileEncoders] : Passes(g, iter, a, F, N)
  <2>1. N \in Nat
    BY <1>1
  <2> HIDE DEF N
  <2>2. QED  BY <1>2, <1>9, <2>1, FoldSteps
<1>11. PICK g \in [0..N -> FileEncoders] :
         g[0] = a /\ (\A i \in 1..N : g[i] = F[<<g[i - 1], i>>]) /\ iter[1..N] = g[N]
  BY <1>10 DEF Passes
<1>12. \A i \in 1..N : g[i] = EncodeGc(g[i - 1], s[i])
  <2>1. \A i \in 1..N : i - 1 \in 0..N
    BY <1>1
  <2>2. QED  BY <1>3, <1>11, <2>1
<1>13. QED  BY <1>7, <1>11, <1>12


LEMMA SampleFold ==
  ASSUME NEW a \in FileEncoders, NEW s \in Seq(Nat)
  PROVE  \E g \in [0..Len(s) -> FileEncoders] :
           /\ g[0] = a /\ \A i \in 1..Len(s) : g[i] = EncodeSample(g[i - 1], s[i])
           /\ FoldLeft(EncodeSample, a, s) = g[Len(s)]
<1> DEFINE N == Len(s)
           F == [p \in FileEncoders \X (1..N) |-> EncodeSample(p[1], s[p[2]])]
           Recursion(h) ==
             h = [T \in SUBSET (DOMAIN s) |->
                    IF T = {} THEN a ELSE EncodeSample(h[T \ {Max(T)}], s[Max(T)])]
           iter == CHOOSE h : Recursion(h)
<1>1. N \in Nat /\ DOMAIN s = 1..N /\ \A i \in 1..N : s[i] \in Nat
  BY LenProperties, ElementOfSeq
<1>2. F \in [FileEncoders \X (1..N) -> FileEncoders]
  BY <1>1, FileMakes
<1>3. \A x \in FileEncoders, m \in 1..N : F[<<x, m>>] = EncodeSample(x, s[m])
  OBVIOUS
<1> HIDE DEF F
<1>4. PICK h \in [SUBSET (1..N) -> FileEncoders] : FoldsBy(h, a, F, N)
  BY <1>1, <1>2, FoldExists
<1>5. ASSUME NEW T \in SUBSET (1..N)
      PROVE  h[T] = IF T = {} THEN a ELSE EncodeSample(h[T \ {Max(T)}], s[Max(T)])
  <2>1. h[T] = IF T = {} THEN a ELSE F[<<h[T \ {Max(T)}], Max(T)>>]
    BY <1>4 DEF FoldsBy
  <2>2. T # {} => Max(T) \in 1..N /\ h[T \ {Max(T)}] \in FileEncoders
    BY <1>1, MaxIs
  <2>3. QED  BY <1>3, <2>1, <2>2
<1>6. Recursion(iter)
  <2>1. Recursion(h)
    BY <1>1, <1>5
  <2> HIDE DEF Recursion
  <2>2. QED  BY <2>1
<1>7. FoldLeft(EncodeSample, a, s) = iter[1..N]
  BY <1>1 DEF FoldLeft, MapThenFoldSet
<1> HIDE DEF iter
<1>8. \A T \in SUBSET (1..N) :
        iter[T] = IF T = {} THEN a ELSE EncodeSample(iter[T \ {Max(T)}], s[Max(T)])
  BY <1>1, <1>6
<1>9. Recurs(iter, FileEncoders, a, F, N)
  <2>1. iter[{}] = a
    BY <1>8
  <2>2. \A T \in SUBSET (1..N) : (T # {} /\ iter[T \ {Max(T)}] \in FileEncoders) =>
          iter[T] = F[<<iter[T \ {Max(T)}], Max(T)>>]
    BY <1>1, <1>3, <1>8, MaxIs
  <2>3. QED  BY <2>1, <2>2 DEF Recurs
<1>10. \E g \in [0..N -> FileEncoders] : Passes(g, iter, a, F, N)
  <2>1. N \in Nat
    BY <1>1
  <2> HIDE DEF N
  <2>2. QED  BY <1>2, <1>9, <2>1, FoldSteps
<1>11. PICK g \in [0..N -> FileEncoders] :
         g[0] = a /\ (\A i \in 1..N : g[i] = F[<<g[i - 1], i>>]) /\ iter[1..N] = g[N]
  BY <1>10 DEF Passes
<1>12. \A i \in 1..N : g[i] = EncodeSample(g[i - 1], s[i])
  <2>1. \A i \in 1..N : i - 1 \in 0..N
    BY <1>1
  <2>2. QED  BY <1>3, <1>11, <2>1
<1>13. QED  BY <1>7, <1>11, <1>12

GcItems(ns) == [i \in DOMAIN ns |-> GcItem(ns[i])]
SampleItems(tss) == [i \in DOMAIN tss |-> SampleItem(tss[i])]

LEMMA GcsAll ==
  ASSUME NEW e \in FileEncoders, NEW s \in Seq(Nat)
  PROVE  /\ FoldLeft(EncodeGc, e, s) \in FileEncoders
         /\ GcItems(s) \in Seq(Item)
         /\ ItemsOf(FoldLeft(EncodeGc, e, s)) = ItemsOf(e) \o GcItems(s)
<1> DEFINE N == Len(s)
           x == GcItems(s)
<1>1. N \in Nat /\ DOMAIN s = 1..N /\ \A i \in 1..N : s[i] \in Nat
  BY LenProperties, ElementOfSeq
<1>2. PICK g \in [0..N -> FileEncoders] :
        /\ g[0] = e /\ \A i \in 1..N : g[i] = EncodeGc(g[i - 1], s[i])
        /\ FoldLeft(EncodeGc, e, s) = g[N]
  BY GcFold
<1>3. x \in [1..N -> Item] /\ \A i \in 1..N : x[i] = GcItem(s[i])
  BY <1>1, FileItems DEF GcItems
<1> DEFINE h == [i \in 0..N |-> ItemsOf(g[i])]
<1>4. h \in [0..N -> Seq(Item)] /\ \A i \in 0..N : h[i] = ItemsOf(g[i])
  BY <1>2, FileMakes
<1> HIDE DEF x, h, N
<1>5. ASSUME NEW i \in 1..N PROVE h[i] = Append(h[i - 1], x[i])
  <2>1. i \in 0..N /\ i - 1 \in 0..N /\ s[i] \in Nat /\ g[i - 1] \in FileEncoders
    BY <1>1, <1>2
  <2>2. ItemsOf(EncodeGc(g[i - 1], s[i])) = Append(ItemsOf(g[i - 1]), GcItem(s[i]))
    BY <2>1, FileMakes
  <2>3. h[i] = ItemsOf(g[i]) /\ h[i - 1] = ItemsOf(g[i - 1])
    BY ONLY <1>4, <2>1
  <2>4. g[i] = EncodeGc(g[i - 1], s[i])
    BY <1>2 DEF N
  <2>5. x[i] = GcItem(s[i])
    BY <1>3
  <2>6. QED  BY ONLY <2>2, <2>3, <2>4, <2>5
<1>6. x \in Seq(Item) /\ h[N] = h[0] \o x
  <2>1. AppendsTo(h, x, N)
    BY <1>5 DEF AppendsTo
  <2>2. N \in Nat /\ x \in [1..N -> Item] /\ h \in [0..N -> Seq(Item)]
    BY <1>1, <1>3, <1>4
  <2>3. x \in Seq(Item) /\ Joins(h[N], h[0], x)
    BY ONLY <2>1, <2>2, AppendsAll
  <2>4. QED  BY <2>3 DEF Joins
<1>7. 0 \in 0..N /\ N \in 0..N
  BY <1>1
<1>8. QED  BY <1>2, <1>4, <1>6, <1>7 DEF x

LEMMA SamplesAll ==
  ASSUME NEW e \in FileEncoders, NEW s \in Seq(Nat)
  PROVE  /\ FoldLeft(EncodeSample, e, s) \in FileEncoders
         /\ SampleItems(s) \in Seq(Item)
         /\ ItemsOf(FoldLeft(EncodeSample, e, s)) = ItemsOf(e) \o SampleItems(s)
<1> DEFINE N == Len(s)
           x == SampleItems(s)
<1>1. N \in Nat /\ DOMAIN s = 1..N /\ \A i \in 1..N : s[i] \in Nat
  BY LenProperties, ElementOfSeq
<1>2. PICK g \in [0..N -> FileEncoders] :
        /\ g[0] = e /\ \A i \in 1..N : g[i] = EncodeSample(g[i - 1], s[i])
        /\ FoldLeft(EncodeSample, e, s) = g[N]
  BY SampleFold
<1>3. x \in [1..N -> Item] /\ \A i \in 1..N : x[i] = SampleItem(s[i])
  BY <1>1, FileItems DEF SampleItems
<1> DEFINE h == [i \in 0..N |-> ItemsOf(g[i])]
<1>4. h \in [0..N -> Seq(Item)] /\ \A i \in 0..N : h[i] = ItemsOf(g[i])
  BY <1>2, FileMakes
<1> HIDE DEF x, h, N
<1>5. ASSUME NEW i \in 1..N PROVE h[i] = Append(h[i - 1], x[i])
  <2>1. i \in 0..N /\ i - 1 \in 0..N /\ s[i] \in Nat /\ g[i - 1] \in FileEncoders
    BY <1>1, <1>2
  <2>2. ItemsOf(EncodeSample(g[i - 1], s[i])) = Append(ItemsOf(g[i - 1]), SampleItem(s[i]))
    BY <2>1, FileMakes
  <2>3. h[i] = ItemsOf(g[i]) /\ h[i - 1] = ItemsOf(g[i - 1])
    BY ONLY <1>4, <2>1
  <2>4. g[i] = EncodeSample(g[i - 1], s[i])
    BY <1>2 DEF N
  <2>5. x[i] = SampleItem(s[i])
    BY <1>3
  <2>6. QED  BY ONLY <2>2, <2>3, <2>4, <2>5
<1>6. x \in Seq(Item) /\ h[N] = h[0] \o x
  <2>1. AppendsTo(h, x, N)
    BY <1>5 DEF AppendsTo
  <2>2. N \in Nat /\ x \in [1..N -> Item] /\ h \in [0..N -> Seq(Item)]
    BY <1>1, <1>3, <1>4
  <2>3. x \in Seq(Item) /\ Joins(h[N], h[0], x)
    BY ONLY <2>1, <2>2, AppendsAll
  <2>4. QED  BY <2>3 DEF Joins
<1>7. 0 \in 0..N /\ N \in 0..N
  BY <1>1
<1>8. QED  BY <1>2, <1>4, <1>6, <1>7 DEF x

\* What is read of the segments, one after the other.
SegItems(segs) == FlattenSeq([i \in DOMAIN segs |-> DecodeSegment(segs[i]).items])
SegsRead(segs) == \A i \in DOMAIN segs : DecodeSegment(segs[i]).dec.ok

LEMMA SegmentIs ==
  ASSUME NEW seg \in Seq(Frame)
  PROVE  DecodeSegment(seg) = Read(FreshRead, seg) /\ DecodeSegment(seg).items \in Seq(Item)
<1>1. DecodeSegment(seg) = Read(FreshRead, seg)
  BY DEF DecodeSegment, Read, FreshRead
<1>2. << >> \in Seq(Frame)
  BY EmptySeq
<1>3. Read(FreshRead, seg) \in Reads
  BY <1>2, FreshDecoders, ReadConcat
<1>4. QED  BY <1>1, <1>3 DEF Reads

LEMMA SegmentsJoined ==
  ASSUME NEW s \in Seq(Seq(Frame)), NEW t \in Seq(Seq(Frame))
  PROVE  /\ SegItems(s) \in Seq(Item)
         /\ SegItems(s \o t) = SegItems(s) \o SegItems(t)
         /\ SegsRead(s \o t) <=> SegsRead(s) /\ SegsRead(t)
<1> DEFINE m == [seg \in Seq(Frame) |-> DecodeSegment(seg).items]
           c == s \o t
<1>1. m \in [Seq(Frame) -> Seq(Item)]
  BY SegmentIs
<1>2. /\ c \in Seq(Seq(Frame)) /\ Len(c) = Len(s) + Len(t)
      /\ DOMAIN s = 1..Len(s) /\ DOMAIN t = 1..Len(t) /\ DOMAIN c = 1..(Len(s) + Len(t))
      /\ Len(s) \in Nat /\ Len(t) \in Nat
      /\ \A i \in 1..(Len(s) + Len(t)) : c[i] = IF i <= Len(s) THEN s[i] ELSE t[i - Len(s)]
  BY ConcatProperties, LenProperties
<1>3. ASSUME NEW u \in Seq(Seq(Frame))
      PROVE  SegItems(u) = FlattenSeq(Mapped(m, u)) /\ Mapped(m, u) \in Seq(Seq(Item))
  <2>1. \A i \in DOMAIN u : m[u[i]] = DecodeSegment(u[i]).items
    <3>1. \A i \in DOMAIN u : u[i] \in Seq(Frame)
      BY LenProperties, ElementOfSeq
    <3>2. QED  BY <3>1
  <2>2. [i \in DOMAIN u |-> m[u[i]]] = [i \in DOMAIN u |-> DecodeSegment(u[i]).items]
    BY <2>1
  <2> HIDE DEF m
  <2>3. Mapped(m, u) \in Seq(Seq(Item))
    BY <1>1, MapConcat
  <2>4. QED  BY <2>2, <2>3 DEF SegItems, Mapped
<1> HIDE DEF m
<1>4. Mapped(m, s) \in Seq(Seq(Item)) /\ Joins(Mapped(m, s \o t), Mapped(m, s), Mapped(m, t))
  BY <1>1, MapConcat
<1> DEFINE x == Mapped(m, s)
           y == Mapped(m, t)
           z == Mapped(m, c)
<1>5. /\ x \in Seq(Seq(Item)) /\ y \in Seq(Seq(Item)) /\ z = x \o y
      /\ SegItems(s) = FlattenSeq(x) /\ SegItems(t) = FlattenSeq(y) /\ SegItems(c) = FlattenSeq(z)
  <2>1. z = x \o y
    BY <1>4 DEF Joins
  <2> HIDE DEF c, x, y, z
  <2>2. SegItems(s) = FlattenSeq(x) /\ x \in Seq(Seq(Item))
    BY <1>3 DEF x
  <2>3. SegItems(t) = FlattenSeq(y) /\ y \in Seq(Seq(Item))
    BY <1>3 DEF y
  <2>4. SegItems(c) = FlattenSeq(z)
    BY <1>2, <1>3 DEF z
  <2>5. QED  BY <2>1, <2>2, <2>3, <2>4
<1> HIDE DEF x, y, z
<1>6. SegItems(c) = SegItems(s) \o SegItems(t)
  BY <1>5, FlattenConcat
<1>7. SegItems(s) \in Seq(Item)
  BY <1>5, FlattenType
<1>8. ASSUME SegsRead(c) PROVE SegsRead(s) /\ SegsRead(t)
  <2>1. ASSUME NEW i \in 1..Len(s) PROVE DecodeSegment(s[i]).dec.ok
    <3>1. i \in DOMAIN c /\ c[i] = s[i]
      BY <1>2
    <3>2. QED  BY <1>8, <3>1 DEF SegsRead
  <2>2. ASSUME NEW i \in 1..Len(t) PROVE DecodeSegment(t[i]).dec.ok
    <3>1. /\ i + Len(s) \in 1..(Len(s) + Len(t)) /\ ~(i + Len(s) <= Len(s)) /\ (i + Len(s)) - Len(s) = i
      BY <1>2
    <3>2. i + Len(s) \in DOMAIN c /\ c[i + Len(s)] = t[i]
      BY <1>2, <3>1
    <3>3. QED  BY <1>8, <3>2 DEF SegsRead
  <2>3. QED  BY <1>2, <2>1, <2>2 DEF SegsRead
<1>9. ASSUME SegsRead(s), SegsRead(t) PROVE SegsRead(c)
  <2>1. ASSUME NEW i \in 1..(Len(s) + Len(t)) PROVE DecodeSegment(c[i]).dec.ok
    <3>1. CASE i <= Len(s)
      <4>1. i \in 1..Len(s) /\ c[i] = s[i]
        BY <1>2, <3>1
      <4>2. QED  BY <1>2, <1>9, <4>1 DEF SegsRead
    <3>2. CASE ~(i <= Len(s))
      <4>1. i - Len(s) \in 1..Len(t) /\ c[i] = t[i - Len(s)]
        BY <1>2, <3>2
      <4>2. QED  BY <1>2, <1>9, <4>1 DEF SegsRead
    <3>3. QED  BY <3>1, <3>2
  <2>2. QED  BY <1>2, <2>1 DEF SegsRead
<1>10. QED  BY <1>6, <1>7, <1>8, <1>9 DEF c

LEMMA OneSegment ==
  ASSUME NEW e \in FileEncoders
  PROVE  /\ e.out \in Seq(Frame) /\ <<e.out>> \in Seq(Seq(Frame))
         /\ SegItems(<<e.out>>) = ItemsOf(e) /\ SegsRead(<<e.out>>)
<1> DEFINE o == e.out
<1>1. o \in Seq(Frame)
  BY EncoderIs DEF FileEncoders
<1>2. DecodeSegment(o).items = ItemsOf(e) /\ DecodeSegment(o).dec.ok /\ ItemsOf(e) \in Seq(Item)
  BY <1>1, SegmentIs, FileMakes DEF ItemsOf, FileEncoders, Follows, InStep
<1> HIDE DEF o
<1>3. <<o>> \in Seq(Seq(Frame)) /\ DOMAIN <<o>> = {1} /\ <<o>>[1] = o
  BY <1>1
<1>4. [i \in DOMAIN <<o>> |-> DecodeSegment(<<o>>[i]).items] = <<ItemsOf(e)>>
  <2> DEFINE f == [i \in DOMAIN <<o>> |-> DecodeSegment(<<o>>[i]).items]
  <2>1. f = [i \in {1} |-> ItemsOf(e)]
    BY <1>2, <1>3
  <2> HIDE DEF f
  <2>2. f = <<ItemsOf(e)>>
    BY <2>1
  <2>3. QED  BY <2>2 DEF f
<1>5. SegItems(<<o>>) = ItemsOf(e)
  BY <1>2, <1>4, FlattenFew DEF SegItems
<1>6. SegsRead(<<o>>)
  BY <1>2, <1>3 DEF SegsRead
<1>7. QED  BY <1>1, <1>3, <1>5, <1>6 DEF o

\* The segments closed so far all read, and a segment not open has no items.
Accs ==
  {acc \in [segs : Seq(Seq(Frame)), enc : FileEncoders, open : BOOLEAN] :
     SegsRead(acc.segs) /\ (~acc.open => ItemsOf(acc.enc) = << >>)}
Written(acc) == SegItems(acc.segs) \o ItemsOf(acc.enc)

LEMMA AddStep ==
  ASSUME NEW acc \in Accs, NEW x \in ExecItem
  PROVE  /\ AddExecution(acc, x) \in Accs
         /\ Written(acc) \in Seq(Item)
         /\ Written(AddExecution(acc, x)) = Append(Written(acc), x)
<1> DEFINE e == EncodeExecution(acc.enc, x)
           its == SegItems(acc.segs)
           more == ItemsOf(acc.enc)
<1>0. /\ acc.segs \in Seq(Seq(Frame)) /\ acc.enc \in FileEncoders
      /\ acc = [segs |-> acc.segs, enc |-> acc.enc, open |-> acc.open] /\ SegsRead(acc.segs)
  BY DEF Accs
<1>1. e \in FileEncoders /\ ItemsOf(e) = Append(more, x) /\ more \in Seq(Item) /\ x \in Item
  BY <1>0, FileMakes, FileItems
<1>2. its \in Seq(Item)
  <2>1. << >> \in Seq(Seq(Frame))
    BY EmptySeq
  <2>2. QED  BY <1>0, <2>1, SegmentsJoined
<1> HIDE DEF e
<1>3. Written(acc) \in Seq(Item) /\ Written(acc) = its \o more
  BY <1>1, <1>2, ConcatProperties DEF Written
<1> HIDE DEF its, more
<1>4. its \o Append(more, x) = Append(its \o more, x)
  <2>1. Append(more, x) = more \o <<x>> /\ <<x>> \in Seq(Item)
    BY <1>1, AppendIsConcat
  <2>2. Append(its \o more, x) = (its \o more) \o <<x>>
    BY <1>1, <1>3, AppendIsConcat
  <2>3. (its \o more) \o <<x>> = its \o (more \o <<x>>)
    BY <1>1, <1>2, <2>1, ConcatAssociative
  <2>4. QED  BY <2>1, <2>2, <2>3
<1>5. CASE Len(e.out) >= SegSoft
  <2> DEFINE b == [segs |-> Append(acc.segs, e.out), enc |-> FreshSegment, open |-> FALSE]
  <2>1. AddExecution(acc, x) = b
    BY <1>5 DEF AddExecution, e
  <2>2. /\ e.out \in Seq(Frame) /\ <<e.out>> \in Seq(Seq(Frame))
        /\ SegItems(<<e.out>>) = ItemsOf(e) /\ SegsRead(<<e.out>>)
    BY <1>1, OneSegment
  <2>3. Append(acc.segs, e.out) = acc.segs \o <<e.out>> /\ Append(acc.segs, e.out) \in Seq(Seq(Frame))
    BY <1>0, <2>2, AppendIsConcat, AppendProperties
  <2>4. /\ SegItems(Append(acc.segs, e.out)) = its \o ItemsOf(e)
        /\ SegsRead(Append(acc.segs, e.out))
    <3> DEFINE u == <<e.out>>
    <3>1. u \in Seq(Seq(Frame)) /\ SegItems(u) = ItemsOf(e) /\ SegsRead(u)
      BY <2>2
    <3> HIDE DEF u
    <3>2. SegItems(acc.segs \o u) = SegItems(acc.segs) \o SegItems(u) /\ SegsRead(acc.segs \o u)
      BY <1>0, <3>1, SegmentsJoined
    <3>3. Append(acc.segs, e.out) = acc.segs \o u
      BY <2>3 DEF u
    <3>4. QED  BY ONLY <3>1, <3>2, <3>3 DEF its
  <2>5. FreshSegment \in FileEncoders /\ ItemsOf(FreshSegment) = << >>
    BY FreshSegments
  <2>6. b.segs = Append(acc.segs, e.out) /\ b.enc = FreshSegment /\ b.open = FALSE
    OBVIOUS
  <2>7. b \in Accs
    BY <2>3, <2>4, <2>5 DEF Accs
  <2> HIDE DEF b
  <2>8. Written(b) = its \o Append(more, x)
    <3>1. its \o Append(more, x) \in Seq(Item)
      BY <1>1, <1>3, <1>4, AppendProperties
    <3>2. (its \o Append(more, x)) \o << >> = its \o Append(more, x)
      BY <3>1, ConcatEmptySeq
    <3>3. QED  BY <1>1, <2>4, <2>5, <2>6, <3>2 DEF Written
  <2>9. QED  BY <1>3, <1>4, <2>1, <2>7, <2>8
<1>6. CASE ~(Len(e.out) >= SegSoft)
  <2> DEFINE b == [acc EXCEPT !.enc = e, !.open = TRUE]
  <2>1. AddExecution(acc, x) = b
    BY <1>6 DEF AddExecution, e
  <2>2. /\ b \in [segs : Seq(Seq(Frame)), enc : FileEncoders, open : BOOLEAN]
        /\ b.segs = acc.segs /\ b.enc = e /\ b.open = TRUE
    <3>1. ASSUME NEW A, NEW B, NEW n \in B, NEW r \in [segs : A, enc : B, open : BOOLEAN]
          PROVE  LET q == [r EXCEPT !.enc = n, !.open = TRUE]
                 IN  /\ q \in [segs : A, enc : B, open : BOOLEAN]
                     /\ q.segs = r.segs /\ q.enc = n /\ q.open = TRUE
      OBVIOUS
    <3>2. acc \in [segs : Seq(Seq(Frame)), enc : FileEncoders, open : BOOLEAN]
      BY DEF Accs
    <3>3. QED  BY ONLY <1>1, <3>1, <3>2
  <2>3. b \in Accs
    <3> HIDE DEF b
    <3>1. QED  BY <1>0, <2>2 DEF Accs
  <2> HIDE DEF b
  <2>4. Written(b) = its \o Append(more, x)
    BY <1>1, <2>2 DEF Written, its
  <2>5. QED  BY <1>3, <1>4, <2>1, <2>3, <2>4
<1>7. QED  BY <1>5, <1>6

LEMMA ExecutionFold ==
  ASSUME NEW a \in Accs, NEW s \in Seq(ExecItem)
  PROVE  \E g \in [0..Len(s) -> Accs] :
           /\ g[0] = a /\ \A i \in 1..Len(s) : g[i] = AddExecution(g[i - 1], s[i])
           /\ FoldLeft(AddExecution, a, s) = g[Len(s)]
<1> DEFINE N == Len(s)
           F == [p \in Accs \X (1..N) |-> AddExecution(p[1], s[p[2]])]
           Recursion(h) ==
             h = [T \in SUBSET (DOMAIN s) |->
                    IF T = {} THEN a ELSE AddExecution(h[T \ {Max(T)}], s[Max(T)])]
           iter == CHOOSE h : Recursion(h)
<1>1. N \in Nat /\ DOMAIN s = 1..N /\ \A i \in 1..N : s[i] \in ExecItem
  BY LenProperties, ElementOfSeq
<1>2. F \in [Accs \X (1..N) -> Accs]
  BY <1>1, AddStep
<1>3. \A x \in Accs, m \in 1..N : F[<<x, m>>] = AddExecution(x, s[m])
  OBVIOUS
<1> HIDE DEF F
<1>4. PICK h \in [SUBSET (1..N) -> Accs] : FoldsBy(h, a, F, N)
  BY <1>1, <1>2, FoldExists
<1>5. ASSUME NEW T \in SUBSET (1..N)
      PROVE  h[T] = IF T = {} THEN a ELSE AddExecution(h[T \ {Max(T)}], s[Max(T)])
  <2>1. h[T] = IF T = {} THEN a ELSE F[<<h[T \ {Max(T)}], Max(T)>>]
    BY <1>4 DEF FoldsBy
  <2>2. T # {} => Max(T) \in 1..N /\ h[T \ {Max(T)}] \in Accs
    BY <1>1, MaxIs
  <2>3. QED  BY <1>3, <2>1, <2>2
<1>6. Recursion(iter)
  <2>1. Recursion(h)
    BY <1>1, <1>5
  <2> HIDE DEF Recursion
  <2>2. QED  BY <2>1
<1>7. FoldLeft(AddExecution, a, s) = iter[1..N]
  BY <1>1 DEF FoldLeft, MapThenFoldSet
<1> HIDE DEF iter
<1>8. \A T \in SUBSET (1..N) :
        iter[T] = IF T = {} THEN a ELSE AddExecution(iter[T \ {Max(T)}], s[Max(T)])
  BY <1>1, <1>6
<1>9. Recurs(iter, Accs, a, F, N)
  <2>1. iter[{}] = a
    BY <1>8
  <2>2. \A T \in SUBSET (1..N) : (T # {} /\ iter[T \ {Max(T)}] \in Accs) =>
          iter[T] = F[<<iter[T \ {Max(T)}], Max(T)>>]
    BY <1>1, <1>3, <1>8, MaxIs
  <2>3. QED  BY <2>1, <2>2 DEF Recurs
<1>10. \E g \in [0..N -> Accs] : Passes(g, iter, a, F, N)
  <2>1. N \in Nat
    BY <1>1
  <2> HIDE DEF N
  <2>2. QED  BY <1>2, <1>9, <2>1, FoldSteps
<1>11. PICK g \in [0..N -> Accs] :
         g[0] = a /\ (\A i \in 1..N : g[i] = F[<<g[i - 1], i>>]) /\ iter[1..N] = g[N]
  BY <1>10 DEF Passes
<1>12. \A i \in 1..N : g[i] = AddExecution(g[i - 1], s[i])
  <2>1. \A i \in 1..N : i - 1 \in 0..N
    BY <1>1
  <2>2. QED  BY <1>3, <1>11, <2>1
<1>13. QED  BY <1>7, <1>11, <1>12


\* seal_segment: the segments of a flush, each read on its own, give back what it
\* was given.
LEMMA SegmentsAll ==
  ASSUME NEW meta \in BOOLEAN, NEW gcs \in Seq(Nat), NEW samples \in Seq(Nat), NEW xs \in Seq(ExecItem)
  PROVE  LET segs == Segments(meta, gcs, samples, xs)
             given == (IF meta THEN <<Meta>> ELSE << >>) \o GcItems(gcs) \o SampleItems(samples) \o xs
         IN  /\ segs \in Seq(Seq(Frame)) /\ SegsRead(segs) /\ given \in Seq(Item)
             /\ SegItems(segs) = given
<1> DEFINE fresh == IF meta THEN EncodeMeta(FreshSegment) ELSE FreshSegment
           second == FoldLeft(EncodeGc, fresh, gcs)
           first == FoldLeft(EncodeSample, second, samples)
           a == [segs |-> << >>, enc |-> first, open |-> meta \/ gcs \o samples # << >>]
           acc == FoldLeft(AddExecution, a, xs)
           head == IF meta THEN <<Meta>> ELSE << >>
           start == head \o GcItems(gcs) \o SampleItems(samples)
<1>1. fresh \in FileEncoders /\ ItemsOf(fresh) = head /\ head \in Seq(Item)
  <2>1. FreshSegment \in FileEncoders /\ ItemsOf(FreshSegment) = << >> /\ << >> \in Seq(Item)
    BY FreshSegments, EmptySeq
  <2>2. EncodeMeta(FreshSegment) \in FileEncoders /\ ItemsOf(EncodeMeta(FreshSegment)) = Append(<< >>, Meta)
    BY <2>1, FileMakes
  <2>3. Append(<< >>, Meta) = <<Meta>> /\ <<Meta>> \in Seq(Item)
    BY FileItems
  <2>4. QED  BY <2>1, <2>2, <2>3
<1> HIDE DEF fresh, head
<1>2. /\ second \in FileEncoders /\ ItemsOf(second) = head \o GcItems(gcs) /\ GcItems(gcs) \in Seq(Item)
  BY <1>1, GcsAll
<1> HIDE DEF second
<1>3. /\ first \in FileEncoders /\ ItemsOf(first) = start /\ SampleItems(samples) \in Seq(Item)
  BY <1>2, SamplesAll
<1> HIDE DEF first
<1>4. start \in Seq(Item)
  BY <1>3, FileMakes
<1>5. a \in Accs /\ Written(a) = start
  <2>1. << >> \in Seq(Seq(Frame)) /\ SegsRead(<< >>) /\ SegItems(<< >>) = << >>
    <3>1. << >> \in Seq(Seq(Frame)) /\ DOMAIN << >> = {}
      BY EmptySeq
    <3>2. [i \in DOMAIN << >> |-> DecodeSegment(<< >>[i]).items] = << >>
      BY <3>1
    <3>3. QED  BY <3>1, <3>2, FlattenFew DEF SegsRead, SegItems
  <2>2. ASSUME ~(meta \/ gcs \o samples # << >>) PROVE ItemsOf(first) = << >>
    <3>1. gcs \o samples = << >> /\ ~meta
      BY <2>2
    <3>2. Len(gcs) = 0 /\ Len(samples) = 0
      <4>1. Len(gcs \o samples) = Len(gcs) + Len(samples) /\ Len(gcs) \in Nat /\ Len(samples) \in Nat
        BY ConcatProperties, LenProperties
      <4>2. Len(gcs \o samples) = 0
        BY <3>1
      <4>3. QED  BY <4>1, <4>2
    <3>3. DOMAIN gcs = {} /\ DOMAIN samples = {}
      BY <3>2, LenProperties
    <3>4. GcItems(gcs) = << >> /\ SampleItems(samples) = << >> /\ head = << >>
      BY <3>1, <3>3 DEF GcItems, SampleItems, head
    <3>5. << >> \o << >> = << >>
      OBVIOUS
    <3>6. QED  BY <1>3, <3>4, <3>5
  <2> DEFINE o == meta \/ gcs \o samples # << >>
  <2> HIDE DEF o
  <2>3. a = [segs |-> << >>, enc |-> first, open |-> o] /\ o \in BOOLEAN
    BY DEF o
  <2>4. a.segs = << >> /\ a.enc = first /\ a.open = o
    BY <2>3
  <2>5. ~o => ItemsOf(first) = << >>
    BY <2>2 DEF o
  <2>6. a \in Accs
    BY <1>3, <2>1, <2>3, <2>5 DEF Accs
  <2> HIDE DEF a
  <2>7. << >> \o start = start
    BY <1>4, ConcatEmptySeq
  <2>8. QED  BY <1>3, <2>1, <2>4, <2>6, <2>7 DEF Written
<1> HIDE DEF a
<1> DEFINE N == Len(xs)
<1>6. N \in Nat /\ \A i \in 1..N : xs[i] \in ExecItem
  BY LenProperties, ElementOfSeq
<1>7. PICK g \in [0..N -> Accs] :
        /\ g[0] = a /\ \A i \in 1..N : g[i] = AddExecution(g[i - 1], xs[i])
        /\ acc = g[N]
  BY <1>5, ExecutionFold
<1> HIDE DEF acc
<1> DEFINE h == [i \in 0..N |-> Written(g[i])]
<1>8. h \in [0..N -> Seq(Item)] /\ \A i \in 0..N : h[i] = Written(g[i])
  <2>1. ASSUME NEW b \in Accs PROVE Written(b) \in Seq(Item)
    <3>1. b.segs \in Seq(Seq(Frame)) /\ b.enc \in FileEncoders /\ << >> \in Seq(Seq(Frame))
      BY EmptySeq DEF Accs
    <3>2. SegItems(b.segs) \in Seq(Item) /\ ItemsOf(b.enc) \in Seq(Item)
      BY <3>1, SegmentsJoined, FileMakes
    <3>3. QED  BY <3>2, ConcatProperties DEF Written
  <2>2. QED  BY <1>7, <2>1
<1>9. xs \in [1..N -> Item]
  <2>1. xs = [i \in 1..N |-> xs[i]]
    BY LenProperties
  <2>2. QED  BY <1>6, <2>1, FileItems
<1> HIDE DEF h, N
<1>10. AppendsTo(h, xs, N)
  <2>1. ASSUME NEW i \in 1..N PROVE h[i] = Append(h[i - 1], xs[i])
    <3>1. i \in 0..N /\ i - 1 \in 0..N /\ xs[i] \in ExecItem /\ g[i - 1] \in Accs
      BY <1>6, <1>7
    <3>2. Written(AddExecution(g[i - 1], xs[i])) = Append(Written(g[i - 1]), xs[i])
      BY <3>1, AddStep
    <3>3. h[i] = Written(g[i]) /\ h[i - 1] = Written(g[i - 1])
      BY ONLY <1>8, <3>1
    <3>4. g[i] = AddExecution(g[i - 1], xs[i])
      BY <1>7
    <3>5. QED  BY ONLY <3>2, <3>3, <3>4
  <2>2. QED  BY <2>1 DEF AppendsTo
<1>11. xs \in Seq(Item) /\ Joins(h[N], h[0], xs)
  BY ONLY <1>6, <1>8, <1>9, <1>10, AppendsAll
<1>12. acc \in Accs /\ Written(acc) = start \o xs
  <2>1. 0 \in 0..N /\ N \in 0..N
    BY <1>6
  <2>2. QED  BY <1>5, <1>7, <1>8, <1>11, <2>1 DEF Joins
<1> DEFINE segs == IF acc.open THEN Append(acc.segs, acc.enc.out) ELSE acc.segs
<1>13. Segments(meta, gcs, samples, xs) = segs
  BY DEF Segments, acc, a, first, second, fresh
<1>14. acc.segs \in Seq(Seq(Frame)) /\ acc.enc \in FileEncoders /\ SegsRead(acc.segs)
  BY <1>12 DEF Accs
<1>15. SegItems(segs) = Written(acc) /\ segs \in Seq(Seq(Frame)) /\ SegsRead(segs)
  <2>1. CASE acc.open
    <3>1. /\ acc.enc.out \in Seq(Frame) /\ <<acc.enc.out>> \in Seq(Seq(Frame))
          /\ SegItems(<<acc.enc.out>>) = ItemsOf(acc.enc) /\ SegsRead(<<acc.enc.out>>)
      BY <1>14, OneSegment
    <3>2. segs = acc.segs \o <<acc.enc.out>> /\ segs \in Seq(Seq(Frame))
      <4>1. segs = Append(acc.segs, acc.enc.out)
        BY <2>1
      <4> HIDE DEF segs
      <4>2. Append(acc.segs, acc.enc.out) \in Seq(Seq(Frame))
        BY ONLY <1>14, <3>1, AppendProperties
      <4>3. Append(acc.segs, acc.enc.out) = acc.segs \o <<acc.enc.out>>
        BY ONLY <1>14, <3>1, AppendIsConcat
      <4>4. QED  BY ONLY <4>1, <4>2, <4>3
    <3> HIDE DEF segs
    <3>3. QED  BY <1>14, <3>1, <3>2, SegmentsJoined DEF Written
  <2>2. CASE ~acc.open
    <3>1. ItemsOf(acc.enc) = << >> /\ segs = acc.segs
      BY <1>12, <2>2 DEF Accs
    <3>2. SegItems(acc.segs) \in Seq(Item)
      <4>1. << >> \in Seq(Seq(Frame))
        BY EmptySeq
      <4>2. QED  BY <1>14, <4>1, SegmentsJoined
    <3>3. SegItems(acc.segs) \o << >> = SegItems(acc.segs)
      BY <3>2, ConcatEmptySeq
    <3>4. QED  BY <1>14, <3>1, <3>3 DEF Written
  <2>3. QED  BY <2>1, <2>2
<1> HIDE DEF segs, start
<1>16. start \o xs \in Seq(Item)
  BY <1>4, <1>11, ConcatProperties
<1>17. QED  BY <1>12, <1>13, <1>15, <1>16 DEF start, head

-----------------------------------------------------------------------------
(* What each flush is given. *)

OfKind(type) == {it \in Item : it.type = type}

LEMMA SelectType ==
  ASSUME NEW type, NEW acc \in Seq(OfKind(type)), NEW it \in Item
  PROVE  Select(type, acc, it) \in Seq(OfKind(type))
<1>1. it.type = type => it \in OfKind(type)
  BY DEF OfKind
<1>2. QED  BY <1>1, AppendProperties DEF Select

SelectAll(type, a, its) == FoldLeft(LAMBDA acc, it : Select(type, acc, it), a, its)

LEMMA SelectFold ==
  ASSUME NEW type, NEW a \in Seq(OfKind(type)), NEW s \in Seq(Item)
  PROVE  \E g \in [0..Len(s) -> Seq(OfKind(type))] :
           /\ g[0] = a /\ \A i \in 1..Len(s) : g[i] = Select(type, g[i - 1], s[i])
           /\ SelectAll(type, a, s) = g[Len(s)]
<1> DEFINE N == Len(s)
           F == [p \in Seq(OfKind(type)) \X (1..N) |-> Select(type, p[1], s[p[2]])]
           Recursion(h) ==
             h = [T \in SUBSET (DOMAIN s) |->
                    IF T = {} THEN a ELSE Select(type, h[T \ {Max(T)}], s[Max(T)])]
           iter == CHOOSE h : Recursion(h)
<1>1. N \in Nat /\ DOMAIN s = 1..N /\ \A i \in 1..N : s[i] \in Item
  BY LenProperties, ElementOfSeq
<1>2. F \in [Seq(OfKind(type)) \X (1..N) -> Seq(OfKind(type))]
  BY <1>1, SelectType
<1>3. \A x \in Seq(OfKind(type)), m \in 1..N : F[<<x, m>>] = Select(type, x, s[m])
  OBVIOUS
<1> HIDE DEF F
<1>4. PICK h \in [SUBSET (1..N) -> Seq(OfKind(type))] : FoldsBy(h, a, F, N)
  BY <1>1, <1>2, FoldExists
<1>5. ASSUME NEW T \in SUBSET (1..N)
      PROVE  h[T] = IF T = {} THEN a ELSE Select(type, h[T \ {Max(T)}], s[Max(T)])
  <2>1. h[T] = IF T = {} THEN a ELSE F[<<h[T \ {Max(T)}], Max(T)>>]
    BY <1>4 DEF FoldsBy
  <2>2. T # {} => Max(T) \in 1..N /\ h[T \ {Max(T)}] \in Seq(OfKind(type))
    BY <1>1, MaxIs
  <2>3. QED  BY <1>3, <2>1, <2>2
<1>6. Recursion(iter)
  <2>1. Recursion(h)
    BY <1>1, <1>5
  <2> HIDE DEF Recursion
  <2>2. QED  BY <2>1
<1>7. SelectAll(type, a, s) = iter[1..N]
  BY <1>1 DEF SelectAll, FoldLeft, MapThenFoldSet
<1> HIDE DEF iter
<1>8. \A T \in SUBSET (1..N) :
        iter[T] = IF T = {} THEN a ELSE Select(type, iter[T \ {Max(T)}], s[Max(T)])
  BY <1>1, <1>6
<1>9. Recurs(iter, Seq(OfKind(type)), a, F, N)
  <2>1. iter[{}] = a
    BY <1>8
  <2>2. \A T \in SUBSET (1..N) : (T # {} /\ iter[T \ {Max(T)}] \in Seq(OfKind(type))) =>
          iter[T] = F[<<iter[T \ {Max(T)}], Max(T)>>]
    BY <1>1, <1>3, <1>8, MaxIs
  <2>3. QED  BY <2>1, <2>2 DEF Recurs
<1>10. \E g \in [0..N -> Seq(OfKind(type))] : Passes(g, iter, a, F, N)
  <2>1. N \in Nat
    BY <1>1
  <2> HIDE DEF N
  <2>2. QED  BY <1>2, <1>9, <2>1, FoldSteps
<1>11. PICK g \in [0..N -> Seq(OfKind(type))] :
         g[0] = a /\ (\A i \in 1..N : g[i] = F[<<g[i - 1], i>>]) /\ iter[1..N] = g[N]
  BY <1>10 DEF Passes
<1>12. \A i \in 1..N : g[i] = Select(type, g[i - 1], s[i])
  <2>1. \A i \in 1..N : i - 1 \in 0..N
    BY <1>1
  <2>2. QED  BY <1>3, <1>11, <2>1
<1>13. QED  BY <1>7, <1>11, <1>12


LEMMA OfTypeType ==
  ASSUME NEW its \in Seq(Item), NEW type
  PROVE  OfType(its, type) \in Seq(OfKind(type))
<1>1. << >> \in Seq(OfKind(type)) /\ Len(its) \in 0..Len(its)
  BY EmptySeq, LenProperties
<1>2. PICK g \in [0..Len(its) -> Seq(OfKind(type))] :
        SelectAll(type, << >>, its) = g[Len(its)]
  BY <1>1, SelectFold, ZenonT(40)
<1>3. g[Len(its)] \in Seq(OfKind(type))
  BY ONLY <1>1, <1>2
<1>4. OfType(its, type) = SelectAll(type, << >>, its)
  BY DEF OfType, SelectAll
<1>5. QED  BY ONLY <1>2, <1>3, <1>4

LEMMA TakenTypes ==
  ASSUME items \in Seq(Item)
  PROVE  Executions \in Seq(ExecItem) /\ Pauses \in Seq(Nat)
<1>1. Executions \in Seq(ExecItem)
  <2> DEFINE sw == OfType(items, "switch")
             L == Len(sw)
             x(i) == [type |-> "execution", ts |-> sw[i].ts, texts |-> sw[i].texts, stack |-> sw[i + 1].stack]
  <2>1. sw \in Seq(OfKind("switch")) /\ L \in Nat /\ DOMAIN sw = 1..L
    BY OfTypeType, LenProperties
  <2> HIDE DEF sw
  <2>2. ASSUME NEW i \in 1..L
        PROVE  sw[i].ts \in Nat /\ sw[i].texts \in [Fields -> Str] /\ sw[i].stack \in Stacks
    <3>1. sw[i] \in OfKind("switch")
      BY <2>1, ElementOfSeq
    <3>2. sw[i] \in Item /\ sw[i].type = "switch"
      BY <3>1 DEF OfKind
    <3>3. sw[i].type \in Timed
      BY <3>2 DEF Timed, Names
    <3> DEFINE P == [Places(sw[i].type) -> Str]
    <3> HIDE DEF P
    <3>4. sw[i] \in [type : {sw[i].type}, ts : Nat, texts : P, stack : Stacks]
      BY <3>2, <3>3, ItemShape DEF P
    <3>5. sw[i].ts \in Nat /\ sw[i].stack \in Stacks
      BY ONLY <3>4
    <3>6. QED  BY <3>2, <3>5, SwitchShape
  <2>3. DOMAIN sw \ {L} = IF L = 0 THEN 1..0 ELSE 1..(L - 1)
    BY <2>1
  <2>4. ASSUME NEW i \in DOMAIN sw \ {L} PROVE x(i) \in ExecItem
    <3>1. i \in 1..L /\ i + 1 \in 1..L
      BY <2>1, <2>4
    <3>2. QED  BY <2>2, <3>1 DEF ExecItem
  <2>5. Executions = [i \in DOMAIN sw \ {L} |-> x(i)]
    BY DEF Executions, sw
  <2> HIDE DEF x, L
  <2> DEFINE n == IF L = 0 THEN 0 ELSE L - 1
  <2>6. n \in Nat /\ DOMAIN sw \ {L} = 1..n
    BY <2>1, <2>3
  <2> HIDE DEF n
  <2>7. Executions \in [1..n -> ExecItem]
    BY <2>4, <2>5, <2>6
  <2>8. QED  BY <2>6, <2>7, SequenceOf
<1>2. Pauses \in Seq(Nat)
  <2> DEFINE gc == OfType(items, "gc")
             L == Len(gc)
  <2>1. gc \in Seq(OfKind("gc")) /\ L \in Nat /\ DOMAIN gc = 1..L
    BY OfTypeType, LenProperties
  <2>2. Pauses = [i \in DOMAIN gc |-> gc[i].n]
    BY DEF Pauses
  <2> HIDE DEF gc
  <2>3. ASSUME NEW i \in 1..L PROVE gc[i].n \in Nat
    <3>1. gc[i] \in OfKind("gc")
      BY <2>1, ElementOfSeq
    <3>2. gc[i] \in Item /\ gc[i].type = "gc"
      BY <3>1 DEF OfKind
    <3>3. gc[i] \in [type : {"gc"}, n : Nat]
      BY <3>2 DEF Item, Timed
    <3>4. QED  BY <3>3
  <2>4. Pauses \in [1..L -> Nat]
    BY <2>1, <2>2, <2>3
  <2>5. QED  BY <2>1, <2>4, SequenceOf
<1>3. QED  BY <1>1, <1>2

KeptItem == [gcs : Seq(Nat), samples : Seq(Nat), xs : Seq(ExecItem)]
Given(w, k) ==
  (IF k = 1 THEN <<Meta>> ELSE << >>) \o GcItems(w.gcs) \o SampleItems(w.samples) \o w.xs
GivenAll(ks) == FlattenSeq([k \in DOMAIN ks |-> Given(ks[k], k)])

LEMMA ExactIs == SegmentsExact <=> SegsRead(file) /\ SegItems(file) = GivenAll(kept)
<1> DEFINE reads == [i \in DOMAIN file |-> DecodeSegment(file[i])]
<1>1. [i \in DOMAIN file |-> reads[i].items] = [i \in DOMAIN file |-> DecodeSegment(file[i]).items]
  OBVIOUS
<1>2. (\A i \in DOMAIN file : reads[i].dec.ok) <=> SegsRead(file)
  BY DEF SegsRead
<1>3. QED  BY <1>1, <1>2 DEF SegmentsExact, SegItems, GivenAll, Given, GcItems, SampleItems, GcItem, SampleItem, Meta

LEMMA GivenType ==
  ASSUME NEW w \in KeptItem, NEW k
  PROVE  Given(w, k) \in Seq(Item)
<1>1. w.gcs \in Seq(Nat) /\ w.samples \in Seq(Nat) /\ w.xs \in Seq(ExecItem)
  BY DEF KeptItem
<1>2. GcItems(w.gcs) \in Seq(Item) /\ SampleItems(w.samples) \in Seq(Item)
  BY <1>1, FreshSegments, GcsAll, SamplesAll
<1>3. w.xs \in Seq(Item)
  BY <1>1, FileItems, SeqMonotonic
<1>4. (IF k = 1 THEN <<Meta>> ELSE << >>) \in Seq(Item)
  BY FileItems, EmptySeq
<1>5. QED  BY <1>2, <1>3, <1>4, ConcatProperties DEF Given

LEMMA GivenGrows ==
  ASSUME NEW ks \in Seq(KeptItem), NEW w \in KeptItem
  PROVE  GivenAll(Append(ks, w)) = GivenAll(ks) \o Given(w, Len(ks) + 1)
<1> DEFINE N == Len(ks)
           ks2 == Append(ks, w)
           f == [k \in DOMAIN ks |-> Given(ks[k], k)]
           f2 == [k \in DOMAIN ks2 |-> Given(ks2[k], k)]
           new == Given(w, N + 1)
<1>1. /\ N \in Nat /\ DOMAIN ks = 1..N /\ DOMAIN ks2 = 1..(N + 1)
      /\ ks2[N + 1] = w /\ \A k \in 1..N : ks2[k] = ks[k] /\ ks[k] \in KeptItem
  BY AppendProperties, LenProperties, ElementOfSeq
<1> HIDE DEF ks2
<1>2. new \in Seq(Item)
  BY GivenType
<1>3. f \in [1..N -> Seq(Item)]
  BY <1>1, GivenType
<1>4. /\ DOMAIN f2 = 1..(N + 1) /\ f2[N + 1] = new /\ \A k \in 1..N : f2[k] = f[k]
  BY <1>1
<1>5. f2 \in [1..(N + 1) -> Seq(Item)]
  <2>1. \A k \in 1..(N + 1) : f2[k] \in Seq(Item)
    <3>1. \A k \in 1..(N + 1) : k = N + 1 \/ k \in 1..N
      BY <1>1
    <3> HIDE DEF f, f2, new
    <3>2. QED  BY <1>2, <1>3, <1>4, <3>1
  <2>2. f2 = [k \in 1..(N + 1) |-> f2[k]]
    BY <1>1
  <2> HIDE DEF f2
  <2>3. QED  BY <2>1, <2>2
<1> HIDE DEF f, f2, new
<1>6. /\ f \in Seq(Seq(Item)) /\ Len(f) = N /\ f2 \in Seq(Seq(Item)) /\ Len(f2) = N + 1
  <2>1. ASSUME NEW n \in Nat, NEW u \in [1..n -> Seq(Item)] PROVE u \in Seq(Seq(Item)) /\ Len(u) = n
    BY SequenceOf, LenProperties
  <2>2. N + 1 \in Nat
    BY <1>1
  <2> HIDE DEF N
  <2>3. QED  BY <1>1, <1>3, <1>5, <2>1, <2>2
<1>7. f2 = f \o <<new>>
  <2>1. Append(f, new) = f \o <<new>> /\ <<new>> \in Seq(Seq(Item))
    BY <1>2, <1>6, AppendIsConcat
  <2>2. /\ Append(f, new) \in Seq(Seq(Item)) /\ Len(Append(f, new)) = N + 1
        /\ Append(f, new)[N + 1] = new /\ \A i \in 1..N : Append(f, new)[i] = f[i]
    BY <1>2, <1>6, AppendProperties
  <2>3. \A k \in 1..(N + 1) : k = N + 1 \/ k \in 1..N
    BY <1>1
  <2> DEFINE u == Append(f, new)
  <2>4. \A i \in 1..Len(f2) : f2[i] = u[i]
    BY ONLY <1>4, <1>6, <2>2, <2>3
  <2> HIDE DEF u
  <2>5. f2 = u
    BY <1>6, <2>2, <2>4, SeqEqual DEF u
  <2>6. QED  BY <2>1, <2>5 DEF u
<1>8. FlattenSeq(<<new>>) = new /\ <<new>> \in Seq(Seq(Item))
  BY <1>2, FlattenFew
<1>9. FlattenSeq(f2) = FlattenSeq(f) \o new
  BY <1>6, <1>7, <1>8, FlattenConcat
<1>10. QED  BY <1>9 DEF GivenAll, f, f2, ks2, new

-----------------------------------------------------------------------------
(* The recording reads back as what each flush was given.                       *)

FileInv ==
  /\ file \in Seq(Seq(Frame)) /\ kept \in Seq(KeptItem)
  /\ sealed \in [executions : Nat, pauses : Nat]
  /\ SegmentsExact

LEMMA SealStep ==
  ASSUME WireInv, FileInv, Seal
  PROVE  FileInv'
<1>1. items \in Seq(Item) /\ now \in Nat
  BY DEF WireInv, Start, Reads
<1>2. Executions \in Seq(ExecItem) /\ Pauses \in Seq(Nat)
  BY <1>1, TakenTypes
<1> DEFINE gcs == SubSeq(Pauses, sealed.pauses + 1, Len(Pauses))
           xs == SubSeq(Executions, sealed.executions + 1, Len(Executions))
<1>3. PICK samples \in {<< >>, <<now>>} :
        /\ kept' = Append(kept, [gcs |-> gcs, samples |-> samples, xs |-> xs])
        /\ file' = file \o Segments(kept = << >>, gcs, samples, xs)
  BY DEF Seal
<1>4. sealed' = [executions |-> Len(Executions), pauses |-> Len(Pauses)]
  BY DEF Seal
<1>5. sealed' \in [executions : Nat, pauses : Nat]
  BY <1>2, <1>4, LenProperties
<1>6. gcs \in Seq(Nat) /\ xs \in Seq(ExecItem) /\ samples \in Seq(Nat)
  <2>1. sealed.pauses \in Nat /\ sealed.executions \in Nat
    BY DEF FileInv
  <2>2. gcs \in Seq(Nat) /\ xs \in Seq(ExecItem)
    BY <1>2, <2>1, RestType
  <2>3. samples \in Seq(Nat)
    <3>1. now \in Nat
      BY <1>1
    <3>2. << >> \in Seq(Nat)
      OBVIOUS
    <3>3. ASSUME NEW n \in Nat PROVE <<n>> \in Seq(Nat)
      BY ONLY <3>3
    <3>4. <<now>> \in Seq(Nat)
      BY ONLY <3>1, <3>3
    <3>5. samples = << >> \/ samples = <<now>>
      BY ONLY <1>3
    <3>6. QED  BY ONLY <3>2, <3>4, <3>5
  <2>4. QED  BY <2>2, <2>3
<1> HIDE DEF gcs, xs
<1> DEFINE w == [gcs |-> gcs, samples |-> samples, xs |-> xs]
           meta == kept = << >>
           segs == Segments(meta, gcs, samples, xs)
<1>7. w \in KeptItem /\ w.gcs = gcs /\ w.samples = samples /\ w.xs = xs
  BY <1>6 DEF KeptItem
<1>8. kept' = Append(kept, w) /\ file' = file \o segs
  BY <1>3
<1>9. kept \in Seq(KeptItem) /\ file \in Seq(Seq(Frame)) /\ Len(kept) \in Nat
  BY LenProperties DEF FileInv
<1> HIDE DEF w
<1>10. meta \in BOOLEAN /\ (meta <=> Len(kept) + 1 = 1)
  <2>1. meta <=> Len(kept) = 0
    BY <1>9, EmptySeq
  <2>2. Len(kept) = 0 <=> Len(kept) + 1 = 1
    BY <1>9
  <2>3. QED  BY <2>1, <2>2
<1> HIDE DEF meta
<1>11. /\ segs \in Seq(Seq(Frame)) /\ SegsRead(segs)
       /\ SegItems(segs) = (IF meta THEN <<Meta>> ELSE << >>) \o GcItems(gcs) \o SampleItems(samples) \o xs
  BY <1>6, <1>10, SegmentsAll
<1>12. SegItems(segs) = Given(w, Len(kept) + 1)
  BY <1>7, <1>10, <1>11 DEF Given
<1> HIDE DEF segs
<1>13. SegsRead(file) /\ SegItems(file) = GivenAll(kept)
  BY ExactIs DEF FileInv
<1>14. SegsRead(file') /\ file' \in Seq(Seq(Frame)) /\ SegItems(file') = SegItems(file) \o SegItems(segs)
  <2>1. file \o segs \in Seq(Seq(Frame))
    BY <1>9, <1>11, ConcatProperties
  <2>2. SegItems(file \o segs) = SegItems(file) \o SegItems(segs) /\ SegsRead(file \o segs)
    BY <1>9, <1>11, <1>13, SegmentsJoined
  <2>3. QED  BY <1>8, <2>1, <2>2
<1>15. kept' \in Seq(KeptItem) /\ GivenAll(kept') = GivenAll(kept) \o Given(w, Len(kept) + 1)
  <2>1. Append(kept, w) \in Seq(KeptItem)
    BY <1>7, <1>9, AppendProperties
  <2>2. GivenAll(Append(kept, w)) = GivenAll(kept) \o Given(w, Len(kept) + 1)
    BY <1>7, <1>9, GivenGrows
  <2>3. QED  BY <1>8, <2>1, <2>2
<1>16. SegItems(file') = GivenAll(kept')
  BY <1>12, <1>13, <1>14, <1>15
<1>17. SegmentsExact' <=> SegsRead(file') /\ SegItems(file') = GivenAll(kept')
  <2>1. ASSUME NEW f, NEW k
        PROVE  LET reads == [i \in DOMAIN f |-> DecodeSegment(f[i])]
               IN  /\ [i \in DOMAIN f |-> reads[i].items] = [i \in DOMAIN f |-> DecodeSegment(f[i]).items]
                   /\ (\A i \in DOMAIN f : reads[i].dec.ok) <=> SegsRead(f)
    BY DEF SegsRead
  <2>2. QED  BY <2>1 DEF SegmentsExact, SegItems, GivenAll, Given, GcItems, SampleItems, GcItem, SampleItem, Meta
<1>18. QED  BY <1>5, <1>14, <1>15, <1>16, <1>17 DEF FileInv

LEMMA FileAlways == Spec => []FileInv
<1>1. Init => FileInv
  <2>1. SUFFICES ASSUME Init PROVE FileInv
    OBVIOUS
  <2>2. file = << >> /\ kept = << >> /\ sealed = [executions |-> 0, pauses |-> 0]
    <3>1. file = << >>
      BY ONLY <2>1 DEF Init
    <3>2. kept = << >>
      BY ONLY <2>1 DEF Init
    <3>3. sealed = [executions |-> 0, pauses |-> 0]
      BY ONLY <2>1 DEF Init
    <3>4. QED  BY ONLY <3>1, <3>2, <3>3
  <2>3. << >> \in Seq(Seq(Frame)) /\ << >> \in Seq(KeptItem) /\ DOMAIN << >> = {}
    BY EmptySeq
  <2>4. SegsRead(<< >>) /\ SegItems(<< >>) = << >> /\ GivenAll(<< >>) = << >>
    <3>1. /\ [i \in DOMAIN << >> |-> DecodeSegment(<< >>[i]).items] = << >>
          /\ [k \in DOMAIN << >> |-> Given(<< >>[k], k)] = << >>
      BY <2>3
    <3>2. QED  BY <2>3, <3>1, FlattenFew DEF SegsRead, SegItems, GivenAll
  <2>5. SegmentsExact
    BY <2>2, <2>4, ExactIs
  <2>6. QED  BY <2>2, <2>3, <2>5 DEF FileInv
<1>2. WireInv /\ FileInv /\ [Next]_vars => FileInv'
  <2>1. ASSUME FileInv, UNCHANGED <<sealed, file, kept>> PROVE FileInv'
    BY <2>1 DEF FileInv, SegmentsExact
  <2>2. ASSUME WireInv, FileInv, [Next]_vars PROVE FileInv'
    <3>1. CASE Seal
      BY <2>2, <3>1, SealStep
    <3>2. CASE ~Seal
      <4>1. UNCHANGED <<sealed, file, kept>>
        BY <2>2, <3>2 DEF Next, Switch, SkipSwitch, Pause, Receive, vars
      <4>2. QED  BY <2>1, <2>2, <4>1
    <3>3. QED  BY <3>1, <3>2
  <2>3. QED  BY <2>2
<1>3. QED  BY <1>1, <1>2, WireAlways, PTL DEF Spec

\* seal_segment and decode_segment, as db.rs and record.rs use them: each segment of
\* the recording decodes on its own, with a decoder that starts from nothing, and
\* the recording read from end to end is the meta frame and then, flush by flush,
\* the pauses, samples and executions that flush was given, each with its exact time,
\* texts and stack, wherever the segments were cut.
THEOREM SegmentsComeExact == Spec => []SegmentsExact
<1>1. FileInv => SegmentsExact
  BY DEF FileInv
<1>2. QED  BY <1>1, FileAlways, PTL

-----------------------------------------------------------------------------
(* Numbers: the scale of a group, and the bytes of a word. *)

LEMMA ScaleIs ==
  /\ Scale \in [Nat -> Nat \ {0}] /\ Scale[0] = 1
  /\ \A n \in Nat : Scale[n + 1] = Group * Scale[n]
<1> DEFINE D == Nat \ {0}
           a == [n \in Nat |-> 1]
           down == [n \in Nat |-> IF n = 0 THEN 0 ELSE n - 1]
           F == [p \in Nat \X D |-> Group * p[2]]
           Recursion(f) == f = [n \in Nat |-> IF n = 0 THEN 1 ELSE Group * f[n - 1]]
<1>1. Group \in Nat /\ Group > 1
  BY FramingAssumption
<1>2. /\ a \in [Nat -> D] /\ down \in [Nat -> Nat] /\ F \in [Nat \X D -> D]
      /\ \A n \in Nat : n \in {0} \/ down[n] < n
  <2>1. \A x \in D : Group * x \in D
    BY <1>1
  <2>2. QED  BY <2>1
<1>3. /\ \A n \in Nat : a[n] = 1
      /\ \A n \in Nat \ {0} : down[n] = n - 1
      /\ \A n \in Nat, x \in D : F[<<n, x>>] = Group * x
      /\ {0} \in SUBSET Nat
  OBVIOUS
<1> HIDE DEF D, a, down, F
<1>4. PICK f \in [Nat -> D] : Unfolds(f, Nat, {0}, a, down, F)
  BY <1>2, <1>3, RecursionExists
<1>5. ASSUME NEW n \in Nat PROVE f[n] = IF n = 0 THEN 1 ELSE Group * f[n - 1]
  <2>1. f[n] = IF n \in {0} THEN a[n] ELSE F[<<n, f[down[n]]>>]
    BY <1>4 DEF Unfolds
  <2>2. n # 0 => n - 1 \in Nat /\ f[n - 1] \in D /\ down[n] = n - 1
    BY <1>3, <1>4
  <2>3. QED  BY <1>3, <2>1, <2>2
<1>6. Recursion(f)
  BY <1>4, <1>5
<1>7. Recursion(Scale)
  <2> HIDE DEF Recursion
  <2>1. \E g : Recursion(g)
    BY <1>6
  <2>2. Recursion(CHOOSE g : Recursion(g))
    BY <2>1
  <2>3. Scale = CHOOSE g : Recursion(g)
    BY DEF Scale, Recursion
  <2>4. QED  BY <2>2, <2>3
<1>8. Scale = [n \in Nat |-> IF n = 0 THEN 1 ELSE Group * Scale[n - 1]]
  BY <1>7
<1>9. /\ \A n \in Nat : Scale[n] = IF n = 0 THEN 1 ELSE Group * Scale[n - 1]
      /\ DOMAIN Scale = Nat /\ Scale = [n \in Nat |-> Scale[n]]
  BY <1>8
<1>10. ASSUME NEW n \in Nat PROVE Scale[n + 1] = Group * Scale[n]
  BY <1>9
<1>11. ASSUME NEW n \in Nat PROVE \A i \in 0..n : Scale[i] \in D
  <2> DEFINE T == {i \in Nat : Scale[i] \in D}
  <2>1. 0 \in T
    <3>1. Scale[0] = 1 /\ 1 \in D
      BY <1>9 DEF D
    <3>2. QED  BY <3>1
  <2>2. ASSUME NEW i \in 1..n, i - 1 \in T PROVE i \in T
    <3>0. i \in Nat /\ i # 0 /\ Scale[i - 1] \in D
      BY <2>2
    <3>1. Scale[i] = Group * Scale[i - 1]
      BY <1>9, <3>0
    <3>2. Group * Scale[i - 1] \in D
      BY <1>1, <3>0 DEF D
    <3>3. QED  BY <3>0, <3>1, <3>2
  <2>3. \A i \in 0..n : i \in T
    <3> HIDE DEF T
    <3>1. QED  BY <2>1, <2>2, Climb
  <2>4. QED  BY <2>3
<1>12. \A n \in Nat : Scale[n] \in Nat \ {0}
  <2>1. \A n \in Nat : n \in 0..n
    OBVIOUS
  <2>2. QED  BY <1>11, <2>1 DEF D
<1>13. QED  BY <1>9, <1>10, <1>12

LEMMA WordIs == Word \in Nat \ {0} /\ Word = 2 * Scale[FullGroups]
<1>1. FullGroups \in Nat /\ Scale[FullGroups] \in Nat \ {0}
  BY FramingAssumption, ScaleIs
<1>2. QED  BY <1>1 DEF Word

\* Quotient and rest of a number by the size of a group.
LEMMA Divided ==
  ASSUME NEW v \in Nat
  PROVE  /\ v \div Group \in Nat /\ v % Group \in 0..(Group - 1)
         /\ v = Group * (v \div Group) + (v % Group)
         /\ v >= Group => v \div Group < v /\ v \div Group >= 1
         /\ v < Group => v % Group = v /\ v \div Group = 0
<1>1. Group \in Nat /\ Group > 1
  BY FramingAssumption
<1> DEFINE q == v \div Group
           r == v % Group
<1>2. q \in Int /\ r \in 0..(Group - 1) /\ v = Group * q + r
  BY <1>1
<1> HIDE DEF q, r
<1>3. q >= 0
  <2>1. SUFFICES ASSUME q <= -1 PROVE FALSE
    BY <1>2
  <2>2. Group * q <= -Group
    BY <1>1, <1>2, <2>1
  <2>3. QED  BY <1>1, <1>2, <2>2
<1>4. v >= Group => q >= 1
  <2>1. SUFFICES ASSUME v >= Group, q = 0 PROVE FALSE
    BY <1>2, <1>3
  <2>2. v = r
    BY <1>1, <1>2, <2>1
  <2>3. QED  BY <1>1, <1>2, <2>1, <2>2
<1>5. q >= 1 => q < v
  <2>1. SUFFICES ASSUME q >= 1 PROVE q < v
    OBVIOUS
  <2>2. Group * q >= 2 * q
    BY <1>1, <1>2, <2>1
  <2>3. QED  BY <1>1, <1>2, <2>1, <2>2
<1>6. v < Group => q = 0
  <2>1. SUFFICES ASSUME v < Group, q >= 1 PROVE FALSE
    BY <1>2, <1>3
  <2>2. Group * q >= Group
    BY <1>1, <1>2, <2>1
  <2>3. QED  BY <1>1, <1>2, <2>1, <2>2
<1>7. v < Group => r = v
  <2>1. SUFFICES ASSUME v < Group PROVE r = v
    OBVIOUS
  <2>2. q = 0 /\ Group * 0 = 0
    BY <1>1, <1>6, <2>1
  <2>3. v = 0 + r
    BY <1>2, <2>2
  <2>4. QED  BY <1>1, <1>2, <2>3
<1>8. /\ q \in Nat /\ r \in 0..(Group - 1) /\ v = Group * q + r
      /\ v >= Group => q < v /\ q >= 1
      /\ v < Group => r = v /\ q = 0
  BY <1>2, <1>3, <1>4, <1>5, <1>6, <1>7
<1>9. QED  BY ONLY <1>8 DEF q, r

LEMMA VarintIs ==
  /\ WriteVarint \in [Nat -> Seq(Nat)]
  /\ \A v \in Nat : WriteVarint[v] = IF v < Group THEN <<v>>
                                     ELSE <<Group + (v % Group)>> \o WriteVarint[v \div Group]
<1> DEFINE D == Seq(Nat)
           Stop == {v \in Nat : v < Group}
           a == [v \in Nat |-> <<v>>]
           down == [v \in Nat |-> v \div Group]
           F == [p \in Nat \X D |-> <<Group + (p[1] % Group)>> \o p[2]]
           Recursion(f) == f = [v \in Nat |-> IF v < Group THEN <<v>>
                                              ELSE <<Group + (v % Group)>> \o f[v \div Group]]
<1>1. Group \in Nat /\ Group > 1
  BY FramingAssumption
<1>2. /\ a \in [Nat -> D] /\ down \in [Nat -> Nat] /\ F \in [Nat \X D -> D]
      /\ \A v \in Nat : v \in Stop \/ down[v] < v
  <2>1. \A v \in Nat : <<v>> \in D /\ v \div Group \in Nat /\ <<Group + (v % Group)>> \in D
    BY <1>1, Divided
  <2>2. \A s \in D, t \in D : s \o t \in D
    BY ConcatProperties
  <2>3. \A v \in Nat, s \in D : <<Group + (v % Group)>> \o s \in D
    BY <2>1, <2>2
  <2>4. \A v \in Nat : v \in Stop \/ v \div Group < v
    BY <1>1, Divided
  <2>5. a \in [Nat -> D] /\ down \in [Nat -> Nat]
    BY <2>1
  <2>6. F \in [Nat \X D -> D]
    <3> HIDE DEF D
    <3>1. QED  BY <2>3
  <2>7. \A v \in Nat : v \in Stop \/ down[v] < v
    BY <2>4
  <2>8. QED  BY <2>5, <2>6, <2>7
<1>3. /\ \A v \in Nat : a[v] = <<v>> /\ down[v] = v \div Group
      /\ \A v \in Nat, s \in D : F[<<v, s>>] = <<Group + (v % Group)>> \o s
      /\ Stop \in SUBSET Nat /\ \A v \in Nat : v \in Stop <=> v < Group
  OBVIOUS
<1> HIDE DEF D, a, down, F, Stop
<1>4. PICK f \in [Nat -> D] : Unfolds(f, Nat, Stop, a, down, F)
  BY <1>2, <1>3, RecursionExists
<1>5. ASSUME NEW v \in Nat
      PROVE  f[v] = IF v < Group THEN <<v>> ELSE <<Group + (v % Group)>> \o f[v \div Group]
  <2>1. f[v] = IF v \in Stop THEN a[v] ELSE F[<<v, f[down[v]]>>]
    BY <1>4 DEF Unfolds
  <2>2. v \div Group \in Nat /\ f[v \div Group] \in D
    BY <1>4, Divided
  <2>3. QED  BY <1>3, <2>1, <2>2
<1>6. Recursion(f)
  BY <1>4, <1>5
<1>7. Recursion(WriteVarint)
  <2> HIDE DEF Recursion
  <2>1. \E g : Recursion(g)
    BY <1>6
  <2>2. Recursion(CHOOSE g : Recursion(g))
    BY <2>1
  <2>3. WriteVarint = CHOOSE g : Recursion(g)
    BY DEF WriteVarint, Recursion
  <2>4. QED  BY <2>2, <2>3
<1>8. /\ \A v \in Nat : WriteVarint[v] = IF v < Group THEN <<v>>
                                         ELSE <<Group + (v % Group)>> \o WriteVarint[v \div Group]
      /\ DOMAIN WriteVarint = Nat /\ WriteVarint = [v \in Nat |-> WriteVarint[v]]
  BY <1>7
<1>9. \A v \in Nat : WriteVarint[v] \in Seq(Nat)
  <2> DEFINE T == {v \in Nat : WriteVarint[v] \notin Seq(Nat)}
  <2>1. SUFFICES ASSUME T # {} PROVE FALSE
    OBVIOUS
  <2>2. T \in SUBSET Nat
    OBVIOUS
  <2>3. PICK v \in T : \A u \in T : v <= u
    <3> HIDE DEF T
    <3>1. QED  BY <2>1, <2>2, LeastOf
  <2>4. v \in Nat /\ WriteVarint[v] \notin Seq(Nat)
    BY <2>3
  <2>5. CASE v < Group
    <3>1. WriteVarint[v] = <<v>>
      BY <1>8, <2>4, <2>5
    <3>2. <<v>> \in Seq(Nat)
      BY <2>4
    <3>3. QED  BY <2>4, <3>1, <3>2
  <2>6. CASE v >= Group
    <3>1. v \div Group \in Nat /\ v \div Group < v
      BY <2>4, <2>6, Divided
    <3>2. WriteVarint[v \div Group] \in Seq(Nat)
      <4> DEFINE u == v \div Group
      <4>1. u \in Nat /\ ~(v <= u)
        BY <2>4, <3>1
      <4> HIDE DEF u
      <4>2. WriteVarint[u] \in Seq(Nat)
        BY <2>3, <4>1
      <4>3. QED  BY <4>2 DEF u
    <3>3. Group + (v % Group) \in Nat
      BY <1>1, <2>4, Divided
    <3>4. <<Group + (v % Group)>> \o WriteVarint[v \div Group] \in Seq(Nat)
      <4> DEFINE s == <<Group + (v % Group)>>
                 t == WriteVarint[v \div Group]
      <4>1. s \in Seq(Nat) /\ t \in Seq(Nat)
        BY <3>2, <3>3
      <4> HIDE DEF s, t
      <4>2. s \o t \in Seq(Nat)
        BY <4>1, ConcatProperties
      <4>3. QED  BY <4>2 DEF s, t
    <3>5. WriteVarint[v] = <<Group + (v % Group)>> \o WriteVarint[v \div Group]
      <4>1. ~(v < Group)
        BY <1>1, <2>4, <2>6
      <4>2. QED  BY <1>8, <2>4, <4>1
    <3>6. QED  BY <2>4, <3>4, <3>5
  <2>7. QED  BY <1>1, <2>4, <2>5, <2>6
<1>10. QED  BY <1>8, <1>9

-----------------------------------------------------------------------------
(* Reading a number, byte by byte. *)

Nums == [kind : {"more", "value", "overlong"}, value : Nat, bytes : Nat]
NoBytes == Number("more", 0, 0)

LEMMA TakeByteIs ==
  ASSUME NEW num \in Nums, NEW byte \in Nat
  PROVE  /\ TakeByte(num, byte) \in Nums
         /\ num.kind # "more" => TakeByte(num, byte) = num
         /\ num.kind = "more" =>
              IF IsOverlong(num.bytes, byte % Group)
              THEN TakeByte(num, byte) = Number("overlong", 0, num.bytes)
              ELSE TakeByte(num, byte) =
                     Number(IF byte < Group THEN "value" ELSE "more",
                            (num.value + (byte % Group) * Scale[num.bytes]) % Word, num.bytes + 1)
<1>1. num.bytes \in Nat /\ num.value \in Nat /\ num.kind \in {"more", "value", "overlong"}
  BY DEF Nums
<1>2. byte % Group \in Nat /\ Scale[num.bytes] \in Nat /\ Word \in Nat \ {0}
  <2>1. Group \in Nat /\ byte % Group \in 0..(Group - 1)
    BY Divided, FramingAssumption
  <2>2. Scale[num.bytes] \in Nat
    BY <1>1, ScaleIs
  <2>3. QED  BY <2>1, <2>2, WordIs
<1> DEFINE payload == byte % Group
           value == (num.value + payload * Scale[num.bytes]) % Word
<1>3. value \in Nat
  <2> DEFINE x == payload * Scale[num.bytes]
  <2>1. x \in Nat
    BY <1>2
  <2> HIDE DEF x
  <2>2. (num.value + x) % Word \in Nat
    BY <1>1, <1>2, <2>1
  <2>3. QED  BY <2>2 DEF x
<1>4. TakeByte(num, byte) =
        IF num.kind # "more" THEN num
        ELSE IF IsOverlong(num.bytes, payload) THEN Number("overlong", 0, num.bytes)
        ELSE Number(IF byte < Group THEN "value" ELSE "more", value, num.bytes + 1)
  BY DEF TakeByte
<1> HIDE DEF payload, value
<1>5. CASE num.kind # "more"
  BY <1>4, <1>5
<1>6. CASE num.kind = "more" /\ IsOverlong(num.bytes, payload)
  <2>1. TakeByte(num, byte) = Number("overlong", 0, num.bytes)
    BY <1>4, <1>6
  <2>2. QED  BY <1>1, <1>6, <2>1 DEF Number, Nums, payload
<1>7. CASE num.kind = "more" /\ ~IsOverlong(num.bytes, payload)
  <2>1. TakeByte(num, byte) = Number(IF byte < Group THEN "value" ELSE "more", value, num.bytes + 1)
    BY <1>4, <1>7
  <2>2. Number(IF byte < Group THEN "value" ELSE "more", value, num.bytes + 1) \in Nums
    BY <1>1, <1>3 DEF Number, Nums
  <2>3. QED  BY <1>7, <2>1, <2>2 DEF payload, value
<1>8. QED  BY <1>5, <1>6, <1>7

Peeks(g, bytes) ==
  /\ g[0] = NoBytes
  /\ \A i \in 1..Len(bytes) : g[i] = TakeByte(g[i - 1], bytes[i])

LEMMA PeekFold ==
  ASSUME NEW s \in Seq(Nat)
  PROVE  \E g \in [0..Len(s) -> Nums] : Peeks(g, s) /\ PeekVarint(s) = g[Len(s)]
<1> DEFINE N == Len(s)
           a == NoBytes
           F == [p \in Nums \X (1..N) |-> TakeByte(p[1], s[p[2]])]
           Recursion(h) ==
             h = [T \in SUBSET (DOMAIN s) |->
                    IF T = {} THEN a ELSE TakeByte(h[T \ {Max(T)}], s[Max(T)])]
           iter == CHOOSE h : Recursion(h)
<1>0. a \in Nums
  BY DEF NoBytes, Number, Nums
<1>1. N \in Nat /\ DOMAIN s = 1..N /\ \A i \in 1..N : s[i] \in Nat
  BY LenProperties, ElementOfSeq
<1>2. F \in [Nums \X (1..N) -> Nums]
  BY <1>1, TakeByteIs
<1>3. \A x \in Nums, m \in 1..N : F[<<x, m>>] = TakeByte(x, s[m])
  OBVIOUS
<1> HIDE DEF F
<1>4. PICK h \in [SUBSET (1..N) -> Nums] : FoldsBy(h, a, F, N)
  BY <1>0, <1>1, <1>2, FoldExists
<1>5. ASSUME NEW T \in SUBSET (1..N)
      PROVE  h[T] = IF T = {} THEN a ELSE TakeByte(h[T \ {Max(T)}], s[Max(T)])
  <2>1. h[T] = IF T = {} THEN a ELSE F[<<h[T \ {Max(T)}], Max(T)>>]
    BY <1>4 DEF FoldsBy
  <2>2. T # {} => Max(T) \in 1..N /\ h[T \ {Max(T)}] \in Nums
    BY <1>1, MaxIs
  <2>3. QED  BY <1>3, <2>1, <2>2
<1>6. Recursion(iter)
  <2>1. Recursion(h)
    BY <1>1, <1>5
  <2> HIDE DEF Recursion
  <2>2. QED  BY <2>1
<1>7. PeekVarint(s) = iter[1..N]
  BY <1>1 DEF PeekVarint, NoBytes, FoldLeft, MapThenFoldSet
<1> HIDE DEF iter, a
<1>8. \A T \in SUBSET (1..N) :
        iter[T] = IF T = {} THEN a ELSE TakeByte(iter[T \ {Max(T)}], s[Max(T)])
  BY <1>1, <1>6
<1>9. Recurs(iter, Nums, a, F, N)
  <2>1. iter[{}] = a
    BY <1>8
  <2>2. \A T \in SUBSET (1..N) : (T # {} /\ iter[T \ {Max(T)}] \in Nums) =>
          iter[T] = F[<<iter[T \ {Max(T)}], Max(T)>>]
    BY <1>1, <1>3, <1>8, MaxIs
  <2>3. QED  BY <2>1, <2>2 DEF Recurs
<1>10. \E g \in [0..N -> Nums] : Passes(g, iter, a, F, N)
  <2>1. N \in Nat
    BY <1>1
  <2> HIDE DEF N
  <2>2. QED  BY <1>0, <1>2, <1>9, <2>1, FoldSteps
<1>11. PICK g \in [0..N -> Nums] :
         g[0] = a /\ (\A i \in 1..N : g[i] = F[<<g[i - 1], i>>]) /\ iter[1..N] = g[N]
  BY <1>10 DEF Passes
<1>12. \A i \in 1..N : g[i] = TakeByte(g[i - 1], s[i])
  <2>1. \A i \in 1..N : i - 1 \in 0..N
    BY <1>1
  <2>2. QED  BY <1>3, <1>11, <2>1
<1>13. QED  BY <1>7, <1>11, <1>12 DEF Peeks, a

\* What a reader has seen of a number after i bytes.
LEMMA PeekSoFar ==
  ASSUME NEW s \in Seq(Nat), NEW g \in [0..Len(s) -> Nums], Peeks(g, s)
  PROVE  \A i \in 0..Len(s) : /\ g[i].kind = "more" => g[i].bytes = i /\ i <= FullGroups + 1
                              /\ g[i].kind = "value" => g[i].bytes \in 1..i /\ g[i].bytes <= FullGroups + 1
<1> DEFINE T == {i \in 0..Len(s) : /\ g[i].kind = "more" => g[i].bytes = i /\ i <= FullGroups + 1
                                   /\ g[i].kind = "value" => g[i].bytes \in 1..i /\ g[i].bytes <= FullGroups + 1}
<1>1. Len(s) \in Nat /\ FullGroups \in Nat /\ \A i \in 1..Len(s) : s[i] \in Nat
  BY LenProperties, ElementOfSeq, FramingAssumption
<1>2. 0 \in T
  BY <1>1 DEF Peeks, NoBytes, Number
<1>3. ASSUME NEW i \in 1..Len(s), i - 1 \in T PROVE i \in T
  <2>0. i \in 0..Len(s) /\ i - 1 \in 0..Len(s) /\ s[i] \in Nat
    BY <1>1
  <2>1. /\ i \in 0..Len(s) /\ i - 1 \in 0..Len(s) /\ g[i - 1] \in Nums /\ s[i] \in Nat
        /\ g[i] = TakeByte(g[i - 1], s[i])
    BY <2>0 DEF Peeks
  <2>2. /\ g[i - 1].kind = "more" => g[i - 1].bytes = i - 1 /\ i - 1 <= FullGroups + 1
        /\ g[i - 1].kind = "value" => g[i - 1].bytes \in 1..(i - 1) /\ g[i - 1].bytes <= FullGroups + 1
    BY <1>3
  <2>3. CASE g[i - 1].kind # "more"
    <3>1. g[i] = g[i - 1]
      BY <2>1, <2>3, TakeByteIs
    <3>2. QED  BY <2>1, <2>2, <2>3, <3>1
  <2>4. CASE g[i - 1].kind = "more" /\ IsOverlong(g[i - 1].bytes, s[i] % Group)
    <3>1. g[i] = Number("overlong", 0, g[i - 1].bytes)
      BY <2>1, <2>4, TakeByteIs
    <3>2. QED  BY <2>1, <3>1 DEF Number
  <2>5. CASE g[i - 1].kind = "more" /\ ~IsOverlong(g[i - 1].bytes, s[i] % Group)
    <3>1. g[i].bytes = g[i - 1].bytes + 1
      BY <2>1, <2>5, TakeByteIs DEF Number
    <3>2. g[i - 1].bytes <= FullGroups
      BY <1>1, <2>2, <2>5 DEF IsOverlong
    <3>3. g[i].bytes = i /\ i <= FullGroups + 1
      BY <1>1, <2>2, <2>5, <3>1, <3>2
    <3>4. QED  BY <2>1, <3>3
  <2>6. QED  BY <2>3, <2>4, <2>5
<1>4. \A i \in 0..Len(s) : i \in T
  <2> HIDE DEF T
  <2>1. QED  BY <1>1, <1>2, <1>3, Climb
<1>5. QED  BY <1>4

LEMMA PeekIs ==
  ASSUME NEW s \in Seq(Nat)
  PROVE  /\ PeekVarint(s) \in Nums
         /\ PeekVarint(s).kind = "more" => Len(s) <= FullGroups + 1
         /\ PeekVarint(s).kind = "value" =>
              PeekVarint(s).bytes \in 1..Len(s) /\ PeekVarint(s).bytes <= FullGroups + 1
<1>1. PICK g \in [0..Len(s) -> Nums] : Peeks(g, s) /\ PeekVarint(s) = g[Len(s)]
  BY PeekFold
<1>2. Len(s) \in 0..Len(s)
  BY LenProperties
<1>3. g[Len(s)] \in Nums
  BY <1>2
<1>4. /\ g[Len(s)].kind = "more" => Len(s) <= FullGroups + 1
      /\ g[Len(s)].kind = "value" =>
           g[Len(s)].bytes \in 1..Len(s) /\ g[Len(s)].bytes <= FullGroups + 1
  BY <1>1, <1>2, PeekSoFar
<1>5. QED  BY <1>1, <1>3, <1>4

\* A number that is read, or refused, is so whatever follows it.
LEMMA PeekGrows ==
  ASSUME NEW s \in Seq(Nat), NEW t \in Seq(Nat), PeekVarint(s).kind # "more"
  PROVE  PeekVarint(s \o t) = PeekVarint(s)
<1> DEFINE u == s \o t
           L == Len(s)
           M == Len(u)
<1>1. /\ u \in Seq(Nat) /\ L \in Nat /\ M \in Nat /\ L <= M
      /\ (\A i \in 1..L : u[i] = s[i]) /\ \A i \in 1..M : u[i] \in Nat
  <2>1. u \in Seq(Nat) /\ Len(u) = Len(s) + Len(t) /\ \A i \in 1..Len(s) : u[i] = s[i]
    BY ConcatProperties, LenProperties
  <2>2. Len(s) \in Nat /\ Len(t) \in Nat
    BY LenProperties
  <2> HIDE DEF u
  <2>3. QED  BY <2>1, <2>2, ElementOfSeq
<1> HIDE DEF u
<1>2. PICK g \in [0..L -> Nums] : Peeks(g, s) /\ PeekVarint(s) = g[L]
  BY PeekFold
<1>3. PICK h \in [0..M -> Nums] : Peeks(h, u) /\ PeekVarint(u) = h[M]
  BY <1>1, PeekFold
<1> HIDE DEF L, M
<1>4. \A i \in 0..L : h[i] = g[i]
  <2> DEFINE T == {i \in 0..L : h[i] = g[i]}
  <2>1. 0 \in T
    BY <1>1, <1>2, <1>3 DEF Peeks
  <2>2. ASSUME NEW i \in 1..L, i - 1 \in T PROVE i \in T
    <3>1. i \in 1..M /\ i \in 0..L /\ h[i - 1] = g[i - 1] /\ u[i] = s[i]
      BY <1>1, <2>2
    <3>2. g[i] = TakeByte(g[i - 1], s[i]) /\ h[i] = TakeByte(h[i - 1], u[i])
      BY <1>2, <1>3, <3>1 DEF Peeks, L, M
    <3>3. QED  BY <3>1, <3>2
  <2>3. \A i \in 0..L : i \in T
    <3> HIDE DEF T
    <3>1. QED  BY <1>1, <2>1, <2>2, Climb
  <2>4. QED  BY <2>3
<1>5. \A j \in 0..(M - L) : h[L + j] = g[L]
  <2> DEFINE T == {j \in 0..(M - L) : h[L + j] = g[L]}
  <2>1. 0 \in T
    BY <1>1, <1>4
  <2>2. ASSUME NEW j \in 1..(M - L), j - 1 \in T PROVE j \in T
    <3>1. /\ L + j \in 1..M /\ L + (j - 1) \in 0..M /\ (L + j) - 1 = L + (j - 1)
          /\ h[L + (j - 1)] = g[L] /\ j \in 0..(M - L)
      BY <1>1, <2>2
    <3>2. h[L + j] = TakeByte(h[(L + j) - 1], u[L + j]) /\ u[L + j] \in Nat
      BY <1>1, <1>3, <3>1 DEF Peeks, M
    <3>3. g[L] \in Nums /\ g[L].kind # "more"
      BY <1>1, <1>2
    <3>4. TakeByte(g[L], u[L + j]) = g[L]
      BY <3>2, <3>3, TakeByteIs
    <3>5. QED  BY <3>1, <3>2, <3>4
  <2>3. \A j \in 0..(M - L) : j \in T
    <3> HIDE DEF T
    <3>1. M - L \in Nat
      BY <1>1
    <3>2. QED  BY <2>1, <2>2, <3>1, Climb
  <2>4. QED  BY <2>3
<1>6. h[M] = g[L]
  <2>1. M - L \in 0..(M - L) /\ L + (M - L) = M
    BY <1>1
  <2>2. QED  BY <1>5, <2>1
<1>7. QED  BY <1>2, <1>3, <1>6 DEF u

-----------------------------------------------------------------------------
(* Numbers come back, and one that does not fit a word is refused. *)

\* The rest of a division is the only one there is.
LEMMA RestIs ==
  ASSUME NEW b \in Nat \ {0}, NEW q \in Int, NEW r \in 0..(b - 1), NEW a, a = b * q + r
  PROVE  a % b = r
<1> DEFINE d == a \div b
           m == a % b
<1>1. a \in Int /\ b * q \in Int
  OBVIOUS
<1>2. d \in Int /\ m \in 0..(b - 1) /\ a = b * d + m
  BY <1>1
<1> HIDE DEF d, m
<1>3. b * (d - q) = r - m
  BY <1>2
<1>4. d - q <= 0
  <2>1. SUFFICES ASSUME d - q >= 1 PROVE FALSE
    BY <1>2
  <2>2. b * (d - q) >= b
    BY <1>2, <2>1
  <2>3. QED  BY <1>2, <1>3, <2>2
<1>5. d - q >= 0
  <2>1. SUFFICES ASSUME q - d >= 1 PROVE FALSE
    BY <1>2
  <2>2. b * (q - d) >= b
    BY <1>2, <2>1
  <2>3. b * (d - q) = -(b * (q - d))
    BY <1>2
  <2>4. QED  BY <1>2, <1>3, <2>2, <2>3
<1>6. d - q = 0
  BY <1>2, <1>4, <1>5
<1>7. r - m = b * 0
  BY <1>3, <1>6
<1>8. m = r
  BY <1>2, <1>7
<1>9. QED  BY <1>8 DEF m

LEMMA GroupIs == Group \in Nat /\ Group > 1 /\ FullGroups \in Nat /\ Scale[FullGroups] \in Nat \ {0}
BY FramingAssumption, ScaleIs

LEMMA PayloadIs ==
  ASSUME NEW v \in Nat
  PROVE  v % Group \in Nat /\ v % Group < Group
<1> DEFINE r == v % Group
<1>1. r \in 0..(Group - 1) /\ Group \in Nat
  BY Divided, GroupIs
<1> HIDE DEF r
<1>2. r \in Nat /\ r < Group
  BY <1>1
<1>3. QED  BY <1>2 DEF r

\* A byte is a group, or a group with the mark that more follow.
LEMMA Payload ==
  ASSUME NEW x \in 0..(Group - 1)
  PROVE  x % Group = x /\ (Group + x) % Group = x
<1>1. Group \in Nat \ {0} /\ Group > 1 /\ x \in Nat
  BY GroupIs
<1>2. x = Group * 0 + x /\ Group + x = Group * 1 + x
  BY <1>1
<1>3. x % Group = x
  BY <1>1, <1>2, RestIs
<1>4. (Group + x) % Group = x
  BY <1>1, <1>2, RestIs
<1>5. QED  BY <1>3, <1>4

LEMMA WithinWord ==
  ASSUME NEW x \in 0..(Word - 1)
  PROVE  x % Word = x
<1>1. Word \in Nat \ {0} /\ x \in Nat /\ x = Word * 0 + x
  BY WordIs
<1>2. QED  BY <1>1, RestIs

LEMMA ScaleGrows ==
  ASSUME NEW n \in Nat, NEW m \in Nat, m <= n
  PROVE  Scale[m] <= Scale[n]
<1> DEFINE T == {j \in 0..(n - m) : Scale[m] <= Scale[m + j]}
<1>1. Scale[m] \in Nat /\ n - m \in Nat
  BY ScaleIs
<1>2. 0 \in T
  BY <1>1
<1>3. ASSUME NEW j \in 1..(n - m), j - 1 \in T PROVE j \in T
  <2> DEFINE i == m + (j - 1)
  <2>1. i \in Nat /\ i + 1 = m + j /\ Scale[m] <= Scale[i]
    BY <1>3
  <2> HIDE DEF i
  <2>2. Scale[i + 1] = Group * Scale[i] /\ Scale[i] \in Nat
    BY <2>1, ScaleIs
  <2>3. Group * Scale[i] >= Scale[i]
    BY <2>2, GroupIs
  <2>4. Scale[i + 1] \in Nat
    BY <2>1, ScaleIs
  <2>5. Scale[m] <= Scale[m + j]
    BY <1>1, <2>1, <2>2, <2>3, <2>4
  <2>6. QED  BY <1>1, <2>5
<1>4. \A j \in 0..(n - m) : j \in T
  <2> HIDE DEF T
  <2>1. QED  BY <1>1, <1>2, <1>3, Climb
<1>5. n - m \in 0..(n - m) /\ m + (n - m) = n
  BY <1>1
<1>6. QED  BY <1>4, <1>5

\* The values a number still has before each of the bytes it is written in.
Digits(v, w, q) ==
  LET L == Len(w)
  IN  /\ L \in Nat \ {0} /\ q \in [1..L -> Nat] /\ q[1] = v
      /\ \A i \in 1..(L - 1) : q[i] >= Group /\ w[i] = Group + (q[i] % Group) /\ q[i + 1] = q[i] \div Group
      /\ q[L] < Group /\ w[L] = q[L]

LEMMA DigitsExist ==
  ASSUME NEW v \in Nat
  PROVE  \E q : Digits(v, WriteVarint[v], q)
<1> DEFINE bad == {u \in Nat : ~\E q : Digits(u, WriteVarint[u], q)}
<1>1. SUFFICES ASSUME bad # {} PROVE FALSE
  OBVIOUS
<1>2. PICK u \in bad : \A j \in bad : u <= j
  <2>1. bad \in SUBSET Nat
    OBVIOUS
  <2> HIDE DEF bad
  <2>2. QED  BY <1>1, <2>1, LeastOf
<1>3. u \in Nat /\ WriteVarint[u] \in Seq(Nat)
  BY <1>2, VarintIs
<1>4. CASE u < Group
  <2>1. WriteVarint[u] = <<u>>
    BY <1>3, <1>4, VarintIs
  <2> DEFINE q == [i \in 1..1 |-> u]
  <2>2. /\ Len(<<u>>) = 1 /\ <<u>>[1] = u /\ q \in [1..1 -> Nat] /\ q[1] = u
        /\ \A i \in 1..(1 - 1) : FALSE
    BY <1>3
  <2> HIDE DEF q
  <2>3. Digits(u, <<u>>, q)
    BY <1>4, <2>2 DEF Digits
  <2>4. QED  BY <1>2, <2>1, <2>3
<1>5. CASE u >= Group
  <2> DEFINE d == u \div Group
             b == Group + (u % Group)
             w == WriteVarint[d]
  <2>1. d \in Nat /\ d < u /\ b \in Nat
    <3>1. d \in Nat /\ u % Group \in 0..(Group - 1) /\ (u >= Group => d < u)
      BY <1>3, Divided
    <3>2. u % Group \in Nat
      BY <3>1, GroupIs
    <3>3. b \in Nat
      BY <3>2, GroupIs
    <3>4. QED  BY <1>5, <3>1, <3>3
  <2>2. WriteVarint[u] = <<b>> \o w
    <3>1. ~(u < Group)
      BY <1>3, <1>5, GroupIs
    <3>2. QED  BY <1>3, <3>1, VarintIs
  <2>3. w \in Seq(Nat)
    BY <2>1, VarintIs
  <2>4. PICK q : Digits(d, w, q)
    <3>1. d \in Nat /\ ~(u <= d)
      BY <1>3, <2>1
    <3> HIDE DEF d
    <3>2. d \notin bad
      BY <1>2, <3>1
    <3>3. QED  BY <3>1, <3>2
  <2> DEFINE L == Len(w)
             W == <<b>> \o w
             p == [i \in 1..(L + 1) |-> IF i = 1 THEN u ELSE q[i - 1]]
  <2>5. /\ L \in Nat \ {0} /\ q \in [1..L -> Nat] /\ q[1] = d
        /\ \A i \in 1..(L - 1) : q[i] >= Group /\ w[i] = Group + (q[i] % Group) /\ q[i + 1] = q[i] \div Group
        /\ q[L] < Group /\ w[L] = q[L]
    BY <2>4 DEF Digits
  <2>6. /\ Len(W) = L + 1 /\ W[1] = b
        /\ \A i \in 2..(L + 1) : W[i] = w[i - 1]
    <3>1. <<b>> \in Seq(Nat) /\ Len(<<b>>) = 1 /\ <<b>>[1] = b
      BY <2>1
    <3> HIDE DEF b, w
    <3>2. QED  BY <2>3, <2>5, <3>1, ConcatProperties
  <2>7. /\ p \in [1..(L + 1) -> Nat] /\ p[1] = u
        /\ \A i \in 2..(L + 1) : p[i] = q[i - 1]
    <3>1. \A i \in 2..(L + 1) : i - 1 \in 1..L
      BY <2>5
    <3> HIDE DEF d, b, w, L
    <3>2. QED  BY <1>3, <2>5, <3>1
  <2>8. p[1] >= Group /\ W[1] = Group + (p[1] % Group) /\ p[1 + 1] = p[1] \div Group
    <3>1. p[1 + 1] = q[1] /\ q[1] = d
      BY <2>5, <2>7
    <3>2. QED  BY <1>5, <2>6, <2>7, <3>1
  <2> HIDE DEF d, b, w, W, p, L
  <2>9. ASSUME NEW i \in 1..L
        PROVE  p[i] >= Group /\ W[i] = Group + (p[i] % Group) /\ p[i + 1] = p[i] \div Group
    <3>1. CASE i = 1
      BY <2>8, <3>1
    <3>2. CASE i # 1
      <4>1. i - 1 \in 1..(L - 1) /\ i \in 2..(L + 1) /\ i + 1 \in 2..(L + 1) /\ (i + 1) - 1 = (i - 1) + 1
        BY <2>5, <3>2
      <4>2. p[i] = q[i - 1] /\ W[i] = w[i - 1] /\ p[i + 1] = q[(i - 1) + 1]
        BY <2>6, <2>7, <4>1
      <4>3. QED  BY <2>5, <4>1, <4>2
    <3>3. QED  BY <3>1, <3>2
  <2>10. p[L + 1] < Group /\ W[L + 1] = p[L + 1]
    <3>1. L + 1 \in 2..(L + 1) /\ (L + 1) - 1 = L
      BY <2>5
    <3>2. QED  BY <2>5, <2>6, <2>7, <3>1
  <2>11. Digits(u, W, p)
    <3>1. (L + 1) - 1 = L /\ L + 1 \in Nat \ {0}
      BY <2>5
    <3>2. QED  BY <2>6, <2>7, <2>9, <2>10, <3>1 DEF Digits
  <2>12. WriteVarint[u] = W
    BY <2>2 DEF W
  <2>13. QED  BY <1>2, <2>11, <2>12
<1>6. QED  BY <1>3, <1>4, <1>5, GroupIs

\* What is read of the beginning of some bytes.
LEMMA PeekPrefix ==
  ASSUME NEW s \in Seq(Nat), NEW g \in [0..Len(s) -> Nums], Peeks(g, s), NEW k \in 0..Len(s)
  PROVE  Take(s, k) \in Seq(Nat) /\ PeekVarint(Take(s, k)) = g[k]
<1> DEFINE u == Take(s, k)
           L == Len(s)
<1>1. L \in Nat /\ k \in Nat /\ k <= L /\ \A i \in 1..L : s[i] \in Nat
  BY LenProperties, ElementOfSeq
<1>2. u \in Seq(Nat) /\ Len(u) = k /\ \A i \in 1..k : u[i] = s[i]
  <2>1. \A i \in 1..k : s[i] \in Nat
    BY <1>1
  <2>2. u \in Seq(Nat) /\ Len(u) = IF 1 <= k THEN k - 1 + 1 ELSE 0
    BY <1>1, <2>1, SubSeqProperties DEF Take
  <2>3. \A i \in 1..k : u[i] = s[i]
    BY <1>1, <2>1, SubSeqProperties DEF Take
  <2> HIDE DEF u, L
  <2>4. QED  BY <1>1, <2>2, <2>3
<1> HIDE DEF u
<1>3. PICK h \in [0..k -> Nums] : Peeks(h, u) /\ PeekVarint(u) = h[k]
  BY <1>2, PeekFold
<1> DEFINE T == {i \in 0..k : h[i] = g[i]}
<1>4. 0 \in T
  BY <1>1, <1>3 DEF Peeks
<1>5. ASSUME NEW i \in 1..k, i - 1 \in T PROVE i \in T
  <2>1. i \in 1..L /\ i \in 0..k /\ h[i - 1] = g[i - 1] /\ u[i] = s[i]
    BY <1>1, <1>2, <1>5
  <2>2. g[i] = TakeByte(g[i - 1], s[i]) /\ h[i] = TakeByte(h[i - 1], u[i])
    BY <1>2, <1>3, <2>1 DEF Peeks
  <2>3. QED  BY <2>1, <2>2
<1>6. \A i \in 0..k : i \in T
  <2> HIDE DEF T
  <2>1. QED  BY <1>1, <1>4, <1>5, Climb
<1>7. h[k] = g[k]
  BY <1>1, <1>6
<1>8. QED  BY <1>2, <1>3, <1>7 DEF u

\* One more group, of a number that still fits.
LEMMA TakesGroup ==
  ASSUME NEW i \in 0..FullGroups, NEW x \in Nat, NEW byte \in Nat, NEW payload \in Nat,
         payload = byte % Group, x + payload * Scale[i] < Word
  PROVE  TakeByte(Number("more", x, i), byte) =
           Number(IF byte < Group THEN "value" ELSE "more", x + payload * Scale[i], i + 1)
<1>1. i \in Nat /\ FullGroups \in Nat /\ Scale[i] \in Nat \ {0} /\ Word \in Nat
  BY GroupIs, ScaleIs, WordIs
<1>2. ~IsOverlong(i, payload)
  <2>1. SUFFICES ASSUME i = FullGroups, payload > 1 PROVE FALSE
    BY <1>1 DEF IsOverlong
  <2>2. payload * Scale[i] >= 2 * Scale[i]
    BY <1>1, <2>1
  <2>3. Word = 2 * Scale[i]
    BY <2>1, WordIs
  <2> DEFINE y == payload * Scale[i]
  <2>4. y \in Nat /\ y >= Word /\ x + y < Word
    BY <1>1, <2>2, <2>3
  <2> HIDE DEF y
  <2>5. QED  BY <1>1, <2>4
<1> DEFINE z == x + payload * Scale[i]
<1>3. z \in Nat /\ z \in 0..(Word - 1)
  <2> DEFINE y == payload * Scale[i]
  <2>1. y \in Nat /\ x + y < Word
    BY <1>1
  <2> HIDE DEF y
  <2>2. x + y \in Nat /\ x + y \in 0..(Word - 1)
    BY <1>1, <2>1
  <2>3. QED  BY <2>2 DEF y
<1>4. z % Word = z
  <2> HIDE DEF z
  <2>1. QED  BY <1>3, WithinWord
<1>5. Number("more", x, i) \in Nums /\ Number("more", x, i).kind = "more"
      /\ Number("more", x, i).bytes = i /\ Number("more", x, i).value = x
  BY <1>1 DEF Number, Nums
<1> DEFINE num == Number("more", x, i)
<1> HIDE DEF num
<1>6. num \in Nums /\ num.kind = "more" /\ num.bytes = i /\ num.value = x
  BY <1>5 DEF num
<1>7. TakeByte(num, byte) =
        Number(IF byte < Group THEN "value" ELSE "more",
               (num.value + (byte % Group) * Scale[num.bytes]) % Word, num.bytes + 1)
  <2>1. ~IsOverlong(num.bytes, byte % Group)
    BY <1>2, <1>6
  <2>2. QED  BY <1>6, <2>1, TakeByteIs
<1>8. (num.value + (byte % Group) * Scale[num.bytes]) = z
  BY <1>6
<1> HIDE DEF z
<1>9. TakeByte(num, byte) = Number(IF byte < Group THEN "value" ELSE "more", z, i + 1)
  BY <1>4, <1>6, <1>7, <1>8
<1>10. QED  BY <1>9 DEF num, z

\* Every word goes out and comes back, and no leading part of it is a number.
LEMMA WordsReadBack ==
  ASSUME NEW v \in 0..(Word - 1)
  PROVE  WordsComeBack(v)
<1> DEFINE w == WriteVarint[v]
           L == Len(w)
<1>1. v \in Nat /\ Word \in Nat /\ v < Word /\ w \in Seq(Nat)
  <2>1. v \in Nat /\ Word \in Nat /\ v < Word
    BY WordIs
  <2>2. QED  BY <2>1, VarintIs
<1>2. PICK q : Digits(v, w, q)
  BY <1>1, DigitsExist
<1> HIDE DEF w
<1>3. /\ L \in Nat \ {0} /\ q \in [1..L -> Nat] /\ q[1] = v
      /\ \A i \in 1..(L - 1) : q[i] >= Group /\ w[i] = Group + (q[i] % Group) /\ q[i + 1] = q[i] \div Group
      /\ q[L] < Group /\ w[L] = q[L]
  BY <1>2 DEF Digits
<1>4. PICK g \in [0..L -> Nums] : Peeks(g, w) /\ PeekVarint(w) = g[L]
  BY <1>1, PeekFold
<1>4a. g[0] = NoBytes /\ \A i \in 1..L : g[i] = TakeByte(g[i - 1], w[i])
  BY <1>4 DEF Peeks
<1>4b. PICK Z \in [1..L -> Nat] : \A i \in 1..L : Z[i] = Scale[i - 1]
  <2>1. \A i \in 1..L : i - 1 \in Nat
    BY <1>3
  <2>2. \A i \in 1..L : Scale[i - 1] \in Nat
    BY <2>1, ScaleIs
  <2>3. [i \in 1..L |-> Scale[i - 1]] \in [1..L -> Nat]
    BY <2>2
  <2>4. QED  BY <2>3
<1> HIDE DEF L
\* Before byte i: some of v has been read, and the rest is q[i] times its scale.
<1> DEFINE Half(i) == \E x \in Nat : /\ g[i - 1] = Number("more", x, i - 1)
                                     /\ x + q[i] * Scale[i - 1] = v
                                     /\ i > 1 => q[i] >= 1
           T == {j \in 0..(L - 1) : Half(j + 1)}
<1>5. ASSUME NEW i \in 1..L, NEW x \in Nat, x + q[i] * Scale[i - 1] = v, i > 1 => q[i] >= 1
      PROVE  /\ i - 1 \in 0..FullGroups
             /\ i - 1 = FullGroups => q[i] <= 1
  <2>0. i - 1 \in Nat /\ q[i] \in Nat /\ Scale[i - 1] \in Nat \ {0} /\ FullGroups \in Nat
    <3>1. i - 1 \in Nat /\ q[i] \in Nat
      BY <1>3
    <3>2. QED  BY <3>1, ScaleIs, GroupIs
  <2> DEFINE y == q[i] * Scale[i - 1]
  <2>1. y \in Nat /\ y < Word
    <3>1. y \in Nat /\ x + y = v
      BY <1>5, <2>0
    <3> HIDE DEF y
    <3>2. QED  BY <1>1, <3>1
  <2>2. i - 1 <= FullGroups
    <3>1. SUFFICES ASSUME FullGroups + 1 <= i - 1 PROVE FALSE
      BY <2>0
    <3>2. Scale[FullGroups + 1] <= Scale[i - 1] /\ Scale[FullGroups + 1] = Group * Scale[FullGroups]
      <4>1. FullGroups + 1 \in Nat /\ i - 1 \in Nat
        BY <2>0
      <4>2. Scale[FullGroups + 1] = Group * Scale[FullGroups]
        BY <2>0, ScaleIs
      <4> DEFINE m == FullGroups + 1
                 n == i - 1
      <4>3. m \in Nat /\ n \in Nat /\ m <= n
        BY <3>1, <4>1
      <4> HIDE DEF m, n
      <4>4. Scale[m] <= Scale[n]
        BY <4>3, ScaleGrows
      <4>5. QED  BY <4>2, <4>4 DEF m, n
    <3>3. Group * Scale[FullGroups] >= 2 * Scale[FullGroups]
      BY GroupIs
    <3>4. Word <= Scale[i - 1]
      <4>1. Group * Scale[FullGroups] \in Nat
        BY GroupIs
      <4>2. QED  BY <2>0, <3>2, <3>3, <4>1, WordIs
    <3>5. y >= Scale[i - 1]
      <4>1. q[i] >= 1
        BY <1>5, <2>0, <3>1
      <4>2. QED  BY <2>0, <4>1
    <3> HIDE DEF y
    <3>6. QED  BY <1>1, <2>0, <2>1, <3>4, <3>5
  <2>3. ASSUME i - 1 = FullGroups PROVE q[i] <= 1
    <3>1. SUFFICES ASSUME q[i] >= 2 PROVE FALSE
      BY <2>0
    <3>2. y >= 2 * Scale[i - 1] /\ Word = 2 * Scale[i - 1]
      BY <2>0, <2>3, <3>1, WordIs
    <3> HIDE DEF y
    <3>3. QED  BY <1>1, <2>0, <2>1, <3>2
  <2>4. QED  BY <2>0, <2>2, <2>3
<1>6. 0 \in T
  <2>1. g[1 - 1] = Number("more", 0, 1 - 1) /\ 0 + q[1] * Scale[1 - 1] = v
    BY <1>1, <1>3, <1>4a, ScaleIs DEF NoBytes
  <2>2. Half(1) /\ 0 \in 0..(L - 1) /\ 0 + 1 = 1
    BY <1>3, <2>1
  <2> HIDE DEF Half
  <2>3. QED  BY <2>2
<1>7. ASSUME NEW j \in 1..(L - 1), j - 1 \in T PROVE j \in T
  <2>0. j \in 1..L /\ (j - 1) + 1 = j /\ (j + 1) - 1 = j /\ j + 1 \in 1..L /\ j \in 0..(L - 1) /\ j - 1 \in Nat
    BY <1>3
  <2>1. PICK x \in Nat : g[j - 1] = Number("more", x, j - 1) /\ x + q[j] * Scale[j - 1] = v /\ (j > 1 => q[j] >= 1)
    <3>1. Half((j - 1) + 1)
      BY <1>7
    <3>2. Half(j)
      BY <2>0, <3>1
    <3>3. QED  BY <3>2
  <2> DEFINE p == q[j] % Group
             y == x + p * Scale[j - 1]
             b == w[j]
  <2>2. /\ q[j] \in Nat /\ q[j] >= Group /\ b = Group + p /\ q[j + 1] = q[j] \div Group
        /\ q[j + 1] \in Nat
    BY <1>3, <2>0
  <2>3. p \in 0..(Group - 1) /\ q[j] = Group * q[j + 1] + p /\ q[j + 1] >= 1
    BY <2>2, Divided
  <2>4. p \in Nat /\ b \in Nat /\ b % Group = p /\ ~(b < Group)
    <3>1. (Group + p) % Group = p
      <4> HIDE DEF p
      <4>1. QED  BY <2>3, Payload
    <3>2. p \in Nat /\ Group + p \in Nat /\ ~(Group + p < Group)
      <4> HIDE DEF p
      <4>1. QED  BY <2>3, GroupIs
    <3>3. QED  BY <2>2, <3>1, <3>2
  <2> HIDE DEF p, b
  <2>5. Scale[j] = Group * Scale[j - 1] /\ Scale[j - 1] \in Nat /\ Scale[j] \in Nat
    <3> DEFINE n == j - 1
    <3>1. n \in Nat /\ n + 1 = j
      BY <2>0
    <3> HIDE DEF n
    <3>2. Scale[n + 1] = Group * Scale[n]
      BY <3>1, ScaleIs
    <3>2a. \A i \in Nat : Scale[i] \in Nat
      BY ScaleIs
    <3>3. Scale[j] = Group * Scale[n] /\ Scale[n] \in Nat /\ Scale[j] \in Nat
      BY <3>1, <3>2, <3>2a, <2>0
    <3>4. QED  BY <3>3 DEF n
  <2>6. y + q[j + 1] * Scale[j] = v /\ y \in Nat
    <3>1. y \in Nat
      BY <2>4, <2>5
    <3> DEFINE S == Scale[j - 1]
               r == q[j + 1]
    <3>2. S \in Nat /\ r \in Nat /\ Group \in Nat /\ p \in Nat /\ x \in Nat
      BY <2>2, <2>4, <2>5, GroupIs
    <3>3. q[j] = Group * r + p /\ x + q[j] * S = v /\ Scale[j] = Group * S
      BY <2>1, <2>3, <2>5
    <3> HIDE DEF S, r
    <3>4. (Group * r + p) * S = r * (Group * S) + p * S
      BY <3>2
    <3>5. x + p * S + r * (Group * S) = v
      BY <3>2, <3>3, <3>4
    <3>6. (x + p * S) + r * Scale[j] = v
      BY <3>3, <3>5
    <3>7. QED  BY <3>1, <3>6 DEF S, r
  <2>7. y < Word
    <3> DEFINE z == q[j + 1] * Scale[j]
    <3>1. z \in Nat /\ y + z = v
      BY <2>2, <2>5, <2>6
    <3> HIDE DEF z, y
    <3>2. QED  BY <1>1, <2>6, <3>1
  <2>8. j - 1 \in 0..FullGroups
    BY <1>5, <2>0, <2>1
  <2>9. TakeByte(Number("more", x, j - 1), b) = Number("more", y, j)
    <3>1. TakeByte(Number("more", x, j - 1), b) =
            Number(IF b < Group THEN "value" ELSE "more", x + p * Scale[j - 1], (j - 1) + 1)
      BY <2>4, <2>7, <2>8, TakesGroup
    <3>2. QED  BY <2>0, <2>4, <3>1
  <2>10. g[j] = Number("more", y, j)
    BY <1>4a, <2>0, <2>1, <2>9 DEF b
  <2>11. Half(j + 1)
    <3> HIDE DEF y
    <3>1. g[(j + 1) - 1] = Number("more", y, (j + 1) - 1) /\ y + q[j + 1] * Scale[(j + 1) - 1] = v
          /\ q[j + 1] >= 1 /\ y \in Nat
      BY <2>0, <2>3, <2>6, <2>10
    <3>2. QED  BY <3>1
  <2> HIDE DEF Half
  <2>12. QED  BY <2>0, <2>11
<1>8. \A j \in 0..(L - 1) : Half(j + 1)
  <2>1. L - 1 \in Nat
    BY <1>3
  <2>2. \A j \in 0..(L - 1) : j \in T
    <3> HIDE DEF T
    <3>1. QED  BY <1>6, <1>7, <2>1, Climb
  <2> HIDE DEF Half
  <2>3. QED  BY <2>2
<1>9. g[L] = Number("value", v, L)
  <2>0. L - 1 \in 0..(L - 1) /\ (L - 1) + 1 = L /\ L \in 1..L /\ q[L] \in Nat
    BY <1>3
  <2>1. PICK x \in Nat : g[L - 1] = Number("more", x, L - 1) /\ x + q[L] * Scale[L - 1] = v /\ (L > 1 => q[L] >= 1)
    <3>1. Half((L - 1) + 1)
      <4> HIDE DEF Half
      <4>1. QED  BY <1>8, <2>0
    <3>2. Half(L)
      BY <2>0, <3>1
    <3>3. QED  BY <3>2
  <2>2. q[L] \in 0..(Group - 1) /\ q[L] < Group /\ w[L] = q[L]
    BY <1>3, <2>0, GroupIs
  <2>3. q[L] % Group = q[L]
    BY <2>2, Payload
  <2>4. L - 1 \in 0..FullGroups
    BY <1>5, <2>0, <2>1
  <2>5. TakeByte(Number("more", x, L - 1), q[L]) =
          Number(IF q[L] < Group THEN "value" ELSE "more", x + q[L] * Scale[L - 1], (L - 1) + 1)
    <3> DEFINE n == L - 1
               c == q[L]
    <3>1. n \in 0..FullGroups /\ c \in Nat /\ c = c % Group /\ x + c * Scale[n] < Word
      BY <1>1, <2>0, <2>1, <2>3, <2>4
    <3> HIDE DEF n, c
    <3>2. TakeByte(Number("more", x, n), c) =
            Number(IF c < Group THEN "value" ELSE "more", x + c * Scale[n], n + 1)
      BY <3>1, TakesGroup
    <3>3. QED  BY <3>2 DEF n, c
  <2>6. TakeByte(Number("more", x, L - 1), q[L]) = Number("value", v, L)
    BY <2>0, <2>1, <2>2, <2>5
  <2>7. QED  BY <1>4a, <2>0, <2>1, <2>2, <2>6
<1>10. ASSUME NEW k \in 0..(L - 1) PROVE PeekVarint(Take(w, k)).kind = "more"
  <2>1. k \in 0..L
    BY <1>3
  <2>2. PeekVarint(Take(w, k)) = g[k]
    BY <1>1, <1>4, <2>1, PeekPrefix DEF L
  <2>3. g[k].kind = "more"
    <3>1. PICK x \in Nat : g[(k + 1) - 1] = Number("more", x, (k + 1) - 1)
      BY <1>8
    <3>2. (k + 1) - 1 = k
      BY <1>3
    <3>3. QED  BY <3>1, <3>2 DEF Number
  <2>4. QED  BY <2>2, <2>3
<1>11. PeekVarint(w) = Number("value", v, Len(w))
  BY <1>4, <1>9 DEF L
<1>12. QED  BY <1>10, <1>11 DEF WordsComeBack, w, L

\* What Sum adds up, byte by byte.
Adds(P, s) == P[0] = 0 /\ \A i \in 1..Len(s) : P[i] = P[i - 1] + (s[i] % Group) * Scale[i - 1]

LEMMA SumFold ==
  ASSUME NEW s \in Seq(Nat)
  PROVE  \E P \in [0..Len(s) -> Nat] : Adds(P, s) /\ Sum(s) = P[Len(s)]
<1> DEFINE N == Len(s)
           t == [i \in 1..N |-> i]
           Add(sum, i) == sum + (s[i] % Group) * Scale[i - 1]
           a == 0
           F == [p \in Nat \X (1..N) |-> Add(p[1], t[p[2]])]
           Recursion(h) ==
             h = [T \in SUBSET (DOMAIN t) |->
                    IF T = {} THEN a ELSE Add(h[T \ {Max(T)}], t[Max(T)])]
           iter == CHOOSE h : Recursion(h)
<1>0. a \in Nat
  OBVIOUS
<1>1. N \in Nat /\ DOMAIN t = 1..N /\ \A i \in 1..N : s[i] \in Nat /\ t[i] = i
  BY LenProperties, ElementOfSeq
<1> HIDE DEF N
<1>2. \A x \in Nat, i \in 1..N : Add(x, i) \in Nat
  <2> SUFFICES ASSUME NEW x \in Nat, NEW i \in 1..N PROVE Add(x, i) \in Nat
    OBVIOUS
  <2>1. i - 1 \in Nat /\ s[i] \in Nat
    BY <1>1
  <2>2. Scale[i - 1] \in Nat
    BY <2>1, ScaleIs
  <2>3. s[i] % Group \in Nat
    BY <2>1, PayloadIs
  <2> DEFINE p == s[i] % Group
             S == Scale[i - 1]
  <2>4. p \in Nat /\ S \in Nat
    BY <2>2, <2>3
  <2> HIDE DEF p, S
  <2>6. x + p * S \in Nat
    BY <2>4
  <2>7. QED  BY <2>6 DEF p, S
<1> HIDE DEF Add, t
<1>3. F \in [Nat \X (1..N) -> Nat] /\ \A x \in Nat, m \in 1..N : F[<<x, m>>] = Add(x, t[m])
  BY <1>1, <1>2
<1> HIDE DEF F
<1>4. PICK h \in [SUBSET (1..N) -> Nat] : FoldsBy(h, a, F, N)
  BY <1>0, <1>1, <1>3, FoldExists
<1>5. ASSUME NEW T \in SUBSET (1..N)
      PROVE  h[T] = IF T = {} THEN a ELSE Add(h[T \ {Max(T)}], t[Max(T)])
  <2>1. h[T] = IF T = {} THEN a ELSE F[<<h[T \ {Max(T)}], Max(T)>>]
    BY <1>4 DEF FoldsBy
  <2>2. T # {} => Max(T) \in 1..N /\ h[T \ {Max(T)}] \in Nat
    BY <1>1, MaxIs
  <2>3. QED  BY <1>3, <2>1, <2>2
<1>6. Recursion(iter)
  <2>1. Recursion(h)
    BY <1>1, <1>5
  <2> HIDE DEF Recursion
  <2>2. QED  BY <2>1
<1>7. Sum(s) = iter[1..N]
  <2>1. Sum(s) = FoldLeft(Add, a, t)
    BY DEF Sum, Add, t, N
  <2>2. FoldLeft(Add, a, t) = iter[DOMAIN t]
    BY DEF FoldLeft, MapThenFoldSet
  <2>3. QED  BY <1>1, <2>1, <2>2
<1> HIDE DEF iter, a
<1>8. \A T \in SUBSET (1..N) :
        iter[T] = IF T = {} THEN a ELSE Add(iter[T \ {Max(T)}], t[Max(T)])
  BY <1>1, <1>6
<1>9. Recurs(iter, Nat, a, F, N)
  <2>1. iter[{}] = a
    BY <1>8
  <2>2. \A T \in SUBSET (1..N) : (T # {} /\ iter[T \ {Max(T)}] \in Nat) =>
          iter[T] = F[<<iter[T \ {Max(T)}], Max(T)>>]
    BY <1>1, <1>3, <1>8, MaxIs
  <2>3. QED  BY <2>1, <2>2 DEF Recurs
<1>10. \E g \in [0..N -> Nat] : Passes(g, iter, a, F, N)
  BY <1>0, <1>1, <1>3, <1>9, FoldSteps
<1>11. PICK g \in [0..N -> Nat] :
         g[0] = a /\ (\A i \in 1..N : g[i] = F[<<g[i - 1], i>>]) /\ iter[1..N] = g[N]
  BY <1>10 DEF Passes
<1>12. ASSUME NEW i \in 1..N PROVE g[i] = g[i - 1] + (s[i] % Group) * Scale[i - 1]
  <2>1. i - 1 \in 0..N
    BY <1>1
  <2>1a. g[i - 1] \in Nat
    BY <2>1
  <2>1b. g[i] = F[<<g[i - 1], i>>] /\ t[i] = i
    BY <1>1, <1>11
  <2>2. g[i] = Add(g[i - 1], i)
    BY <1>3, <2>1a, <2>1b
  <2>3. QED  BY <2>2 DEF Add
<1>13. QED  BY <1>7, <1>11, <1>12 DEF Adds, a, N

\* A reader after i bytes that amount to x: it has them, or has refused them.
Tells(num, x, i, kind) ==
  IF x >= Word \/ i > FullGroups + 1 THEN num.kind = "overlong" ELSE num = Number(kind, x, i)

\* One more byte, after i that amount to x and that all say more follow.
LEMMA TellsOneMore ==
  ASSUME NEW i \in Nat, NEW x \in Nat, NEW num \in Nums, Tells(num, x, i, "more"),
         i <= FullGroups => x < Scale[i],
         NEW byte \in Nat
  PROVE  LET y == x + (byte % Group) * Scale[i]
         IN  /\ Tells(TakeByte(num, byte), y, i + 1, IF byte < Group THEN "value" ELSE "more")
             /\ y \in Nat /\ y >= x
             /\ i + 1 <= FullGroups => y < Scale[i + 1]
<1> DEFINE p == byte % Group
           S == Scale[i]
           y == x + p * S
<1>1. /\ p \in 0..(Group - 1) /\ p \in Nat /\ S \in Nat \ {0} /\ Word \in Nat /\ FullGroups \in Nat
      /\ Group \in Nat /\ Group > 1 /\ Scale[i + 1] = Group * S
  <2>1. byte % Group \in 0..(Group - 1) /\ Group \in Nat /\ Group > 1
    BY Divided, GroupIs
  <2>2. QED  BY <2>1, ScaleIs, WordIs, GroupIs
<1>2. y \in Nat /\ y >= x
  <2> DEFINE z == p * S
  <2>1. z \in Nat
    BY <1>1
  <2> HIDE DEF z
  <2>2. x + z \in Nat /\ x + z >= x
    BY <2>1
  <2>3. QED  BY <2>2 DEF z
<1>3. ASSUME i + 1 <= FullGroups PROVE y < Scale[i + 1]
  <2>1. x < S
    BY <1>1, <1>3
  <2> HIDE DEF p, S
  <2>2. p * S <= (Group - 1) * S
    BY <1>1
  <2>3. (Group - 1) * S = Group * S - S
    BY <1>1
  <2>4. p * S \in Int /\ Group * S \in Int
    BY <1>1
  <2>5. x + p * S < Group * S
    <3> DEFINE z == p * S
               Y == Group * S
    <3>1. z \in Int /\ Y \in Int /\ z <= Y - S /\ x < S
      BY <2>1, <2>2, <2>3, <2>4
    <3> HIDE DEF z, Y
    <3>2. x + z < Y
      BY <1>1, <3>1
    <3>3. QED  BY <3>2 DEF z, Y
  <2>6. QED  BY <1>1, <2>5
<1>4. CASE x >= Word \/ i > FullGroups + 1
  <2>1. num.kind = "overlong"
    BY <1>4 DEF Tells
  <2>2. TakeByte(num, byte) = num
    BY <2>1, TakeByteIs
  <2>3. y >= Word \/ i + 1 > FullGroups + 1
    <3> HIDE DEF y
    <3>1. QED  BY <1>1, <1>2, <1>4
  <2>4. QED  BY <1>2, <1>3, <2>1, <2>2, <2>3 DEF Tells
<1>5. CASE x < Word /\ i = FullGroups + 1
  <2>1. ~(x >= Word \/ i > FullGroups + 1)
    BY <1>1, <1>5
  <2>2. num = Number("more", x, i)
    BY <2>1 DEF Tells
  <2>3. num.kind = "more" /\ IsOverlong(num.bytes, byte % Group)
    BY <1>1, <1>5, <2>2 DEF Number, IsOverlong
  <2>4. TakeByte(num, byte).kind = "overlong"
    BY <2>3, TakeByteIs DEF Number
  <2>5. i + 1 > FullGroups + 1
    BY <1>1, <1>5
  <2>6. QED  BY <1>2, <1>3, <2>4, <2>5 DEF Tells
<1>6. CASE x < Word /\ i <= FullGroups
  <2>1. ~(x >= Word \/ i > FullGroups + 1) /\ i \in 0..FullGroups /\ x < S
    BY <1>1, <1>6
  <2>2. num = Number("more", x, i)
    BY <2>1 DEF Tells
  <2>3. CASE y < Word
    <3>1. TakeByte(num, byte) = Number(IF byte < Group THEN "value" ELSE "more", y, i + 1)
      <4> HIDE DEF p
      <4>0. p \in Nat /\ p = byte % Group /\ x + p * Scale[i] < Word
        BY <1>1, <2>3 DEF p
      <4>1. TakeByte(Number("more", x, i), byte) =
              Number(IF byte < Group THEN "value" ELSE "more", x + p * Scale[i], i + 1)
        BY <2>1, <4>0, TakesGroup
      <4>2. QED  BY <2>2, <4>1
    <3>2. ~(y >= Word \/ i + 1 > FullGroups + 1)
      <4> HIDE DEF y
      <4>1. QED  BY <1>1, <1>2, <2>1, <2>3
    <3>3. QED  BY <1>2, <1>3, <3>1, <3>2 DEF Tells
  <2>4. CASE y >= Word
    <3>1. i = FullGroups
      <4>1. SUFFICES ASSUME i < FullGroups PROVE FALSE
        BY <2>1, <1>1
      <4>2. y < Scale[i + 1]
        BY <1>1, <1>3, <4>1
      <4>3. Scale[i + 1] <= Scale[FullGroups]
        <5> DEFINE m == i + 1
        <5>1. m \in Nat /\ m <= FullGroups
          BY <1>1, <4>1
        <5> HIDE DEF m
        <5>2. Scale[m] <= Scale[FullGroups]
          BY <1>1, <5>1, ScaleGrows
        <5>3. QED  BY <5>2 DEF m
      <4>4. Scale[FullGroups] \in Nat /\ Word = 2 * Scale[FullGroups] /\ Scale[i + 1] \in Nat
        BY WordIs, GroupIs, ScaleIs
      <4> HIDE DEF y, S
      <4>5. QED  BY <1>2, <2>4, <4>2, <4>3, <4>4
    <3>2. p > 1
      <4>1. SUFFICES ASSUME p <= 1 PROVE FALSE
        BY <1>1
      <4>2. Word = 2 * S
        BY <3>1, WordIs
      <4> HIDE DEF p, S
      <4>3. p = 0 \/ p = 1
        BY <1>1, <4>1
      <4>4. CASE p = 0
        <5>1. x + 0 * S >= 2 * S
          BY <2>4, <4>2, <4>4
        <5>2. QED  BY <1>1, <2>1, <5>1
      <4>5. CASE p = 1
        <5>1. x + 1 * S >= 2 * S
          BY <2>4, <4>2, <4>5
        <5>2. QED  BY <1>1, <2>1, <5>1
      <4>6. QED  BY <4>3, <4>4, <4>5
    <3>3. num.kind = "more" /\ IsOverlong(num.bytes, byte % Group)
      BY <2>2, <3>1, <3>2 DEF Number, IsOverlong
    <3>4. TakeByte(num, byte).kind = "overlong"
      BY <3>3, TakeByteIs DEF Number
    <3>5. QED  BY <1>2, <1>3, <2>4, <3>4 DEF Tells
  <2>5. QED  BY <1>1, <1>2, <2>3, <2>4
<1>7. (x >= Word \/ i > FullGroups + 1) \/ (x < Word /\ i = FullGroups + 1) \/ (x < Word /\ i <= FullGroups)
  BY <1>1
<1>8. QED  BY <1>4, <1>5, <1>6, <1>7

\* Bytes of which only the last may end the number.
LEMMA NumberTold ==
  ASSUME NEW s \in Seq(Nat), s # << >>, \A i \in 1..(Len(s) - 1) : s[i] >= Group
  PROVE  /\ Tells(PeekVarint(s), Sum(s), Len(s), IF s[Len(s)] < Group THEN "value" ELSE "more")
         /\ Sum(s) \in Nat
<1> DEFINE L == Len(s)
<1>1. L \in Nat /\ L >= 1 /\ \A i \in 1..L : s[i] \in Nat
  BY EmptySeq, LenProperties, ElementOfSeq
<1>2. PICK g \in [0..L -> Nums] : Peeks(g, s) /\ PeekVarint(s) = g[L]
  BY PeekFold
<1>3. PICK P \in [0..L -> Nat] : Adds(P, s) /\ Sum(s) = P[L]
  BY SumFold
<1>4. /\ g[0] = NoBytes /\ \A i \in 1..L : g[i] = TakeByte(g[i - 1], s[i])
      /\ P[0] = 0 /\ \A i \in 1..L : P[i] = P[i - 1] + (s[i] % Group) * Scale[i - 1]
  BY <1>2, <1>3 DEF Peeks, Adds
<1> HIDE DEF L
<1> DEFINE Good(i) == /\ Tells(g[i], P[i], i, "more")
                      /\ i <= FullGroups => P[i] < Scale[i]
           T == {i \in 0..(L - 1) : Good(i)}
<1>5. 0 \in T
  <2>1. Scale[0] = 1 /\ Word \in Nat \ {0} /\ FullGroups \in Nat
    BY ScaleIs, WordIs, GroupIs
  <2>2. ~(0 >= Word \/ 0 > FullGroups + 1) /\ g[0] = Number("more", 0, 0)
    BY <1>4, <2>1 DEF NoBytes
  <2>3. Tells(g[0], 0, 0, "more")
    BY <2>2 DEF Tells
  <2>4. QED  BY <1>1, <1>4, <2>1, <2>3
\* One more byte, whatever it is.
<1>6. ASSUME NEW i \in 1..L, Good(i - 1)
      PROVE  /\ Tells(g[i], P[i], i, IF s[i] < Group THEN "value" ELSE "more")
             /\ i <= FullGroups => P[i] < Scale[i]
  <2> DEFINE j == i - 1
             y == P[j] + (s[i] % Group) * Scale[j]
  <2>1. j \in Nat /\ j + 1 = i /\ j \in 0..L /\ P[j] \in Nat /\ g[j] \in Nums /\ s[i] \in Nat /\ Good(j)
    <3>1. j \in 0..L
      BY <1>1
    <3>2. QED  BY <1>1, <1>6, <3>1
  <2>2. g[i] = TakeByte(g[j], s[i]) /\ P[i] = y
    BY <1>4
  <2> HIDE DEF j
  <2>3. /\ Tells(TakeByte(g[j], s[i]), y, j + 1, IF s[i] < Group THEN "value" ELSE "more")
        /\ j + 1 <= FullGroups => y < Scale[j + 1]
    BY <2>1, TellsOneMore
  <2> HIDE DEF y
  <2>4. QED  BY <2>1, <2>2, <2>3
<1>7. ASSUME NEW i \in 1..(L - 1), i - 1 \in T PROVE i \in T
  <2>1. i \in 1..L /\ i \in 0..(L - 1) /\ Good(i - 1)
    BY <1>1, <1>7
  <2>2. ~(s[i] < Group)
    <3>1. s[i] >= Group /\ s[i] \in Nat /\ Group \in Nat
      BY <1>1, <2>1, GroupIs DEF L
    <3>2. QED  BY <3>1
  <2> HIDE DEF Good
  <2>3. Tells(g[i], P[i], i, "more") /\ (i <= FullGroups => P[i] < Scale[i])
    BY <1>6, <2>1, <2>2
  <2>4. QED  BY <2>1, <2>3 DEF Good
<1>8. Good(L - 1)
  <2>1. L - 1 \in Nat /\ L - 1 \in 0..(L - 1)
    BY <1>1
  <2>2. \A i \in 0..(L - 1) : i \in T
    <3> HIDE DEF T
    <3>1. QED  BY <1>5, <1>7, <2>1, Climb
  <2> HIDE DEF Good
  <2>3. QED  BY <2>1, <2>2
<1>9. L \in 1..L /\ L \in 0..L /\ P[L] \in Nat
  BY <1>1
<1> HIDE DEF Good
<1>10. Tells(g[L], P[L], L, IF s[L] < Group THEN "value" ELSE "more")
  BY <1>6, <1>8, <1>9
<1>11. QED  BY <1>2, <1>3, <1>9, <1>10 DEF L

\* What does not fit a word is refused, never wrapped.
LEMMA BytesNeverWrap ==
  ASSUME NEW bs \in Seq(Nat), bs # << >>
  PROVE  NeverWraps(bs)
<1> DEFINE L == Len(bs)
           Ends == {i \in 1..L : bs[i] < Group \/ i = L}
           n == Min(Ends)
           s == Take(bs, n)
           t == Drop(bs, n)
<1>1. L \in Nat /\ L >= 1 /\ (\A i \in 1..L : bs[i] \in Nat) /\ Group \in Nat
  BY EmptySeq, LenProperties, ElementOfSeq, GroupIs
<1>2. n \in Ends /\ \A i \in Ends : n <= i
  <2>1. Ends \in SUBSET Nat /\ L \in Ends
    BY <1>1
  <2> HIDE DEF Ends
  <2>2. \E k \in Ends : \A j \in Ends : k <= j
    BY <2>1, LeastOf
  <2>3. QED  BY <2>1, <2>2 DEF Min
<1>3. /\ n \in 1..L /\ (bs[n] < Group \/ n = L)
      /\ \A i \in 1..(n - 1) : bs[i] >= Group
  <2>1. n \in 1..L /\ (bs[n] < Group \/ n = L)
    BY <1>2
  <2> HIDE DEF n
  <2>2. ASSUME NEW i \in 1..(n - 1) PROVE bs[i] >= Group
    <3>1. i \in 1..L /\ ~(n <= i)
      BY <1>1, <2>1
    <3>2. i \notin Ends
      BY <1>2, <3>1
    <3>3. QED  BY <1>1, <3>1, <3>2
  <2>3. QED  BY <2>1, <2>2
<1> HIDE DEF n, Ends
<1>4. /\ s \in Seq(Nat) /\ Len(s) = n /\ t \in Seq(Nat) /\ bs = s \o t
      /\ \A i \in 1..n : s[i] = bs[i]
  <2>0. n \in Nat /\ 1 <= n /\ n <= L
    BY <1>1, <1>3
  <2>1. t \in Seq(Nat)
    BY <2>0, RestType DEF Drop
  <2>2. \A i \in 1..n : bs[i] \in Nat
    BY <1>1, <1>3
  <2>3. s \in Seq(Nat) /\ Len(s) = IF 1 <= n THEN n - 1 + 1 ELSE 0
    BY <2>0, <2>2, SubSeqProperties DEF Take
  <2>4. \A i \in 1..n : s[i] = bs[i]
    BY <2>0, <2>2, SubSeqProperties DEF Take
  <2>5. Len(s) = n
    BY <2>0, <2>3
  <2>6. bs = s \o t
    <3>1. n \in 0..Len(bs) /\ n \in 1..Len(bs)
      BY <2>0
    <3>2. bs = SubSeq(bs, 1, n) \o SubSeq(bs, n + 1, Len(bs))
      BY <3>1, ConcatAdjacentSubSeq, SubSeqFull
    <3>3. QED  BY <3>2 DEF Take, Drop
  <2>7. QED  BY <2>1, <2>3, <2>4, <2>5, <2>6
<1> HIDE DEF s, t, L
<1>5. s # << >> /\ \A i \in 1..(Len(s) - 1) : s[i] >= Group
  <2>1. Len(<< >>) = 0 /\ n # 0
    BY <1>1, <1>3
  <2>2. \A i \in 1..(n - 1) : i \in 1..n
    BY <1>1, <1>3
  <2>3. QED  BY <1>3, <1>4, <2>1, <2>2
<1> DEFINE kind == IF s[n] < Group THEN "value" ELSE "more"
           r == PeekVarint(s)
           x == Sum(s)
<1>6. Tells(r, x, n, kind) /\ x \in Nat
  BY <1>4, <1>5, NumberTold
<1>7. PeekVarint(bs) = r
  <2>1. CASE n = L
    <3>1. s = bs
      <4>1. s = SubSeq(bs, 1, Len(bs))
        BY <2>1 DEF s, Take, L
      <4>2. QED  BY <4>1, SubSeqFull
    <3>2. QED  BY <3>1
  <2>2. CASE bs[n] < Group
    <3>1. kind = "value"
      <4>1. n \in 1..n
        BY <1>1, <1>3
      <4>2. QED  BY <1>4, <2>2, <4>1
    <3>2. r.kind # "more"
      <4> HIDE DEF r, x, kind
      <4>1. QED  BY <1>6, <3>1 DEF Tells, Number
    <3>3. QED  BY <1>4, <3>2, PeekGrows
  <2>3. QED  BY <1>3, <2>1, <2>2
<1>8. /\ r.kind = "overlong" <=> x >= Word \/ n > FullGroups + 1
      /\ r.kind = "value" => r.value = x /\ r.bytes = n
  <2>1. kind \in {"value", "more"}
    OBVIOUS
  <2> HIDE DEF r, x, kind
  <2>2. QED  BY <1>6, <2>1 DEF Tells, Number
<1>9. QED  BY <1>7, <1>8 DEF NeverWraps, r, x, s, n, Ends, L

\* A signed number comes back from its zigzag.
LEMMA SignComesBack ==
  ASSUME NEW v \in -(Word \div 2)..(Word \div 2 - 1)
  PROVE  SignsComeBack(v)
<1> DEFINE H == Scale[FullGroups]
<1>1. H \in Nat \ {0} /\ Word = 2 * H
  BY GroupIs, WordIs
<1> HIDE DEF H
<1>2. Word \div 2 = H
  BY <1>1
<1>3. v \in Int /\ -H <= v /\ v < H
  BY <1>1, <1>2
<1>4. CASE v >= 0
  <2>1. (2 * v) % Word = 2 * v
    <3>1. 2 * v \in 0..(Word - 1)
      BY <1>1, <1>3, <1>4
    <3> DEFINE x == 2 * v
    <3> HIDE DEF x
    <3>2. x % Word = x
      BY <3>1, WithinWord DEF x
    <3>3. QED  BY <3>2 DEF x
  <2>2. Zigzag(v) = 2 * v
    BY <1>3, <1>4, <2>1 DEF Zigzag
  <2>3. (2 * v) % 2 = 0 /\ (2 * v) \div 2 = v /\ 2 * v \in 0..(Word - 1)
    BY <1>1, <1>3, <1>4
  <2>4. QED  BY <2>2, <2>3 DEF SignsComeBack, Unzigzag
<1>5. CASE v < 0
  <2>1. (2 * v) % Word = 2 * v + Word
    <3> DEFINE r == 2 * v + Word
    <3>1. Word \in Nat \ {0} /\ -1 \in Int /\ r \in 0..(Word - 1) /\ 2 * v = Word * (-1) + r
      BY <1>1, <1>3, <1>5
    <3> HIDE DEF r
    <3>2. (2 * v) % Word = r
      BY <3>1, RestIs
    <3>3. QED  BY <3>2 DEF r
  <2>2. Zigzag(v) = -(2 * v) - 1
    <3>1. Zigzag(v) = Word - 1 - (2 * v + Word)
      BY <1>3, <1>5, <2>1 DEF Zigzag
    <3>2. QED  BY <1>1, <1>3, <3>1
  <2>3. /\ (-(2 * v) - 1) % 2 # 0 /\ (-(2 * v) - 1) \div 2 = -v - 1
        /\ -(2 * v) - 1 \in 0..(Word - 1) /\ -(-v - 1) - 1 = v
    BY <1>1, <1>3, <1>5
  <2>4. QED  BY <2>2, <2>3 DEF SignsComeBack, Unzigzag
<1>6. QED  BY <1>3, <1>4, <1>5

\* Every number of every word size comes back, whatever the size of a group, and
\* what does not fit is refused: write_varint, peek_varint and the zigzag pair.
THEOREM NumbersAreExact == NumbersExact
<1>1. ASSUME NEW bs \in AnyBytes(FullGroups + 2) \ {<< >>} PROVE NeverWraps(bs)
  <2>1. PICK k \in 0..(FullGroups + 2) : bs \in [1..k -> AnyByte]
    BY DEF AnyBytes
  <2>2. AnyByte \subseteq Nat /\ k \in Nat
    <3>1. AnyByte \subseteq 0..(2 * Group - 1) /\ Group \in Nat /\ FullGroups \in Nat
      BY FramingAssumption
    <3>2. QED  BY <3>1
  <2>3. bs \in Seq(Nat) /\ bs # << >>
    <3>1. bs \in [1..k -> Nat] /\ bs # << >>
      BY <2>1, <2>2
    <3>2. QED  BY <2>2, <3>1, SequenceOf
  <2>4. QED  BY <2>3, BytesNeverWrap
<1>2. QED  BY <1>1, WordsReadBack, SignComesBack DEF NumbersExact

-----------------------------------------------------------------------------
(* One step of the decoder: what is decided of a buffer is so whatever follows. *)

Bytes == Seq(Nat)

LEMMA FrameLenIs == MaxFrameLen \in Nat /\ MaxFrameLen < Word
<1>1. MaxFrameLen \in 1..(Word - 1)
  BY FramingAssumption
<1>2. QED  BY <1>1, WordIs

LEMMA IStrIs ==
  ASSUME NEW body \in Bytes
  PROVE  IStr(body) \in Seq(Bytes)
<1> DEFINE n == PeekVarint(body)
           text == SubSeq(body, n.bytes + 1, n.bytes + n.value)
<1>1. n \in Nums /\ n.bytes \in Nat /\ n.value \in Nat /\ Len(body) \in Nat
  BY PeekIs, LenProperties DEF Bytes, Nums
<1> HIDE DEF n
<1>2. ASSUME n.bytes + n.value <= Len(body) PROVE text \in Bytes
  <2> DEFINE a == n.bytes + 1
             b == n.bytes + n.value
  <2>1. a \in Int /\ b \in Int /\ \A i \in a..b : body[i] \in Nat
    <3>1. \A i \in a..b : i \in 1..Len(body)
      BY <1>1, <1>2
    <3>2. \A i \in 1..Len(body) : body[i] \in Nat
      BY ElementOfSeq DEF Bytes
    <3> HIDE DEF a, b
    <3>3. \A i \in a..b : body[i] \in Nat
      BY <3>1, <3>2
    <3>4. a \in Int /\ b \in Int
      BY <1>1 DEF a, b
    <3>5. QED  BY <3>3, <3>4
  <2> HIDE DEF a, b
  <2>2. SubSeq(body, a, b) \in Seq(Nat)
    BY <2>1, SubSeqProperties
  <2>3. QED  BY <2>2 DEF a, b, Bytes
<1> HIDE DEF text
<1>3. IStr(body) = IF n.kind = "value" /\ n.bytes + n.value <= Len(body) THEN <<text>> ELSE << >>
  BY DEF IStr, n, text
<1>4. << >> \in Seq(Bytes) /\ (text \in Bytes => <<text>> \in Seq(Bytes))
  BY EmptySeq
<1>5. QED  BY <1>2, <1>3, <1>4

\* The envelope at the front of a buffer, as StepOf takes it apart.
Size(buf) == PeekVarint(Drop(buf, 1))
End(buf) == 1 + Size(buf).bytes + Size(buf).value
Body(buf) == SubSeq(buf, 2 + Size(buf).bytes, End(buf))

LEMMA StepCases ==
  ASSUME NEW buf \in Bytes, buf # << >>
  PROVE  /\ Size(buf) \in Nums /\ Drop(buf, 1) \in Bytes
         /\ Size(buf).kind = "more" => StepOf(TRUE, buf) = More
         /\ Size(buf).kind # "more" /\ (Size(buf).kind = "overlong" \/ Size(buf).value > MaxFrameLen) =>
              StepOf(TRUE, buf) = Corrupt
         /\ Size(buf).kind = "value" /\ Size(buf).value <= MaxFrameLen =>
              /\ Size(buf).bytes \in Nat \ {0} /\ End(buf) \in Nat \ {0, 1}
              /\ Len(buf) < End(buf) => StepOf(TRUE, buf) = More
              /\ Len(buf) >= End(buf) =>
                   /\ Body(buf) \in Bytes
                   /\ StepOf(TRUE, buf) =
                        IF buf[1] # StrPool THEN Done(End(buf), << >>)
                        ELSE IF IStr(Body(buf)) = << >> THEN Corrupt
                        ELSE Done(End(buf), IStr(Body(buf)))
<1>1. Drop(buf, 1) \in Bytes
  BY RestType DEF Drop, Bytes
<1>2. /\ Size(buf) \in Nums
      /\ Size(buf).kind = "value" => Size(buf).bytes \in 1..Len(Drop(buf, 1))
  BY <1>1, PeekIs DEF Size, Bytes
<1>3. /\ Size(buf).kind \in {"more", "value", "overlong"} /\ Size(buf).value \in Nat
      /\ Size(buf).bytes \in Nat /\ MaxFrameLen \in Nat /\ Len(buf) \in Nat
  <2>1. MaxFrameLen \in Nat /\ Len(buf) \in Nat
    BY FrameLenIs, LenProperties DEF Bytes
  <2>2. QED  BY <1>2, <2>1 DEF Nums
<1>4. StepOf(TRUE, buf) =
        IF Size(buf).kind = "more" THEN More
        ELSE IF Size(buf).kind = "overlong" \/ Size(buf).value > MaxFrameLen THEN Corrupt
        ELSE IF Len(buf) < End(buf) THEN More
        ELSE IF buf[1] # StrPool THEN Done(End(buf), << >>)
        ELSE IF IStr(Body(buf)) = << >> THEN Corrupt
        ELSE Done(End(buf), IStr(Body(buf)))
  BY DEF StepOf, Size, End, Body
<1>5. ASSUME Size(buf).kind = "value" PROVE Size(buf).bytes \in Nat \ {0} /\ End(buf) \in Nat \ {0, 1}
  <2>1. Size(buf).bytes \in Nat \ {0}
    BY <1>2, <1>5
  <2>2. QED  BY <1>3, <2>1 DEF End
<1>6. ASSUME Size(buf).kind = "value", Len(buf) >= End(buf) PROVE Body(buf) \in Bytes
  <2> DEFINE a == 2 + Size(buf).bytes
             b == End(buf)
  <2>1. a \in Int /\ b \in Int /\ a \in Nat \ {0} /\ b <= Len(buf)
    BY <1>3, <1>5, <1>6
  <2> HIDE DEF a, b
  <2>2. \A i \in a..b : buf[i] \in Nat
    <3>1. \A i \in a..b : i \in 1..Len(buf)
      BY <1>3, <2>1
    <3>2. \A i \in 1..Len(buf) : buf[i] \in Nat
      BY ElementOfSeq DEF Bytes
    <3>3. QED  BY <3>1, <3>2
  <2>3. SubSeq(buf, a, b) \in Seq(Nat)
    BY <2>1, <2>2, SubSeqProperties
  <2>4. QED  BY <2>3 DEF a, b, Body, Bytes
<1>7. Size(buf).kind = "more" => StepOf(TRUE, buf) = More
  BY ONLY <1>4
<1>8. Size(buf).kind # "more" /\ (Size(buf).kind = "overlong" \/ Size(buf).value > MaxFrameLen) =>
        StepOf(TRUE, buf) = Corrupt
  BY ONLY <1>4
<1>9. ASSUME Size(buf).kind = "value", Size(buf).value <= MaxFrameLen
      PROVE  /\ Len(buf) < End(buf) => StepOf(TRUE, buf) = More
             /\ Len(buf) >= End(buf) =>
                   StepOf(TRUE, buf) =
                        IF buf[1] # StrPool THEN Done(End(buf), << >>)
                        ELSE IF IStr(Body(buf)) = << >> THEN Corrupt
                        ELSE Done(End(buf), IStr(Body(buf)))
  <2>1. Size(buf).kind # "more" /\ Size(buf).kind # "overlong" /\ ~(Size(buf).value > MaxFrameLen)
    BY ONLY <1>3, <1>9
  <2>2. ~(Len(buf) < End(buf)) <=> Len(buf) >= End(buf)
    BY ONLY <1>3, <1>5, <1>9
  <2>3. QED  BY ONLY <1>4, <2>1, <2>2
<1>10. QED  BY <1>1, <1>2, <1>5, <1>6, <1>7, <1>8, <1>9

LEMMA StepIs ==
  ASSUME NEW seen \in BOOLEAN, NEW buf \in Bytes
  PROVE  \/ StepOf(seen, buf) = More
         \/ StepOf(seen, buf) = Corrupt /\ buf # << >>
         \/ \E n \in 1..Len(buf), texts \in Seq(Bytes) : StepOf(seen, buf) = Done(n, texts)
<1>1. Len(buf) \in Nat /\ (buf = << >> <=> Len(buf) = 0) /\ << >> \in Seq(Bytes)
  BY EmptySeq, LenProperties DEF Bytes
<1>2. CASE ~seen
  <2>1. StepOf(seen, buf) = IF Len(buf) < 2 THEN More
                            ELSE IF buf[1] # Magic \/ buf[2] \notin 1..Version THEN Corrupt
                            ELSE Done(2, << >>)
    BY <1>2 DEF StepOf
  <2>2. CASE Len(buf) < 2
    BY <2>1, <2>2
  <2>3. CASE Len(buf) >= 2
    <3>1. 2 \in 1..Len(buf) /\ buf # << >> /\ ~(Len(buf) < 2)
      BY <1>1, <2>3
    <3>2. QED  BY <1>1, <2>1, <3>1
  <2>4. QED  BY <1>1, <2>2, <2>3
<1>3. CASE seen /\ buf = << >>
  <2>1. StepOf(seen, buf) = More
    BY <1>3 DEF StepOf
  <2>2. QED  BY <2>1
<1>4. CASE seen /\ buf # << >>
  <2>0. seen = TRUE
    BY <1>4
  <2>1. Size(buf) \in Nums /\ MaxFrameLen \in Nat
    BY <1>4, StepCases, FrameLenIs
  <2>2. Size(buf).kind \in {"more", "value", "overlong"} /\ Size(buf).value \in Nat
    BY <2>1 DEF Nums
  <2>3. CASE Size(buf).kind = "more"
    BY <1>4, <2>0, <2>3, StepCases
  <2>4. CASE Size(buf).kind = "overlong" \/ (Size(buf).kind # "more" /\ Size(buf).value > MaxFrameLen)
    <3>1. StepOf(TRUE, buf) = Corrupt
      BY <1>4, <2>4, StepCases
    <3>2. QED  BY <1>4, <2>0, <3>1
  <2>5. CASE Size(buf).kind = "value" /\ Size(buf).value <= MaxFrameLen
    <3>1. /\ End(buf) \in Nat \ {0, 1}
          /\ Len(buf) < End(buf) => StepOf(TRUE, buf) = More
          /\ Len(buf) >= End(buf) =>
               /\ Body(buf) \in Bytes
               /\ StepOf(TRUE, buf) =
                    IF buf[1] # StrPool THEN Done(End(buf), << >>)
                    ELSE IF IStr(Body(buf)) = << >> THEN Corrupt
                    ELSE Done(End(buf), IStr(Body(buf)))
      BY <1>4, <2>5, StepCases
    <3>2. CASE Len(buf) < End(buf)
      BY <2>0, <3>1, <3>2
    <3>3. CASE Len(buf) >= End(buf)
      <4>1. End(buf) \in 1..Len(buf) /\ IStr(Body(buf)) \in Seq(Bytes)
        BY <1>1, <3>1, <3>3, IStrIs
      <4>2. QED  BY <1>1, <1>4, <2>0, <3>1, <3>3, <4>1
    <3>4. QED  BY <1>1, <3>1, <3>2, <3>3
  <2>6. QED  BY <2>1, <2>2, <2>3, <2>4, <2>5
<1>5. QED  BY <1>2, <1>3, <1>4

\* A buffer with more behind it: the places of the first stay what they are.
LEMMA Longer ==
  ASSUME NEW S, NEW s \in Seq(S), NEW t \in Seq(S)
  PROVE  /\ s \o t \in Seq(S) /\ Len(s) \in Nat /\ Len(s \o t) = Len(s) + Len(t) /\ Len(t) \in Nat
         /\ \A i \in 1..Len(s) : (s \o t)[i] = s[i]
         /\ \A n \in 0..Len(s) : Drop(s \o t, n) = Drop(s, n) \o t
         /\ \A m \in Nat \ {0}, n \in 0..Len(s) : SubSeq(s \o t, m, n) = SubSeq(s, m, n)
<1>1. /\ s \o t \in Seq(S) /\ Len(s) \in Nat /\ Len(s \o t) = Len(s) + Len(t) /\ Len(t) \in Nat
      /\ \A i \in 1..Len(s) : (s \o t)[i] = s[i]
  <2>1. Len(s) \in Nat /\ Len(t) \in Nat
    BY LenProperties
  <2>2. QED  BY <2>1, ConcatProperties
<1>2. ASSUME NEW n \in 0..Len(s) PROVE Drop(s \o t, n) = Drop(s, n) \o t
  <2>1. n \in Nat /\ n <= Len(s)
    BY <1>1
  <2>2. QED  BY <2>1, RestGrows DEF Drop
<1>3. ASSUME NEW m \in Nat \ {0}, NEW n \in 0..Len(s) PROVE SubSeq(s \o t, m, n) = SubSeq(s, m, n)
  <2>1. CASE n < m
    <3>1. SubSeq(s \o t, m, n) = << >> /\ SubSeq(s, m, n) = << >>
      BY <2>1, SubSeqEmpty
    <3>2. QED  BY <3>1
  <2>2. CASE m <= n
    <3>1. m \in 1..Len(s) /\ n \in 1..Len(s)
      BY <1>1, <2>2
    <3>2. QED  BY <3>1, SubSeqOfConcat1
  <2>3. QED  BY <1>1, <2>1, <2>2
<1>4. QED  BY <1>1, <1>2, <1>3

LEMMA StepGrows ==
  ASSUME NEW seen \in BOOLEAN, NEW buf \in Bytes, NEW t \in Bytes, StepOf(seen, buf) # More
  PROVE  StepOf(seen, buf \o t) = StepOf(seen, buf)
<1> DEFINE u == buf \o t
<1>1. /\ u \in Bytes /\ Len(buf) \in Nat /\ Len(u) = Len(buf) + Len(t) /\ Len(t) \in Nat
      /\ \A i \in 1..Len(buf) : u[i] = buf[i]
      /\ \A n \in 0..Len(buf) : Drop(u, n) = Drop(buf, n) \o t
      /\ \A m \in Nat \ {0}, n \in 0..Len(buf) : SubSeq(u, m, n) = SubSeq(buf, m, n)
  BY Longer DEF Bytes
<1>2. (buf = << >> <=> Len(buf) = 0) /\ (u = << >> <=> Len(u) = 0)
  BY <1>1, EmptySeq DEF Bytes
<1> HIDE DEF u
<1>3. CASE ~seen
  <2>1. \A b : StepOf(seen, b) = IF Len(b) < 2 THEN More
                                 ELSE IF b[1] # Magic \/ b[2] \notin 1..Version THEN Corrupt
                                 ELSE Done(2, << >>)
    BY <1>3 DEF StepOf
  <2>2. Len(buf) >= 2 /\ Len(u) >= 2
    <3>1. ~(Len(buf) < 2)
      BY <2>1
    <3>2. QED  BY <1>1, <3>1
  <2>3. u[1] = buf[1] /\ u[2] = buf[2]
    BY <1>1, <2>2
  <2>4. StepOf(seen, u) = StepOf(seen, buf)
    <3>1. ~(Len(buf) < 2) /\ ~(Len(u) < 2)
      BY <1>1, <2>2
    <3>2. QED  BY <2>1, <2>3, <3>1
  <2>5. QED  BY <2>4 DEF u
<1>4. CASE seen
  <2>0. seen = TRUE
    BY <1>4
  <2>1. buf # << >> /\ u # << >> /\ 1 \in 0..Len(buf) /\ u[1] = buf[1]
    <3>1. StepOf(TRUE, << >>) = More
      BY DEF StepOf
    <3>2. buf # << >>
      BY <2>0, <3>1
    <3>3. QED  BY <1>1, <1>2, <3>2
  <2>2. Size(buf) \in Nums /\ Drop(buf, 1) \in Bytes /\ MaxFrameLen \in Nat
    BY <2>1, StepCases, FrameLenIs
  <2>3. Size(buf).kind \in {"more", "value", "overlong"} /\ Size(buf).value \in Nat
    BY <2>2 DEF Nums
  <2>4. Size(buf).kind # "more"
    BY <2>0, <2>1, StepCases
  <2>5. Size(u) = Size(buf)
    <3>1. Drop(u, 1) = Drop(buf, 1) \o t
      BY <1>1, <2>1
    <3>2. PeekVarint(Drop(buf, 1) \o t) = PeekVarint(Drop(buf, 1))
      BY <2>2, <2>4, PeekGrows DEF Size, Bytes
    <3>3. QED  BY <3>1, <3>2 DEF Size
  <2>6. End(u) = End(buf)
    BY <2>5 DEF End
  <2>7. CASE Size(buf).kind = "overlong" \/ Size(buf).value > MaxFrameLen
    <3>1. StepOf(TRUE, buf) = Corrupt
      BY <2>1, <2>4, <2>7, StepCases
    <3>2. StepOf(TRUE, u) = Corrupt
      BY <1>1, <2>1, <2>4, <2>5, <2>7, StepCases
    <3>3. QED  BY <2>0, <3>1, <3>2 DEF u
  <2>8. CASE Size(buf).kind = "value" /\ Size(buf).value <= MaxFrameLen
    <3>1. /\ Size(buf).bytes \in Nat \ {0} /\ End(buf) \in Nat \ {0, 1}
          /\ Len(buf) < End(buf) => StepOf(TRUE, buf) = More
      BY <2>1, <2>8, StepCases
    <3>2. Len(buf) >= End(buf) /\ Len(u) >= End(u)
      <4>1. ~(Len(buf) < End(buf))
        BY <2>0, <3>1
      <4>2. Len(buf) >= End(buf)
        BY <1>1, <3>1, <4>1
      <4>3. QED  BY <1>1, <2>6, <3>1, <4>2
    <3>3. Body(u) = Body(buf)
      <4>1. 2 + Size(buf).bytes \in Nat \ {0} /\ End(buf) \in 0..Len(buf)
        BY <1>1, <3>1, <3>2
      <4>2. QED  BY <1>1, <2>5, <2>6, <4>1 DEF Body
    <3>4. StepOf(TRUE, buf) =
            IF buf[1] # StrPool THEN Done(End(buf), << >>)
            ELSE IF IStr(Body(buf)) = << >> THEN Corrupt
            ELSE Done(End(buf), IStr(Body(buf)))
      BY <2>1, <2>8, <3>2, StepCases
    <3>5. StepOf(TRUE, u) =
            IF u[1] # StrPool THEN Done(End(u), << >>)
            ELSE IF IStr(Body(u)) = << >> THEN Corrupt
            ELSE Done(End(u), IStr(Body(u)))
      <4>1. Size(u).kind = "value" /\ Size(u).value <= MaxFrameLen
        BY <2>5, <2>8
      <4>2. QED  BY <1>1, <2>1, <3>2, <4>1, StepCases
    <3>6. StepOf(TRUE, u) = StepOf(TRUE, buf)
      BY <2>1, <2>6, <3>3, <3>4, <3>5
    <3>7. QED  BY <2>0, <3>6 DEF u
  <2>9. QED  BY <2>2, <2>3, <2>4, <2>7, <2>8
<1>5. QED  BY <1>3, <1>4

-----------------------------------------------------------------------------
(* The loop around the step: draining a buffer, and draining it in pieces. *)

Readers == [seen : BOOLEAN, buf : Bytes, texts : Seq(Bytes), verdict : {"ok", "corrupt"}]
Reader(seen, buf, texts, verdict) ==
  [seen |-> seen, buf |-> buf, texts |-> texts, verdict |-> verdict]
With(rd, more) == [rd EXCEPT !.buf = @ \o more]

\* A reader that waits, or has given up, and the turns it still has before it does.
Stuck(rd) == rd.verdict # "ok" \/ StepOf(rd.seen, rd.buf) = More
TurnsLeft(rd) == IF rd.verdict = "ok" THEN 1 + Len(rd.buf) ELSE 0

LEMMA ReaderFields ==
  ASSUME NEW seen, NEW buf, NEW texts, NEW verdict
  PROVE  /\ Reader(seen, buf, texts, verdict).seen = seen
         /\ Reader(seen, buf, texts, verdict).buf = buf
         /\ Reader(seen, buf, texts, verdict).texts = texts
         /\ Reader(seen, buf, texts, verdict).verdict = verdict
         /\ seen \in BOOLEAN /\ buf \in Bytes /\ texts \in Seq(Bytes) /\ verdict \in {"ok", "corrupt"} =>
              Reader(seen, buf, texts, verdict) \in Readers
BY DEF Reader, Readers

LEMMA ReaderIs ==
  ASSUME NEW rd \in Readers
  PROVE  /\ rd.seen \in BOOLEAN /\ rd.buf \in Bytes /\ rd.texts \in Seq(Bytes)
         /\ rd.verdict \in {"ok", "corrupt"} /\ Len(rd.buf) \in Nat /\ TurnsLeft(rd) \in Nat
         /\ rd = Reader(rd.seen, rd.buf, rd.texts, rd.verdict)
<1>1. /\ rd.seen \in BOOLEAN /\ rd.buf \in Bytes /\ rd.texts \in Seq(Bytes)
      /\ rd.verdict \in {"ok", "corrupt"}
      /\ rd = Reader(rd.seen, rd.buf, rd.texts, rd.verdict)
  BY DEF Readers, Reader
<1>2. Len(rd.buf) \in Nat
  BY <1>1, LenProperties DEF Bytes
<1>3. QED  BY <1>1, <1>2 DEF TurnsLeft

LEMMA WithIs ==
  ASSUME NEW rd \in Readers, NEW t \in Bytes
  PROVE  /\ With(rd, t) \in Readers
         /\ With(rd, t) = Reader(rd.seen, rd.buf \o t, rd.texts, rd.verdict)
         /\ rd.buf \o t \in Bytes
<1>1. rd.buf \o t \in Bytes
  BY ReaderIs, ConcatProperties DEF Bytes
<1>2. With(rd, t) = [seen |-> rd.seen, buf |-> rd.buf \o t, texts |-> rd.texts, verdict |-> rd.verdict]
  <2> DEFINE x == rd.buf \o t
  <2>1. With(rd, t) = [rd EXCEPT !.buf = x]
    BY DEF With
  <2> HIDE DEF x
  <2>2. [rd EXCEPT !.buf = x] = [seen |-> rd.seen, buf |-> x, texts |-> rd.texts, verdict |-> rd.verdict]
    BY DEF Readers
  <2>3. QED  BY <2>1, <2>2 DEF x
<1>3. QED  BY <1>1, <1>2, ReaderIs DEF Readers, Reader

LEMMA WithMore ==
  ASSUME NEW seen, NEW buf, NEW texts, NEW verdict, NEW t
  PROVE  With(Reader(seen, buf, texts, verdict), t) = Reader(seen, buf \o t, texts, verdict)
BY DEF With, Reader

Takes(r, rd) ==
  \E n \in 1..Len(rd.buf), texts \in Seq(Bytes) :
    StepOf(rd.seen, rd.buf) = Done(n, texts) /\ r = Reader(TRUE, Drop(rd.buf, n), rd.texts \o texts, "ok")

\* What a turn does, with the frame it takes, if it takes one.
LEMMA TurnIs ==
  ASSUME NEW rd \in Readers, NEW place
  PROVE  /\ TakeFrame(rd, place) \in Readers
         /\ Stuck(rd) => TakeFrame(rd, place) = rd
         /\ ~Stuck(rd) /\ StepOf(rd.seen, rd.buf) = Corrupt =>
              TakeFrame(rd, place) = Reader(rd.seen, rd.buf, rd.texts, "corrupt")
         /\ ~Stuck(rd) /\ StepOf(rd.seen, rd.buf) # Corrupt =>
              Takes(TakeFrame(rd, place), rd)
         /\ ~Stuck(rd) => TurnsLeft(TakeFrame(rd, place)) < TurnsLeft(rd)
         /\ ~Stuck(rd) => rd.verdict = "ok" /\ Len(rd.buf) >= 1
<1> DEFINE s == StepOf(rd.seen, rd.buf)
           b == rd.buf
           r == TakeFrame(rd, place)
<1>1. /\ rd.seen \in BOOLEAN /\ b \in Bytes /\ rd.texts \in Seq(Bytes)
      /\ rd.verdict \in {"ok", "corrupt"} /\ Len(b) \in Nat /\ (b = << >> => Len(b) = 0)
      /\ (Len(b) = 0 => b = << >>)
      /\ rd = Reader(rd.seen, b, rd.texts, rd.verdict)
  <2>1. /\ rd.seen \in BOOLEAN /\ b \in Bytes /\ rd.texts \in Seq(Bytes)
        /\ rd.verdict \in {"ok", "corrupt"} /\ Len(b) \in Nat
        /\ rd = Reader(rd.seen, b, rd.texts, rd.verdict)
    BY ReaderIs
  <2>2. (b = << >> => Len(b) = 0) /\ (Len(b) = 0 => b = << >>)
    BY <2>1, EmptySeq DEF Bytes
  <2>3. QED  BY <2>1, <2>2
<1>2. \/ s = More
      \/ s = Corrupt /\ b # << >>
      \/ \E n \in 1..Len(b), texts \in Seq(Bytes) : s = Done(n, texts)
  BY <1>1, StepIs
<1>3. r = IF rd.verdict # "ok" \/ s.kind = "more" THEN rd
          ELSE IF s.kind = "corrupt" THEN [rd EXCEPT !.verdict = "corrupt"]
          ELSE Reader(TRUE, Drop(b, s.n), rd.texts \o s.texts, "ok")
  BY DEF TakeFrame, Reader
<1>4. Stuck(rd) <=> rd.verdict # "ok" \/ s = More
  BY DEF Stuck
<1>4a. TurnsLeft(rd) = IF rd.verdict = "ok" THEN 1 + Len(b) ELSE 0
  BY DEF TurnsLeft
<1> HIDE DEF s, b, r
<1>5. CASE Stuck(rd)
  <2>1. r = rd
    <3>1. rd.verdict # "ok" \/ s.kind = "more"
      BY <1>4, <1>5 DEF More
    <3>2. QED  BY <1>3, <3>1
  <2>2. QED  BY <1>5, <2>1 DEF r
<1>6. CASE ~Stuck(rd) /\ s = Corrupt
  <2>1. r = [rd EXCEPT !.verdict = "corrupt"] /\ rd.verdict = "ok" /\ b # << >>
    BY <1>1, <1>2, <1>3, <1>4, <1>6 DEF More, Corrupt, Done
  <2>2. r = Reader(rd.seen, b, rd.texts, "corrupt")
    BY <1>1, <2>1 DEF Reader
  <2>3. r \in Readers
    BY <1>1, <2>2, ReaderFields
  <2>4. TurnsLeft(r) = 0 /\ TurnsLeft(rd) = 1 + Len(b) /\ Len(b) >= 1
    BY <1>1, <1>4a, <2>1, <2>2, ReaderFields DEF TurnsLeft
  <2>5. TurnsLeft(r) < TurnsLeft(rd)
    BY <1>1, <2>4
  <2>6. QED  BY <1>6, <2>1, <2>2, <2>3, <2>4, <2>5 DEF r, s, b
<1>7. CASE ~Stuck(rd) /\ s # Corrupt
  <2>1. PICK n \in 1..Len(b), texts \in Seq(Bytes) : s = Done(n, texts)
    BY <1>2, <1>4, <1>7
  <2>2. rd.verdict = "ok" /\ s.kind = "done" /\ s.n = n /\ s.texts = texts
    BY <1>4, <1>7, <2>1 DEF Done
  <2>3. r = Reader(TRUE, Drop(b, n), rd.texts \o texts, "ok")
    BY <1>3, <2>2
  <2>4. Drop(b, n) \in Bytes /\ Len(Drop(b, n)) = Len(b) - n
    <3>1. n \in Nat
      BY <1>1
    <3>2. Drop(b, n) \in Bytes
      BY <1>1, <3>1, RestType DEF Drop, Bytes
    <3>3. b \in Seq(Nat) /\ n + 1 \in 1..(Len(b) + 1) /\ Len(b) \in n..Len(b)
      BY <1>1 DEF Bytes
    <3>4. Len(Drop(b, n)) = IF n + 1 <= Len(b) THEN Len(b) - (n + 1) + 1 ELSE 0
      <4>1. \A i \in (n + 1)..Len(b) : b[i] \in Nat
        <5>1. \A i \in 1..Len(b) : b[i] \in Nat
          BY <3>3, ElementOfSeq
        <5>2. QED  BY <1>1, <5>1
      <4> DEFINE m == n + 1
                 L == Len(b)
      <4>2. m \in Int /\ L \in Int /\ \A i \in m..L : b[i] \in Nat
        BY <1>1, <4>1
      <4> HIDE DEF m, L
      <4>3. Len(SubSeq(b, m, L)) = IF m <= L THEN L - m + 1 ELSE 0
        BY <4>2, SubSeqProperties
      <4>4. QED  BY <4>3 DEF m, L, Drop
    <3>5. Len(Drop(b, n)) = Len(b) - n
      BY <1>1, <3>4
    <3>6. QED  BY <3>2, <3>5
  <2>5. rd.texts \o texts \in Seq(Bytes)
    BY <1>1, <2>1, ConcatProperties
  <2>6. r \in Readers
    BY <2>3, <2>4, <2>5, ReaderFields
  <2>7. TurnsLeft(r) = 1 + Len(Drop(b, n)) /\ TurnsLeft(rd) = 1 + Len(b)
    <3>1. TurnsLeft(rd) = 1 + Len(b)
      BY <1>4a, <2>2
    <3>2. r.verdict = "ok" /\ r.buf = Drop(b, n)
      BY <2>3 DEF Reader
    <3>3. TurnsLeft(r) = 1 + Len(Drop(b, n))
      BY ONLY <3>2 DEF TurnsLeft
    <3>4. QED  BY <3>1, <3>3
  <2>8. TurnsLeft(r) < TurnsLeft(rd) /\ Len(b) >= 1
    BY <1>1, <2>4, <2>7
  <2>9. \E m \in 1..Len(b), ts \in Seq(Bytes) :
          s = Done(m, ts) /\ r = Reader(TRUE, Drop(b, m), rd.texts \o ts, "ok")
    BY <2>1, <2>3
  <2>10. Takes(r, rd)
    BY <2>9 DEF Takes, s, b
  <2>11. QED  BY <1>7, <2>2, <2>6, <2>8, <2>10 DEF r, s, b
<1>8. QED  BY <1>5, <1>6, <1>7 DEF s

Turn(rd) == TakeFrame(rd, 0)

LEMMA AnyPlace ==
  ASSUME NEW rd, NEW place
  PROVE  TakeFrame(rd, place) = Turn(rd)
BY DEF TakeFrame, Turn

LEMMA TurnType ==
  ASSUME NEW rd \in Readers
  PROVE  /\ Turn(rd) \in Readers
         /\ Stuck(rd) => Turn(rd) = rd
         /\ ~Stuck(rd) => TurnsLeft(Turn(rd)) < TurnsLeft(rd)
<1> DEFINE r == TakeFrame(rd, 0)
<1>1. r \in Readers /\ (Stuck(rd) => r = rd) /\ (~Stuck(rd) => TurnsLeft(r) < TurnsLeft(rd))
  BY TurnIs
<1>2. r = Turn(rd)
  BY DEF Turn
<1> HIDE DEF r
<1>3. QED  BY <1>1, <1>2

\* What waits or gives up needs no turn, and without a byte nothing else happens.
LEMMA StuckIs ==
  ASSUME NEW rd \in Readers
  PROVE  TurnsLeft(rd) <= 1 => Stuck(rd)
<1>1. SUFFICES ASSUME ~Stuck(rd) PROVE TurnsLeft(rd) > 1
  BY ReaderIs
<1>2. rd.verdict = "ok" /\ Len(rd.buf) >= 1 /\ Len(rd.buf) \in Nat
  BY <1>1, TurnIs, ReaderIs
<1>3. QED  BY <1>2 DEF TurnsLeft

\* A turn is the same with more bytes behind it.
LEMMA TurnGrows ==
  ASSUME NEW rd \in Readers, NEW t \in Bytes, ~Stuck(rd)
  PROVE  ~Stuck(With(rd, t)) /\ Turn(With(rd, t)) = With(Turn(rd), t)
<1> DEFINE b == rd.buf
           w == With(rd, t)
           s == StepOf(rd.seen, b)
<1>1. /\ rd.seen \in BOOLEAN /\ b \in Bytes /\ rd.texts \in Seq(Bytes) /\ Len(b) \in Nat
      /\ rd.verdict = "ok" /\ s # More
  <2>1. /\ rd.seen \in BOOLEAN /\ b \in Bytes /\ rd.texts \in Seq(Bytes) /\ Len(b) \in Nat
    BY ReaderIs
  <2>2. QED  BY <2>1 DEF Stuck
<1>2. /\ w \in Readers
      /\ w = Reader(rd.seen, b \o t, rd.texts, "ok")
  BY <1>1, WithIs
<1>3. StepOf(w.seen, w.buf) = s
  <2>1. StepOf(rd.seen, b \o t) = StepOf(rd.seen, b)
    BY <1>1, StepGrows
  <2>2. w.seen = rd.seen /\ w.buf = b \o t
    BY ONLY <1>2 DEF Reader
  <2>3. QED  BY <2>1, <2>2
<1>4. ~Stuck(w)
  <2>1. w.verdict = "ok"
    BY <1>2, ReaderFields
  <2>2. QED  BY <1>1, <1>3, <2>1 DEF Stuck
<1> HIDE DEF w
<1>5. Turn(rd) \in Readers /\ Turn(rd) = TakeFrame(rd, 0) /\ Turn(w) = TakeFrame(w, 0)
  BY TurnType DEF Turn
<1>6. CASE s = Corrupt
  <2>1. Turn(rd) = Reader(rd.seen, b, rd.texts, "corrupt")
    BY <1>5, <1>6, TurnIs
  <2>2. Turn(w) = Reader(w.seen, w.buf, w.texts, "corrupt")
    BY <1>2, <1>3, <1>4, <1>5, <1>6, TurnIs
  <2>3. Turn(w) = Reader(rd.seen, b \o t, rd.texts, "corrupt")
    BY <1>2, <2>2, ReaderFields
  <2>4. With(Turn(rd), t) = Reader(rd.seen, b \o t, rd.texts, "corrupt")
    BY <2>1, WithMore
  <2>5. QED  BY <1>4, <2>3, <2>4 DEF w
<1>7. CASE s # Corrupt
  <2>1. PICK n \in 1..Len(b), texts \in Seq(Bytes) :
          s = Done(n, texts) /\ Turn(rd) = Reader(TRUE, Drop(b, n), rd.texts \o texts, "ok")
    <3>1. Takes(TakeFrame(rd, 0), rd)
      BY <1>7, TurnIs
    <3>2. Takes(Turn(rd), rd)
      BY <1>5, <3>1
    <3>3. QED  BY <3>2 DEF Takes
  <2>2. PICK m \in 1..Len(w.buf), texts2 \in Seq(Bytes) :
          s = Done(m, texts2) /\ Turn(w) = Reader(TRUE, Drop(w.buf, m), w.texts \o texts2, "ok")
    <3>1. Takes(TakeFrame(w, 0), w)
      BY <1>2, <1>3, <1>4, <1>7, TurnIs
    <3>2. Takes(Turn(w), w)
      BY <1>5, <3>1
    <3>3. QED  BY <1>3, <3>2 DEF Takes
  <2>3. m = n /\ texts2 = texts
    BY <2>1, <2>2 DEF Done
  <2>4. Drop(b \o t, n) = Drop(b, n) \o t
    <3>1. n \in 0..Len(b) /\ b \in Seq(Nat) /\ t \in Seq(Nat)
      BY <1>1 DEF Bytes
    <3>2. QED  BY <3>1, Longer
  <2>5. Turn(w) = Reader(TRUE, Drop(b, n) \o t, rd.texts \o texts, "ok")
    <3> DEFINE c == rd.texts
               d == Drop(b, n) \o t
    <3>1. w.buf = b \o t /\ w.texts = c
      BY ONLY <1>2 DEF Reader
    <3>2. Drop(w.buf, m) = d /\ w.texts \o texts2 = c \o texts
      BY <2>3, <2>4, <3>1
    <3> HIDE DEF d, c
    <3>3. Turn(w) = Reader(TRUE, d, c \o texts, "ok")
      BY <2>2, <3>2
    <3>4. QED  BY <3>3 DEF d, c
  <2>6. With(Turn(rd), t) = Reader(TRUE, Drop(b, n) \o t, rd.texts \o texts, "ok")
    <3> DEFINE c == rd.texts \o texts
               d == Drop(b, n)
               seen == TRUE
    <3> HIDE DEF d, c, seen
    <3>1. With(Reader(seen, d, c, "ok"), t) = Reader(seen, d \o t, c, "ok")
      BY WithMore
    <3>2. Turn(rd) = Reader(seen, d, c, "ok")
      BY <2>1 DEF d, c, seen
    <3>3. With(Turn(rd), t) = Reader(seen, d \o t, c, "ok")
      BY <3>1, <3>2
    <3>4. QED  BY <3>3 DEF d, c, seen
  <2>7. QED  BY <1>4, <2>5, <2>6 DEF w
<1>8. QED  BY <1>6, <1>7

\* Some turns, one after the other.
Turns(f, rd, N) == f[0] = rd /\ \A i \in 1..N : f[i] = Turn(f[i - 1])

LEMMA DrainFold ==
  ASSUME NEW rd \in Readers
  PROVE  \E f \in [0..Len(rd.buf) -> Readers] : Turns(f, rd, Len(rd.buf)) /\ Drain(rd) = f[Len(rd.buf)]
<1> DEFINE s == rd.buf
           N == Len(s)
           a == rd
           F == [p \in Readers \X (1..N) |-> TakeFrame(p[1], s[p[2]])]
           Recursion(h) ==
             h = [T \in SUBSET (DOMAIN s) |->
                    IF T = {} THEN a ELSE TakeFrame(h[T \ {Max(T)}], s[Max(T)])]
           iter == CHOOSE h : Recursion(h)
<1>0. a \in Readers
  OBVIOUS
<1>1. N \in Nat /\ DOMAIN s = 1..N
  BY ReaderIs, LenProperties DEF Bytes
<1>2. F \in [Readers \X (1..N) -> Readers]
  <2>1. \A x \in Readers : \A y : TakeFrame(x, y) \in Readers
    BY TurnIs
  <2>2. QED  BY <2>1
<1>3. \A x \in Readers, m \in 1..N : F[<<x, m>>] = TakeFrame(x, s[m]) /\ F[<<x, m>>] = Turn(x)
  BY AnyPlace
<1> HIDE DEF F
<1>4. PICK h \in [SUBSET (1..N) -> Readers] : FoldsBy(h, a, F, N)
  BY <1>0, <1>1, <1>2, FoldExists
<1>5. ASSUME NEW T \in SUBSET (1..N)
      PROVE  h[T] = IF T = {} THEN a ELSE TakeFrame(h[T \ {Max(T)}], s[Max(T)])
  <2>1. h[T] = IF T = {} THEN a ELSE F[<<h[T \ {Max(T)}], Max(T)>>]
    BY <1>4 DEF FoldsBy
  <2>2. T # {} => Max(T) \in 1..N /\ h[T \ {Max(T)}] \in Readers
    BY <1>1, MaxIs
  <2>3. QED  BY <1>3, <2>1, <2>2
<1>6. Recursion(iter)
  <2>1. Recursion(h)
    BY <1>1, <1>5
  <2> HIDE DEF Recursion
  <2>2. QED  BY <2>1
<1>7. Drain(rd) = iter[1..N]
  BY <1>1 DEF Drain, FoldLeft, MapThenFoldSet
<1> HIDE DEF iter, a
<1>8. \A T \in SUBSET (1..N) :
        iter[T] = IF T = {} THEN a ELSE TakeFrame(iter[T \ {Max(T)}], s[Max(T)])
  BY <1>1, <1>6
<1>9. Recurs(iter, Readers, a, F, N)
  <2>1. iter[{}] = a
    BY <1>8
  <2>2. \A T \in SUBSET (1..N) : (T # {} /\ iter[T \ {Max(T)}] \in Readers) =>
          iter[T] = F[<<iter[T \ {Max(T)}], Max(T)>>]
    BY <1>1, <1>3, <1>8, MaxIs
  <2>3. QED  BY <2>1, <2>2 DEF Recurs
<1>10. \E g \in [0..N -> Readers] : Passes(g, iter, a, F, N)
  <2>1. N \in Nat
    BY <1>1
  <2> HIDE DEF N
  <2>2. QED  BY <1>0, <1>2, <1>9, <2>1, FoldSteps
<1>11. PICK g \in [0..N -> Readers] :
         g[0] = a /\ (\A i \in 1..N : g[i] = F[<<g[i - 1], i>>]) /\ iter[1..N] = g[N]
  BY <1>10 DEF Passes
<1>12. \A i \in 1..N : g[i] = Turn(g[i - 1])
  <2>1. \A i \in 1..N : i - 1 \in 0..N
    BY <1>1
  <2>2. \A i \in 1..N : g[i - 1] \in Readers
    BY <2>1
  <2>3. QED  BY <1>3, <1>11, <2>2
<1>13. QED  BY <1>7, <1>11, <1>12 DEF Turns, a

\* After i turns a reader of N bytes is stuck, or has at most N - i bytes left.
LEMMA TurnsEnd ==
  ASSUME NEW rd \in Readers, NEW N \in Nat, NEW f \in [0..N -> Readers], Turns(f, rd, N)
  PROVE  /\ \A i \in 0..N : Stuck(f[i]) \/ TurnsLeft(f[i]) + i <= TurnsLeft(rd)
         /\ \A i \in 0..N, j \in 0..N : Stuck(f[i]) /\ i <= j => f[j] = f[i]
<1>1. /\ f[0] = rd /\ \A i \in 1..N : f[i] = Turn(f[i - 1])
      /\ \A i \in 0..N : f[i] \in Readers
  BY DEF Turns
<1>2. ASSUME NEW i \in 1..N
      PROVE  /\ i - 1 \in 0..N /\ i \in 0..N /\ f[i - 1] \in Readers /\ f[i] \in Readers
             /\ Stuck(f[i - 1]) => f[i] = f[i - 1]
             /\ ~Stuck(f[i - 1]) => TurnsLeft(f[i]) < TurnsLeft(f[i - 1])
             /\ TurnsLeft(f[i]) \in Nat /\ TurnsLeft(f[i - 1]) \in Nat
  <2>1. i - 1 \in 0..N /\ i \in 0..N
    OBVIOUS
  <2>2. f[i - 1] \in Readers /\ f[i] \in Readers /\ f[i] = Turn(f[i - 1])
    BY <1>1, <2>1
  <2>3. TurnsLeft(f[i]) \in Nat /\ TurnsLeft(f[i - 1]) \in Nat
    BY <2>2, ReaderIs
  <2>4. QED  BY <2>1, <2>2, <2>3, TurnType
<1>3. \A i \in 0..N : Stuck(f[i]) \/ TurnsLeft(f[i]) + i <= TurnsLeft(rd)
  <2> DEFINE T == {i \in 0..N : Stuck(f[i]) \/ TurnsLeft(f[i]) + i <= TurnsLeft(rd)}
  <2>1. 0 \in T
    BY <1>1, ReaderIs
  <2>2. ASSUME NEW i \in 1..N, i - 1 \in T PROVE i \in T
    <3>1. Stuck(f[i - 1]) \/ TurnsLeft(f[i - 1]) + (i - 1) <= TurnsLeft(rd)
      BY <2>2
    <3>2. CASE Stuck(f[i - 1])
      <4>1. Stuck(f[i])
        BY <1>2, <3>2
      <4>2. QED  BY <1>2, <4>1
    <3>3. CASE ~Stuck(f[i - 1])
      <4>1. TurnsLeft(rd) \in Nat
        BY ReaderIs
      <4>2. TurnsLeft(f[i]) < TurnsLeft(f[i - 1]) /\ TurnsLeft(f[i]) \in Nat /\ TurnsLeft(f[i - 1]) \in Nat
        BY <1>2, <3>3
      <4>3. TurnsLeft(f[i]) + i <= TurnsLeft(rd)
        BY <3>1, <3>3, <4>1, <4>2
      <4>4. QED  BY <1>2, <4>3
    <3>4. QED  BY <3>2, <3>3
  <2>3. \A i \in 0..N : i \in T
    <3> HIDE DEF T
    <3>1. QED  BY <2>1, <2>2, Climb
  <2>4. QED  BY <2>3
<1>4. ASSUME NEW i \in 0..N, NEW j \in 0..N, Stuck(f[i]), i <= j PROVE f[j] = f[i]
  <2> DEFINE T == {k \in 0..(j - i) : f[i + k] = f[i]}
  <2>0. j - i \in Nat /\ i + 0 = i /\ 0 \in 0..(j - i)
    BY <1>4
  <2>1. 0 \in T
    BY <2>0
  <2>2. ASSUME NEW k \in 1..(j - i), k - 1 \in T PROVE k \in T
    <3>1. i + k \in 1..N /\ (i + k) - 1 = i + (k - 1) /\ f[i + (k - 1)] = f[i] /\ k \in 0..(j - i)
      BY <1>4, <2>2
    <3>2. f[i + k] = f[i]
      <4> DEFINE m == i + k
      <4>1. m \in 1..N /\ f[m - 1] = f[i]
        BY <3>1
      <4> HIDE DEF m
      <4>2. f[m] = f[i]
        BY <1>2, <1>4, <4>1
      <4>3. QED  BY <4>2 DEF m
    <3>3. QED  BY <3>1, <3>2
  <2>3. \A k \in 0..(j - i) : k \in T
    <3> HIDE DEF T
    <3>1. QED  BY <2>0, <2>1, <2>2, Climb
  <2>4. j - i \in 0..(j - i) /\ i + (j - i) = j
    BY <1>4
  <2>5. QED  BY <2>3, <2>4
<1>5. QED  BY <1>3, <1>4

\* Two runs of turns from the same reader agree.
LEMMA TurnsAgree ==
  ASSUME NEW rd, NEW N \in Nat, NEW M \in Nat, N <= M,
         NEW f, Turns(f, rd, N), NEW g, Turns(g, rd, M)
  PROVE  f[N] = g[N]
<1> DEFINE T == {i \in 0..N : f[i] = g[i]}
<1>1. 0 \in T
  BY DEF Turns
<1>2. ASSUME NEW i \in 1..N, i - 1 \in T PROVE i \in T
  <2>1. f[i] = Turn(f[i - 1]) /\ g[i] = Turn(g[i - 1]) /\ f[i - 1] = g[i - 1] /\ i \in 0..N
    BY <1>2 DEF Turns
  <2>2. f[i] = g[i]
    BY ONLY <2>1
  <2>3. QED  BY <2>1, <2>2
<1>3. \A i \in 0..N : i \in T
  <2> HIDE DEF T
  <2>1. QED  BY <1>1, <1>2, Climb
<1>4. QED  BY <1>3

\* Draining ends at a reader that is stuck, and is one turn and the rest of them.
LEMMA DrainIs ==
  ASSUME NEW rd \in Readers
  PROVE  /\ Drain(rd) \in Readers /\ Stuck(Drain(rd))
         /\ Stuck(rd) => Drain(rd) = rd
         /\ ~Stuck(rd) => Drain(rd) = Drain(Turn(rd))
<1> DEFINE N == Len(rd.buf)
<1>1. N \in Nat /\ rd.verdict \in {"ok", "corrupt"} /\ TurnsLeft(rd) <= 1 + N /\ TurnsLeft(rd) \in Nat
  BY ReaderIs DEF TurnsLeft
<1>2. PICK f \in [0..N -> Readers] : Turns(f, rd, N) /\ Drain(rd) = f[N]
  BY DrainFold
<1>3. /\ \A i \in 0..N : Stuck(f[i]) \/ TurnsLeft(f[i]) + i <= TurnsLeft(rd)
      /\ \A i \in 0..N, j \in 0..N : Stuck(f[i]) /\ i <= j => f[j] = f[i]
  BY <1>1, <1>2, TurnsEnd
<1>4. N \in 0..N /\ 0 \in 0..N /\ 0 <= N /\ f[N] \in Readers /\ f[0] = rd
  BY <1>1, <1>2 DEF Turns
<1> HIDE DEF N
<1>5. Stuck(f[N])
  <2>1. SUFFICES ASSUME ~Stuck(f[N]) PROVE FALSE
    OBVIOUS
  <2>2. TurnsLeft(f[N]) + N <= TurnsLeft(rd) /\ TurnsLeft(f[N]) \in Nat
    BY <1>3, <1>4, <2>1, ReaderIs
  <2>3. TurnsLeft(f[N]) <= 1
    BY <1>1, <2>2
  <2>4. QED  BY <1>4, <2>1, <2>3, StuckIs
<1>6. Stuck(rd) => f[N] = rd
  BY <1>3, <1>4
<1>7. ASSUME ~Stuck(rd) PROVE f[N] = Drain(Turn(rd))
  <2> DEFINE r == Turn(rd)
             M == Len(r.buf)
  <2>1. r \in Readers /\ TurnsLeft(r) < TurnsLeft(rd)
    BY <1>7, TurnType
  <2>2. N >= 1
    BY <1>7, TurnIs DEF N
  <2>3. M \in Nat /\ TurnsLeft(r) \in Nat
    BY <2>1, ReaderIs
  <2>4. PICK g \in [0..M -> Readers] : Turns(g, r, M) /\ Drain(r) = g[M]
    BY <2>1, DrainFold
  <2> DEFINE h == [i \in 0..(N - 1) |-> f[i + 1]]
  <2>5. \A i \in 0..(N - 1) : i + 1 \in 1..N /\ i + 1 \in 0..N
    BY <1>1, <2>2
  <2>6. h \in [0..(N - 1) -> Readers] /\ \A i \in 0..(N - 1) : h[i] = f[i + 1]
    BY <2>5
  <2> HIDE DEF h, M
  <2>7. Turns(h, r, N - 1)
    <3>1. h[0] = r
      <4>1. 0 \in 0..(N - 1) /\ h[0] = f[0 + 1] /\ f[1] = Turn(f[1 - 1]) /\ 1 - 1 = 0 /\ 0 + 1 = 1
        BY <1>1, <1>2, <2>2, <2>6 DEF Turns
      <4>2. QED  BY <1>4, <4>1
    <3>2. ASSUME NEW i \in 1..(N - 1) PROVE h[i] = Turn(h[i - 1])
      <4>1. i \in 0..(N - 1) /\ i - 1 \in 0..(N - 1) /\ (i - 1) + 1 = i /\ i + 1 \in 1..N /\ (i + 1) - 1 = i
        BY <1>1
      <4>2. h[i] = f[i + 1] /\ h[i - 1] = f[i] /\ f[i + 1] = Turn(f[i])
        BY <1>2, <2>6, <4>1 DEF Turns
      <4>3. QED  BY ONLY <4>2
    <3>3. QED  BY <3>1, <3>2 DEF Turns
  <2>8. h[N - 1] = f[N] /\ N - 1 \in Nat /\ N - 1 \in 0..(N - 1)
    <3>1. N - 1 \in 0..(N - 1) /\ (N - 1) + 1 = N /\ N - 1 \in Nat
      BY <1>1, <2>2
    <3>2. QED  BY <2>6, <3>1
  <2> HIDE DEF r
  <2>9. /\ \A i \in 0..M, j \in 0..M : Stuck(g[i]) /\ i <= j => g[j] = g[i]
        /\ \A i \in 0..(N - 1), j \in 0..(N - 1) : Stuck(h[i]) /\ i <= j => h[j] = h[i]
        /\ \A i \in 0..M : Stuck(g[i]) \/ TurnsLeft(g[i]) + i <= TurnsLeft(r)
    <3>1. /\ \A i \in 0..M, j \in 0..M : Stuck(g[i]) /\ i <= j => g[j] = g[i]
          /\ \A i \in 0..M : Stuck(g[i]) \/ TurnsLeft(g[i]) + i <= TurnsLeft(r)
      BY <2>1, <2>3, <2>4, TurnsEnd
    <3> DEFINE K == N - 1
    <3>2. K \in Nat /\ h \in [0..K -> Readers] /\ Turns(h, r, K)
      BY <2>6, <2>7, <2>8
    <3> HIDE DEF K
    <3>3. \A i \in 0..K, j \in 0..K : Stuck(h[i]) /\ i <= j => h[j] = h[i]
      BY <2>1, <3>2, TurnsEnd
    <3>4. QED  BY <3>1, <3>3 DEF K
  <2>10. CASE N - 1 <= M
    \* The drained reader was stuck before the last of its turns.
    <3>1. h[N - 1] = g[N - 1]
      <4> DEFINE K == N - 1
      <4>1. K \in Nat /\ K <= M /\ Turns(h, r, K)
        BY <2>7, <2>8, <2>10
      <4> HIDE DEF K
      <4>2. h[K] = g[K]
        BY <2>3, <2>4, <4>1, TurnsAgree
      <4>3. QED  BY <4>2 DEF K
    <3>2. N - 1 \in 0..M /\ M \in 0..M /\ Stuck(g[N - 1])
      <4>1. N - 1 \in 0..M /\ M \in 0..M
        BY <2>3, <2>8, <2>10
      <4>2. QED  BY <1>5, <2>8, <3>1, <4>1
    <3>3. g[M] = g[N - 1]
      BY <2>9, <2>10, <3>2
    <3>4. QED  BY <2>4, <2>8, <3>1, <3>3 DEF r
  <2>11. CASE M <= N - 1
    <3>1. g[M] = h[M]
      <4> DEFINE K == N - 1
      <4>1. K \in Nat /\ M <= K /\ Turns(h, r, K)
        BY <2>7, <2>8, <2>11
      <4> HIDE DEF K
      <4>2. QED  BY <2>3, <2>4, <4>1, TurnsAgree
    <3>2. M \in 0..M /\ M \in 0..(N - 1) /\ g[M] \in Readers
      BY <2>3, <2>4, <2>8, <2>11
    <3>3. Stuck(g[M])
      <4>1. SUFFICES ASSUME ~Stuck(g[M]) PROVE FALSE
        OBVIOUS
      <4>2. TurnsLeft(g[M]) + M <= TurnsLeft(r) /\ TurnsLeft(g[M]) \in Nat
        BY <2>9, <3>2, <4>1, ReaderIs
      <4>3. TurnsLeft(r) <= 1 + M
        BY <2>1, <2>3 DEF TurnsLeft, M
      <4>4. TurnsLeft(g[M]) <= 1
        BY <2>3, <4>2, <4>3
      <4>5. QED  BY <3>2, <4>1, <4>4, StuckIs
    <3>4. h[N - 1] = h[M]
      BY <2>8, <2>9, <2>11, <3>1, <3>2, <3>3
    <3>5. QED  BY <2>4, <2>8, <3>1, <3>4 DEF r
  <2>12. QED  BY <2>3, <2>8, <2>10, <2>11
<1>8. QED  BY <1>2, <1>4, <1>5, <1>6, <1>7

\* Draining a reader, and then with more, is draining it with that from the start;
\* what it has taken before it gives up it has taken.
LEMMA DrainMore ==
  ASSUME NEW rd \in Readers, NEW t \in Bytes
  PROVE  Drain(With(rd, t)) = IF Drain(rd).verdict = "ok" THEN Drain(With(Drain(rd), t))
                              ELSE With(Drain(rd), t)
<1> DEFINE Same(a) == Drain(With(a, t)) = IF Drain(a).verdict = "ok" THEN Drain(With(Drain(a), t))
                                          ELSE With(Drain(a), t)
           bad == {n \in Nat : \E a \in Readers : TurnsLeft(a) = n /\ ~Same(a)}
<1>1. SUFFICES ASSUME ~Same(rd) PROVE FALSE
  OBVIOUS
<1>2. bad # {}
  <2>1. TurnsLeft(rd) \in Nat
    BY ReaderIs
  <2> HIDE DEF Same
  <2>2. QED  BY <1>1, <2>1
<1>3. PICK n \in bad : \A m \in bad : n <= m
  <2>1. bad \in SUBSET Nat
    OBVIOUS
  <2> HIDE DEF bad
  <2>2. QED  BY <1>2, <2>1, LeastOf
<1>4. PICK a \in Readers : TurnsLeft(a) = n /\ ~Same(a)
  <2> HIDE DEF Same
  <2>1. QED  BY <1>3
<1>5. CASE Stuck(a)
  <2>1. Drain(a) = a
    BY <1>5, DrainIs
  <2>2. CASE a.verdict = "ok"
    BY <1>4, <2>1, <2>2
  <2>3. CASE a.verdict # "ok"
    <3>1. With(a, t) \in Readers /\ With(a, t).verdict = a.verdict
      <4>1. With(a, t) \in Readers
        BY WithIs
      <4>2. With(a, t).verdict = a.verdict
        BY ReaderIs DEF With, Readers
      <4>3. QED  BY <4>1, <4>2
    <3>2. Stuck(With(a, t))
      BY <2>3, <3>1 DEF Stuck
    <3>3. Drain(With(a, t)) = With(a, t)
      BY <3>1, <3>2, DrainIs
    <3>4. QED  BY <1>4, <2>1, <2>3, <3>3
  <2>4. QED  BY <2>2, <2>3
<1>6. CASE ~Stuck(a)
  <2> DEFINE b == Turn(a)
  <2>1. b \in Readers /\ TurnsLeft(b) < TurnsLeft(a) /\ TurnsLeft(b) \in Nat /\ TurnsLeft(a) \in Nat
    <3>1. b \in Readers /\ TurnsLeft(b) < TurnsLeft(a)
      BY <1>6, TurnType
    <3> HIDE DEF b
    <3>2. QED  BY <3>1, ReaderIs
  <2>2. Drain(a) = Drain(b)
    BY <1>6, DrainIs
  <2>3. ~Stuck(With(a, t)) /\ Turn(With(a, t)) = With(b, t) /\ With(a, t) \in Readers
    BY <1>6, TurnGrows, WithIs
  <2>4. Drain(With(a, t)) = Drain(With(b, t))
    BY <2>3, DrainIs
  <2> HIDE DEF b
  <2>5. Same(b)
    <3>1. SUFFICES ASSUME ~Same(b) PROVE FALSE
      OBVIOUS
    <3> HIDE DEF Same
    <3>2. TurnsLeft(b) \in bad
      BY <2>1, <3>1
    <3>3. ~(n <= TurnsLeft(b))
      BY <1>4, <2>1
    <3> HIDE DEF bad
    <3>4. QED  BY <1>3, <3>2, <3>3
  <2>6. Same(a)
    BY <2>2, <2>4, <2>5
  <2>7. QED  BY <1>4, <2>6
<1>7. QED  BY <1>5, <1>6

-----------------------------------------------------------------------------
(* Reads: however they cut a stream, it is read as if in one piece. *)

Feeds(g, ps) == g[0] = FreshReader /\ \A i \in 1..Len(ps) : g[i] = Feed(g[i - 1], ps[i])

LEMMA FreshIs ==
  /\ FreshReader \in Readers /\ FreshReader.verdict = "ok" /\ Drain(FreshReader) = FreshReader
  /\ With(FreshReader, << >>) = FreshReader
<1>1. << >> \in Bytes /\ << >> \in Seq(Bytes)
  BY EmptySeq DEF Bytes
<1>2. FreshReader \in Readers /\ FreshReader.verdict = "ok" /\ FreshReader.buf = << >>
      /\ FreshReader = Reader(FALSE, << >>, << >>, "ok")
  BY <1>1 DEF FreshReader, Readers, Reader
<1>3. Stuck(FreshReader)
  <2>1. StepOf(FALSE, << >>) = More
    <3>1. Len(<< >>) < 2
      OBVIOUS
    <3>2. QED  BY <3>1 DEF StepOf
  <2>2. FreshReader.seen = FALSE
    BY DEF FreshReader
  <2>3. QED  BY <1>2, <2>1, <2>2 DEF Stuck
<1>4. With(FreshReader, << >>) = FreshReader
  <2>1. << >> \o << >> = << >>
    BY <1>1, ConcatEmptySeq DEF Bytes
  <2>2. With(Reader(FALSE, << >>, << >>, "ok"), << >>) = Reader(FALSE, << >> \o << >>, << >>, "ok")
    BY DEF With, Reader
  <2>3. QED  BY <1>2, <2>1, <2>2
<1>5. QED  BY <1>2, <1>3, <1>4, DrainIs

LEMMA FeedType ==
  ASSUME NEW rd \in Readers, NEW piece \in Bytes
  PROVE  /\ Feed(rd, piece) \in Readers
         /\ Feed(rd, piece) = IF rd.verdict # "ok" THEN rd ELSE Drain(With(rd, piece))
<1>1. Feed(rd, piece) = IF rd.verdict # "ok" THEN rd ELSE Drain(With(rd, piece))
  BY DEF Feed, With
<1>2. With(rd, piece) \in Readers
  BY WithIs
<1>3. QED  BY <1>1, <1>2, DrainIs

LEMMA FeedFold ==
  ASSUME NEW ps \in Seq(Bytes)
  PROVE  \E g \in [0..Len(ps) -> Readers] :
           Feeds(g, ps) /\ FoldLeft(Feed, FreshReader, ps) = g[Len(ps)]
<1> DEFINE N == Len(ps)
           a == FreshReader
           F == [p \in Readers \X (1..N) |-> Feed(p[1], ps[p[2]])]
           Recursion(h) ==
             h = [T \in SUBSET (DOMAIN ps) |->
                    IF T = {} THEN a ELSE Feed(h[T \ {Max(T)}], ps[Max(T)])]
           iter == CHOOSE h : Recursion(h)
<1>0. a \in Readers
  BY FreshIs
<1>1. N \in Nat /\ DOMAIN ps = 1..N /\ \A i \in 1..N : ps[i] \in Bytes
  BY LenProperties, ElementOfSeq
<1>2. F \in [Readers \X (1..N) -> Readers]
  BY <1>1, FeedType
<1>3. \A x \in Readers, m \in 1..N : F[<<x, m>>] = Feed(x, ps[m])
  OBVIOUS
<1> HIDE DEF F
<1>4. PICK h \in [SUBSET (1..N) -> Readers] : FoldsBy(h, a, F, N)
  BY <1>0, <1>1, <1>2, FoldExists
<1>5. ASSUME NEW T \in SUBSET (1..N)
      PROVE  h[T] = IF T = {} THEN a ELSE Feed(h[T \ {Max(T)}], ps[Max(T)])
  <2>1. h[T] = IF T = {} THEN a ELSE F[<<h[T \ {Max(T)}], Max(T)>>]
    BY <1>4 DEF FoldsBy
  <2>2. T # {} => Max(T) \in 1..N /\ h[T \ {Max(T)}] \in Readers
    BY <1>1, MaxIs
  <2>3. QED  BY <1>3, <2>1, <2>2
<1>6. Recursion(iter)
  <2>1. Recursion(h)
    BY <1>1, <1>5
  <2> HIDE DEF Recursion
  <2>2. QED  BY <2>1
<1>7. FoldLeft(Feed, a, ps) = iter[1..N]
  BY <1>1 DEF FoldLeft, MapThenFoldSet
<1> HIDE DEF iter, a
<1>8. \A T \in SUBSET (1..N) :
        iter[T] = IF T = {} THEN a ELSE Feed(iter[T \ {Max(T)}], ps[Max(T)])
  BY <1>1, <1>6
<1>9. Recurs(iter, Readers, a, F, N)
  <2>1. iter[{}] = a
    BY <1>8
  <2>2. \A T \in SUBSET (1..N) : (T # {} /\ iter[T \ {Max(T)}] \in Readers) =>
          iter[T] = F[<<iter[T \ {Max(T)}], Max(T)>>]
    BY <1>1, <1>3, <1>8, MaxIs
  <2>3. QED  BY <2>1, <2>2 DEF Recurs
<1>10. \E g \in [0..N -> Readers] : Passes(g, iter, a, F, N)
  <2>1. N \in Nat
    BY <1>1
  <2> HIDE DEF N
  <2>2. QED  BY <1>0, <1>2, <1>9, <2>1, FoldSteps
<1>11. PICK g \in [0..N -> Readers] :
         g[0] = a /\ (\A i \in 1..N : g[i] = F[<<g[i - 1], i>>]) /\ iter[1..N] = g[N]
  BY <1>10 DEF Passes
<1>12. \A i \in 1..N : g[i] = Feed(g[i - 1], ps[i])
  <2>1. \A i \in 1..N : i - 1 \in 0..N
    BY <1>1
  <2>2. \A i \in 1..N : g[i - 1] \in Readers
    BY <2>1
  <2>3. QED  BY <1>3, <1>11, <2>2
<1>13. QED  BY <1>7, <1>11, <1>12 DEF Feeds, a

\* What read_stream makes of its reader at the end.
Outcome(rd) ==
  Loaded(rd.texts, IF rd.verdict = "ok" /\ rd.buf # << >> THEN "truncated" ELSE rd.verdict)

\* What draining all the bytes at once gives.
Whole(bytes) == Drain(With(FreshReader, bytes))

LEMMA WholeIs ==
  ASSUME NEW bytes \in Bytes
  PROVE  Whole(bytes) \in Readers /\ With(FreshReader, bytes) \in Readers
BY FreshIs, WithIs, DrainIs DEF Whole

LEMMA WithTwice ==
  ASSUME NEW rd \in Readers, NEW s \in Bytes, NEW t \in Bytes
  PROVE  With(With(rd, s), t) = With(rd, s \o t)
<1> DEFINE a == rd.seen
           b == rd.buf
           c == rd.texts
           d == rd.verdict
<1>1. rd = Reader(a, b, c, d) /\ b \in Bytes
  BY ReaderIs
<1> HIDE DEF a, b, c, d
<1>2. With(rd, s) = Reader(a, b \o s, c, d) /\ With(rd, s \o t) = Reader(a, b \o (s \o t), c, d)
  BY <1>1, WithMore
<1>3. With(Reader(a, b \o s, c, d), t) = Reader(a, (b \o s) \o t, c, d)
  BY WithMore
<1>4. (b \o s) \o t = b \o (s \o t)
  <2>1. b \in Seq(Nat) /\ s \in Seq(Nat) /\ t \in Seq(Nat)
    BY <1>1 DEF Bytes
  <2>2. Regroups(b, s, t)
    BY <2>1, JoinsAssociate
  <2>3. QED  BY <2>2 DEF Regroups
<1>5. QED  BY <1>2, <1>3, <1>4

LEMMA ReadWhole ==
  ASSUME NEW ps \in Seq(Bytes)
  PROVE  ReadStream(ps) = Outcome(Whole(FlattenSeq(ps)))
<1> DEFINE N == Len(ps)
<1>1. N \in Nat /\ \A i \in 1..N : ps[i] \in Bytes
  BY LenProperties, ElementOfSeq
<1>2. PICK g \in [0..N -> Readers] : Feeds(g, ps) /\ FoldLeft(Feed, FreshReader, ps) = g[N]
  BY FeedFold
<1>3. PICK c \in [0..N -> Bytes] : Concats(ps, c, N)
  BY ConcatsExist DEF Bytes
<1>4. FlattenSeq(ps) = c[N]
  BY <1>3, FlattenIs DEF Bytes
<1>5. /\ g[0] = FreshReader /\ \A i \in 1..N : g[i] = Feed(g[i - 1], ps[i])
      /\ c[0] = << >> /\ \A i \in 1..N : c[i] = c[i - 1] \o ps[i]
  BY <1>2, <1>3 DEF Feeds, Concats
<1> HIDE DEF N
\* After i reads: what draining them at once gives, but for what follows an error.
<1> DEFINE Good(rd, w) == IF w.verdict = "ok" THEN rd = w ELSE rd.verdict = w.verdict /\ rd.texts = w.texts
           T == {i \in 0..N : Good(g[i], Whole(c[i]))}
<1>6. 0 \in T
  <2>1. Whole(<< >>) = FreshReader
    BY FreshIs DEF Whole
  <2>2. QED  BY <1>1, <1>5, <2>1
<1>7. ASSUME NEW i \in 1..N, i - 1 \in T PROVE i \in T
  <2> DEFINE rd == g[i - 1]
             w == Whole(c[i - 1])
             p == ps[i]
             b == c[i - 1]
  <2>1. i - 1 \in 0..N /\ i \in 0..N
    BY <1>1
  <2>2. /\ rd \in Readers /\ b \in Bytes /\ w \in Readers /\ p \in Bytes
        /\ g[i] = Feed(rd, p) /\ c[i] = b \o p /\ Good(rd, w)
    <3>1. rd \in Readers /\ b \in Bytes /\ p \in Bytes /\ Good(rd, w) /\ g[i] = Feed(rd, p) /\ c[i] = b \o p
      BY <1>1, <1>5, <1>7, <2>1
    <3>2. w \in Readers
      BY <3>1, WholeIs
    <3>3. QED  BY <3>1, <3>2
  <2>3. Whole(b \o p) = IF w.verdict = "ok" THEN Drain(With(w, p)) ELSE With(w, p)
    <3>1. With(FreshReader, b) \in Readers
      BY <2>2, WholeIs
    <3>2. With(With(FreshReader, b), p) = With(FreshReader, b \o p)
      BY <2>2, FreshIs, WithTwice
    <3>3. Drain(With(With(FreshReader, b), p)) =
            IF Drain(With(FreshReader, b)).verdict = "ok"
            THEN Drain(With(Drain(With(FreshReader, b)), p))
            ELSE With(Drain(With(FreshReader, b)), p)
      <4> DEFINE y == With(FreshReader, b)
      <4> HIDE DEF y, p
      <4>1. y \in Readers /\ p \in Bytes
        BY <2>2, <3>1 DEF y
      <4>2. Drain(With(y, p)) = IF Drain(y).verdict = "ok" THEN Drain(With(Drain(y), p)) ELSE With(Drain(y), p)
        BY <4>1, DrainMore
      <4>3. QED  BY <4>2 DEF y
    <3>4. QED  BY <3>2, <3>3 DEF Whole
  <2>4. Feed(rd, p) = IF rd.verdict # "ok" THEN rd ELSE Drain(With(rd, p))
    BY <2>2, FeedType
  <2> HIDE DEF rd, w, p, b
  <2>5. CASE w.verdict = "ok"
    <3>1. rd = w
      BY <2>2, <2>5
    <3>2. g[i] = Whole(c[i])
      BY <2>2, <2>3, <2>4, <2>5, <3>1
    <3>3. Good(g[i], Whole(c[i]))
      <4> DEFINE x == Whole(c[i])
      <4> HIDE DEF x
      <4>1. g[i] = x
        BY <3>2 DEF x
      <4>2. Good(g[i], x)
        BY <4>1
      <4>3. QED  BY <4>2 DEF x
    <3> HIDE DEF Good
    <3>4. QED  BY <2>1, <3>3
  <2>6. CASE w.verdict # "ok"
    <3>1. rd.verdict = w.verdict /\ rd.texts = w.texts
      BY <2>2, <2>6
    <3>2. g[i] = rd /\ Whole(c[i]) = With(w, p)
      BY <2>2, <2>3, <2>4, <2>6, <3>1
    <3>3. With(w, p).verdict = w.verdict /\ With(w, p).texts = w.texts
      <4>1. With(w, p) = Reader(w.seen, w.buf \o p, w.texts, w.verdict)
        BY <2>2, WithIs
      <4> DEFINE z == With(w, p)
                 v1 == w.seen
                 v2 == w.buf \o p
                 v3 == w.texts
                 v4 == w.verdict
      <4> HIDE DEF z, v1, v2, v3, v4
      <4>2. z = Reader(v1, v2, v3, v4)
        BY <4>1 DEF z, v1, v2, v3, v4
      <4>3. z.verdict = v4 /\ z.texts = v3
        BY <4>2, ReaderFields
      <4>4. QED  BY <4>3 DEF z, v3, v4
    <3>4. Good(g[i], Whole(c[i]))
      BY <2>6, <3>1, <3>2, <3>3
    <3> HIDE DEF Good
    <3>5. QED  BY <2>1, <3>4
  <2>7. QED  BY <2>5, <2>6
<1>8. Good(g[N], Whole(c[N]))
  <2>1. \A i \in 0..N : i \in T
    <3> HIDE DEF T
    <3>1. QED  BY <1>1, <1>6, <1>7, Climb
  <2>2. N \in 0..N
    BY <1>1
  <2> HIDE DEF Good
  <2>3. QED  BY <2>1, <2>2
<1>9. Outcome(g[N]) = Outcome(Whole(c[N]))
  <2> DEFINE rd == g[N]
             w == Whole(c[N])
  <2> HIDE DEF rd, w
  <2>1. Good(rd, w)
    BY <1>8 DEF rd, w
  <2>2. CASE w.verdict = "ok"
    BY <2>1, <2>2 DEF rd, w
  <2>3. CASE w.verdict # "ok"
    <3>1. Outcome(rd) = Loaded(rd.texts, rd.verdict) /\ Outcome(w) = Loaded(w.texts, w.verdict)
      BY <2>1, <2>3 DEF Outcome
    <3>2. QED  BY <2>1, <2>3, <3>1 DEF rd, w
  <2>4. QED  BY <2>2, <2>3
<1>10. ReadStream(ps) = Outcome(g[N])
  BY <1>2 DEF ReadStream, Outcome
<1>11. QED  BY <1>4, <1>9, <1>10

-----------------------------------------------------------------------------
(* The container: what a reader does depends on the bytes, not on the reads. *)

\* The beginning of a sequence and the rest of it.
LEMMA CutInTwo ==
  ASSUME NEW S, NEW s \in Seq(S), NEW n \in 0..Len(s)
  PROVE  /\ Take(s, n) \in Seq(S) /\ Drop(s, n) \in Seq(S) /\ s = Take(s, n) \o Drop(s, n)
         /\ Len(Take(s, n)) = n /\ Len(Drop(s, n)) = Len(s) - n
         /\ \A i \in 1..n : Take(s, n)[i] = s[i]
         /\ \A i \in 1..(Len(s) - n) : Drop(s, n)[i] = s[n + i]
<1> DEFINE L == Len(s)
           m == n + 1
<1>1. L \in Nat /\ n \in Nat /\ n <= L /\ \A i \in 1..L : s[i] \in S
  BY LenProperties, ElementOfSeq
<1> HIDE DEF L
<1>2. /\ Take(s, n) \in Seq(S) /\ Len(Take(s, n)) = n
      /\ \A i \in 1..n : Take(s, n)[i] = s[i]
  <2>1. \A i \in 1..n : s[i] \in S
    BY <1>1
  <2>2. /\ SubSeq(s, 1, n) \in Seq(S) /\ Len(SubSeq(s, 1, n)) = IF 1 <= n THEN n - 1 + 1 ELSE 0
        /\ \A i \in 1..(n - 1 + 1) : SubSeq(s, 1, n)[i] = s[1 + i - 1]
    BY <1>1, <2>1, SubSeqProperties
  <2>3. n - 1 + 1 = n /\ \A i \in 1..n : 1 + i - 1 = i
    BY <1>1
  <2>4. Len(SubSeq(s, 1, n)) = n
    BY <1>1, <2>2
  <2>5. QED  BY <2>2, <2>3, <2>4 DEF Take
<1>3. /\ Drop(s, n) \in Seq(S) /\ Len(Drop(s, n)) = L - n
      /\ \A i \in 1..(L - n) : Drop(s, n)[i] = s[n + i]
  <2>1. m \in Int /\ L \in Int /\ \A i \in m..L : s[i] \in S
    BY <1>1
  <2>2. L - m + 1 = L - n /\ \A i \in 1..(L - n) : m + i - 1 = n + i
    BY <1>1
  <2>3. IF m <= L THEN L - n = L - m + 1 ELSE L - n = 0
    BY <1>1
  <2> HIDE DEF m
  <2>4. /\ SubSeq(s, m, L) \in Seq(S) /\ Len(SubSeq(s, m, L)) = IF m <= L THEN L - m + 1 ELSE 0
        /\ \A i \in 1..(L - m + 1) : SubSeq(s, m, L)[i] = s[m + i - 1]
    BY <2>1, SubSeqProperties
  <2>5. Len(SubSeq(s, m, L)) = L - n
    BY <2>3, <2>4
  <2>6. \A i \in 1..(L - n) : SubSeq(s, m, L)[i] = s[n + i]
    BY <2>2, <2>4
  <2>7. Drop(s, n) = SubSeq(s, m, L)
    BY DEF Drop, m, L
  <2>8. QED  BY <2>4, <2>5, <2>6, <2>7
<1>4. s = Take(s, n) \o Drop(s, n)
  <2>1. CASE n = 0
    <3>1. Take(s, n) = << >>
      BY <1>2, <2>1, EmptySeq
    <3>2. Drop(s, n) = SubSeq(s, 1, L) /\ SubSeq(s, 1, L) = s
      BY <2>1, SubSeqFull DEF Drop, L
    <3>3. QED  BY <3>1, <3>2, ConcatEmptySeq
  <2>2. CASE n # 0
    <3>1. n \in 1..L
      BY <1>1, <2>2
    <3>2. SubSeq(s, 1, n) \o SubSeq(s, n + 1, L) = s
      <4>1. CASE n = L
        <5>1. SubSeq(s, n + 1, L) = << >> /\ SubSeq(s, 1, n) = s
          <6>1. L < n + 1
            BY <1>1, <4>1
          <6>2. SubSeq(s, n + 1, L) = << >>
            BY <1>1, <6>1, SubSeqEmpty
          <6>3. QED  BY <4>1, <6>2, SubSeqFull DEF L
        <5>2. QED  BY <5>1, ConcatEmptySeq
      <4>2. CASE n # L
        <5>1. SubSeq(s, 1, n) \o SubSeq(s, n + 1, L) = SubSeq(s, 1, L)
          <6>1. 1 \in 1..Len(s) /\ n \in 1..Len(s) /\ L \in 1..Len(s) /\ 1 <= n /\ n < L
            BY <1>1, <3>1, <4>2 DEF L
          <6>2. QED  BY <6>1, ConcatAdjacentSubSeq
        <5>2. QED  BY <5>1, SubSeqFull DEF L
      <4>3. QED  BY <4>1, <4>2
    <3>3. QED  BY <3>2 DEF Take, Drop, L
  <2>3. QED  BY <2>1, <2>2
<1>5. QED  BY <1>2, <1>3, <1>4 DEF L

\* A buffer filled as far as needed: nothing read is lost, and it is short only at the end.
Fills(r, total, need) ==
  /\ r.buf \in Bytes /\ r.pieces \in Seq(Bytes)
  /\ r.buf \o FlattenSeq(r.pieces) = total
  /\ r.ok <=> Len(total) >= need
  /\ r.ok => Len(r.buf) >= need
  /\ ~r.ok => r.buf = total

LEMMA FillIs ==
  ASSUME NEW buf \in Bytes, NEW ps \in Seq(Bytes), NEW need \in Nat
  PROVE  Fills(Fill(buf, ps, need), buf \o FlattenSeq(ps), need)
<1> DEFINE Filled(n) == buf \o FlattenSeq(Take(ps, n))
           N == Len(ps)
           enough == {n \in 0..N : Len(Filled(n)) >= need}
           m == IF enough = {} THEN N ELSE Min(enough)
           total == buf \o FlattenSeq(ps)
           r == Fill(buf, ps, need)
<1>1. N \in Nat
  BY LenProperties
<1>2. ASSUME NEW n \in 0..N
      PROVE  /\ Filled(n) \in Bytes /\ Drop(ps, n) \in Seq(Bytes)
             /\ Filled(n) \o FlattenSeq(Drop(ps, n)) = total
             /\ Len(Filled(n)) \in Nat /\ Len(Filled(n)) <= Len(total)
  <2> DEFINE a == Take(ps, n)
             b == Drop(ps, n)
  <2>1. a \in Seq(Bytes) /\ b \in Seq(Bytes) /\ ps = a \o b
    BY CutInTwo
  <2> HIDE DEF a, b
  <2>2. FlattenSeq(ps) = FlattenSeq(a) \o FlattenSeq(b) /\ FlattenSeq(a) \in Bytes /\ FlattenSeq(b) \in Bytes
    BY <2>1, FlattenConcat, FlattenType DEF Bytes
  <2> DEFINE x == FlattenSeq(a)
             y == FlattenSeq(b)
  <2> HIDE DEF x, y
  <2>3. FlattenSeq(ps) = x \o y /\ x \in Bytes /\ y \in Bytes
    BY <2>2 DEF x, y
  <2>4. (buf \o x) \o y = buf \o (x \o y) /\ buf \o x \in Bytes
    <3>1. buf \in Seq(Nat) /\ x \in Seq(Nat) /\ y \in Seq(Nat)
      BY <2>3 DEF Bytes
    <3>2. (buf \o x) \o y = buf \o (x \o y)
      <4>1. Regroups(buf, x, y)
        BY <3>1, JoinsAssociate
      <4>2. QED  BY <4>1 DEF Regroups
    <3>3. buf \o x \in Seq(Nat)
      BY <3>1, ConcatProperties
    <3>4. QED  BY <3>2, <3>3 DEF Bytes
  <2>5. Len(buf \o x) \in Nat /\ Len(buf \o x) <= Len((buf \o x) \o y)
    BY <2>3, <2>4, Longer DEF Bytes
  <2>6. QED  BY <2>1, <2>3, <2>4, <2>5 DEF a, b, x, y
<1>3. Filled(N) = total
  <2>1. Take(ps, N) = ps
    BY SubSeqFull DEF Take
  <2>2. QED  BY <2>1
<1>4. r = [ok |-> enough # {}, buf |-> Filled(m), pieces |-> Drop(ps, m)]
  BY DEF Fill
<1> HIDE DEF Filled
<1>5. enough # {} <=> Len(total) >= need
  <2>1. ASSUME Len(total) >= need PROVE N \in enough
    BY <1>1, <1>3, <2>1
  <2>2. ASSUME NEW n \in enough PROVE Len(total) >= need
    <3>1. n \in 0..N /\ Len(Filled(n)) >= need /\ Len(Filled(n)) <= Len(total) /\ Len(Filled(n)) \in Nat
      BY <1>2
    <3>2. Len(total) \in Nat
      BY <1>1, <1>2, <1>3
    <3> HIDE DEF total
    <3>3. QED  BY <3>1, <3>2
  <2>3. QED  BY <2>1, <2>2
<1>6. /\ m \in 0..N
      /\ enough # {} => Len(Filled(m)) >= need
      /\ enough = {} => m = N
  <2>1. CASE enough = {}
    BY <1>1, <2>1
  <2>2. CASE enough # {}
    <3>1. enough \in SUBSET Nat
      OBVIOUS
    <3> HIDE DEF enough
    <3>2. \E k \in enough : \A j \in enough : k <= j
      BY <2>2, <3>1, LeastOf
    <3>3. m \in enough
      BY <2>2, <3>2 DEF Min
    <3>4. QED  BY <2>2, <3>3 DEF enough
  <2>3. QED  BY <2>1, <2>2
<1> HIDE DEF m, enough, N, total, r
<1>7. r.ok = (enough # {}) /\ r.buf = Filled(m) /\ r.pieces = Drop(ps, m)
  BY <1>4
<1>8. Fills(r, total, need)
  <2>1. r.buf \in Bytes /\ r.pieces \in Seq(Bytes) /\ r.buf \o FlattenSeq(r.pieces) = total
    BY <1>2, <1>6, <1>7
  <2>2. r.ok <=> Len(total) >= need
    BY <1>5, <1>7
  <2>3. r.ok => Len(r.buf) >= need
    BY <1>6, <1>7
  <2>4. ~r.ok => r.buf = total
    BY <1>3, <1>6, <1>7
  <2>5. QED  BY <2>1, <2>2, <2>3, <2>4 DEF Fills
<1>9. QED  BY <1>8 DEF r, total

LEMMA OpenSegmentIs ==
  ASSUME NEW rawLen, NEW comp \in Bytes
  PROVE  OpenSegment(rawLen, comp).texts \in Seq(Bytes)
<1>1. << >> \in Seq(Bytes)
  BY EmptySeq
<1>2. CASE comp # << >> /\ comp[1] = Len(comp) - 1
  <2> DEFINE raw == Drop(comp, 1)
  <2>1. Inflate(comp) = <<raw>> /\ <<raw>> # << >> /\ <<raw>>[1] = raw
    BY <1>2 DEF Inflate
  <2>2. raw \in Bytes
    BY RestType DEF Drop, Bytes
  <2> HIDE DEF raw
  <2>3. SegmentTexts(raw).texts \in Seq(Bytes)
    <3> DEFINE start == [FreshReader EXCEPT !.buf = raw]
    <3>1. start \in Readers
      BY <1>1, <2>2, FreshIs DEF Readers
    <3>2. Drain(start).texts \in Seq(Bytes)
      <4> HIDE DEF start
      <4>1. Drain(start) \in Readers
        BY <3>1, DrainIs
      <4>2. QED  BY <4>1 DEF Readers
    <3>3. SegmentTexts(raw).texts = Drain(start).texts
      BY DEF SegmentTexts
    <3>4. QED  BY <3>2, <3>3
  <2>4. OpenSegment(rawLen, comp) =
          IF Inflate(comp) # << >> /\ Len(Inflate(comp)[1]) = rawLen THEN SegmentTexts(Inflate(comp)[1])
          ELSE [texts |-> << >>, ok |-> FALSE]
    BY DEF OpenSegment
  <2>5. OpenSegment(rawLen, comp) =
          IF Len(raw) = rawLen THEN SegmentTexts(raw) ELSE [texts |-> << >>, ok |-> FALSE]
    BY <2>1, <2>4
  <2>6. CASE Len(raw) = rawLen
    BY <2>3, <2>5, <2>6
  <2>7. CASE Len(raw) # rawLen
    <3>1. OpenSegment(rawLen, comp) = [texts |-> << >>, ok |-> FALSE]
      BY <2>5, <2>7
    <3>2. OpenSegment(rawLen, comp).texts = << >>
      BY <3>1
    <3>3. QED  BY <1>1, <3>2
  <2>8. QED  BY <2>6, <2>7
<1>3. CASE ~(comp # << >> /\ comp[1] = Len(comp) - 1)
  <2>1. Inflate(comp) = << >>
    BY <1>3 DEF Inflate
  <2>2. OpenSegment(rawLen, comp) = [texts |-> << >>, ok |-> FALSE]
    BY <2>1 DEF OpenSegment
  <2>3. OpenSegment(rawLen, comp).texts = << >>
    BY <2>2
  <2>4. QED  BY <1>1, <2>3
<1>4. QED  BY <1>2, <1>3

SegReaders == [buf : Bytes, pieces : Seq(Bytes), texts : Seq(Bytes), verdict : {"ok", "corrupt"}]
Rest(rd) == rd.buf \o FlattenSeq(rd.pieces)

\* A reader of segments with its reads joined, and a turn of it.
Loading(rest, texts, verdict) == [rest |-> rest, texts |-> texts, verdict |-> verdict]
View(rd) == Loading(Rest(rd), rd.texts, rd.verdict)
SegTurn(x) ==
  LET comp == x.rest[2]
      seg == OpenSegment(x.rest[1], SubSeq(x.rest, 3, 2 + comp))
      rest == Drop(x.rest, 2 + comp)
  IN  IF x.verdict # "ok" \/ Len(x.rest) < 2 THEN x
      ELSE IF x.rest[1] > MaxSegment \/ comp > MaxSegment THEN Loading(x.rest, x.texts, "corrupt")
      ELSE IF Len(x.rest) < 2 + comp THEN x
      ELSE Loading(rest, x.texts \o seg.texts, IF seg.ok \/ Len(rest) < 1 THEN "ok" ELSE "corrupt")

LEMMA SegReaderIs ==
  ASSUME NEW rd \in SegReaders
  PROVE  /\ rd.buf \in Bytes /\ rd.pieces \in Seq(Bytes) /\ rd.texts \in Seq(Bytes)
         /\ rd.verdict \in {"ok", "corrupt"} /\ Rest(rd) \in Bytes /\ Len(Rest(rd)) \in Nat
         /\ View(rd).rest = Rest(rd) /\ View(rd).texts = rd.texts /\ View(rd).verdict = rd.verdict
<1>1. /\ rd.buf \in Bytes /\ rd.pieces \in Seq(Bytes) /\ rd.texts \in Seq(Bytes)
      /\ rd.verdict \in {"ok", "corrupt"}
  BY DEF SegReaders
<1>2. FlattenSeq(rd.pieces) \in Bytes
  BY <1>1, FlattenType DEF Bytes
<1>3. Rest(rd) \in Bytes
  BY <1>1, <1>2, ConcatProperties DEF Rest, Bytes
<1>4. Len(Rest(rd)) \in Nat
  BY <1>3, LenProperties DEF Bytes
<1>5. View(rd).rest = Rest(rd) /\ View(rd).texts = rd.texts /\ View(rd).verdict = rd.verdict
  BY DEF View, Loading
<1>6. QED  BY <1>1, <1>3, <1>4, <1>5

LEMMA SegTurnIs ==
  ASSUME NEW rd \in SegReaders, NEW place
  PROVE  TakeSegment(rd, place) \in SegReaders /\ View(TakeSegment(rd, place)) = SegTurn(View(rd))
<1> DEFINE head == Fill(rd.buf, rd.pieces, 2)
           comp == head.buf[2]
           whole == Fill(head.buf, head.pieces, 2 + comp)
           seg == OpenSegment(head.buf[1], SubSeq(whole.buf, 3, 2 + comp))
           rest == Drop(whole.buf, 2 + comp)
           more == Fill(rest, whole.pieces, 1).ok
           T == Rest(rd)
           x == View(rd)
           r == TakeSegment(rd, place)
           segT == OpenSegment(T[1], SubSeq(T, 3, 2 + T[2]))
           restT == Drop(T, 2 + T[2])
<1>1. /\ rd.buf \in Bytes /\ rd.pieces \in Seq(Bytes) /\ rd.texts \in Seq(Bytes)
      /\ rd.verdict \in {"ok", "corrupt"} /\ T \in Bytes /\ Len(T) \in Nat
      /\ x.rest = T /\ x.texts = rd.texts /\ x.verdict = rd.verdict
      /\ x = Loading(T, rd.texts, rd.verdict)
  BY SegReaderIs DEF View
<1>2. r = IF rd.verdict # "ok" \/ ~head.ok THEN rd
          ELSE IF head.buf[1] > MaxSegment \/ comp > MaxSegment THEN [rd EXCEPT !.verdict = "corrupt"]
          ELSE IF ~whole.ok THEN rd
          ELSE [buf |-> rest, pieces |-> whole.pieces, texts |-> rd.texts \o seg.texts,
                verdict |-> IF seg.ok \/ ~more THEN "ok" ELSE "corrupt"]
  BY DEF TakeSegment
<1>3. SegTurn(x) = IF rd.verdict # "ok" \/ Len(T) < 2 THEN x
                   ELSE IF T[1] > MaxSegment \/ T[2] > MaxSegment THEN Loading(T, rd.texts, "corrupt")
                   ELSE IF Len(T) < 2 + T[2] THEN x
                   ELSE Loading(restT, rd.texts \o segT.texts,
                               IF segT.ok \/ Len(restT) < 1 THEN "ok" ELSE "corrupt")
  <2> HIDE DEF x, T
  <2>1. QED  BY <1>1 DEF SegTurn
<1>4. Fills(head, T, 2)
  BY <1>1, FillIs DEF Rest
<1> HIDE DEF head, T, x, r, more, rest, seg
<1>5. CASE rd.verdict # "ok" \/ Len(T) < 2
  <2>1. rd.verdict # "ok" \/ ~head.ok
    BY <1>1, <1>4, <1>5 DEF Fills
  <2>2. r = rd /\ SegTurn(x) = x
    BY <1>2, <1>3, <1>5, <2>1
  <2>3. QED  BY <2>2 DEF r, x
<1>6. CASE rd.verdict = "ok" /\ Len(T) >= 2
  <2> DEFINE a == head.buf
             c == FlattenSeq(head.pieces)
  <2>1. /\ head.ok /\ Len(a) >= 2 /\ a \in Bytes /\ head.pieces \in Seq(Bytes) /\ a \o c = T
    BY <1>4, <1>6 DEF Fills
  <2>2. c \in Bytes /\ Len(a) \in Nat
    BY <2>1, FlattenType, LenProperties DEF Bytes
  <2> HIDE DEF a, c
  <2>3. T[1] = a[1] /\ T[2] = a[2] /\ a[1] \in Nat /\ a[2] \in Nat
    <3>1. 1 \in 1..Len(a) /\ 2 \in 1..Len(a)
      BY <2>1, <2>2
    <3>2. \A i \in 1..Len(a) : a[i] \in Nat /\ T[i] = a[i]
      BY <2>1, <2>2, ElementOfSeq, Longer DEF Bytes
    <3>3. QED  BY <3>1, <3>2
  <2>4. comp = T[2] /\ head.buf[1] = T[1] /\ comp \in Nat
    BY <2>3 DEF a
  <2>5. Fills(whole, T, 2 + comp)
    <3> DEFINE need == 2 + comp
    <3>1. need \in Nat
      BY <2>4
    <3> HIDE DEF need
    <3>2. Fills(Fill(a, head.pieces, need), a \o c, need)
      BY <2>1, <3>1, FillIs DEF c
    <3>3. QED  BY <2>1, <3>2 DEF need, a
  <2> HIDE DEF comp, whole
  <2>6. ~(Len(T) < 2) /\ ~(rd.verdict # "ok" \/ ~head.ok)
    BY <1>1, <1>6, <2>1
  <2>7. CASE T[1] > MaxSegment \/ T[2] > MaxSegment
    <3>1. r = [rd EXCEPT !.verdict = "corrupt"]
      BY <1>2, <2>4, <2>6, <2>7
    <3>2. SegTurn(x) = Loading(T, rd.texts, "corrupt")
      BY <1>3, <1>6, <2>6, <2>7
    <3>3. r \in SegReaders /\ r.buf = rd.buf /\ r.pieces = rd.pieces /\ r.texts = rd.texts /\ r.verdict = "corrupt"
      BY <3>1 DEF SegReaders
    <3>4. View(r) = Loading(T, rd.texts, "corrupt")
      BY <3>3 DEF View, Rest, T
    <3>5. QED  BY <3>2, <3>3, <3>4 DEF r, x
  <2>8. CASE ~(T[1] > MaxSegment \/ T[2] > MaxSegment) /\ Len(T) < 2 + comp
    <3>1. ~whole.ok
      <4>1. whole.ok <=> Len(T) >= 2 + comp
        BY <2>5 DEF Fills
      <4>2. ~(Len(T) >= 2 + comp)
        BY <1>1, <2>4, <2>8
      <4>3. QED  BY <4>1, <4>2
    <3>2. r = rd
      BY <1>2, <2>4, <2>6, <2>8, <3>1
    <3>3. SegTurn(x) = x
      BY <1>3, <1>6, <2>4, <2>6, <2>8
    <3>4. QED  BY <3>2, <3>3 DEF r, x
  <2>9. CASE ~(T[1] > MaxSegment \/ T[2] > MaxSegment) /\ Len(T) >= 2 + comp
    <3> DEFINE b == whole.buf
               d == FlattenSeq(whole.pieces)
               m == 2 + comp
    <3>1. /\ whole.ok /\ Len(b) >= m /\ b \in Bytes /\ whole.pieces \in Seq(Bytes) /\ b \o d = T
      <4>1. whole.ok
        <5>1. whole.ok <=> Len(T) >= 2 + comp
          BY <2>5 DEF Fills
        <5>2. QED  BY <2>9, <5>1
      <4>2. /\ whole.buf \in Bytes /\ whole.pieces \in Seq(Bytes)
            /\ whole.buf \o FlattenSeq(whole.pieces) = T /\ (whole.ok => Len(whole.buf) >= 2 + comp)
        BY <2>5 DEF Fills
      <4> HIDE DEF b, d, m
      <4>3. QED  BY <4>1, <4>2 DEF b, d, m
    <3>2. d \in Bytes /\ Len(b) \in Nat /\ m \in Nat /\ m >= 2
      <4>1. m \in Nat /\ m >= 2
        BY <2>4
      <4> HIDE DEF b, m
      <4>2. Len(b) \in Nat
        BY <3>1, LenProperties DEF Bytes
      <4>3. d \in Bytes
        BY <3>1, FlattenType DEF Bytes
      <4>4. QED  BY <4>1, <4>2, <4>3
    <3> HIDE DEF b, d, m
    <3>3. SubSeq(T, 3, m) = SubSeq(b, 3, m) /\ Drop(T, m) = Drop(b, m) \o d /\ Drop(b, m) \in Bytes
      <4>1. m \in 0..Len(b) /\ 3 \in Nat \ {0} /\ b \in Seq(Nat) /\ d \in Seq(Nat)
        BY <3>1, <3>2 DEF Bytes
      <4>2. \A k \in Nat \ {0}, n \in 0..Len(b) : SubSeq(b \o d, k, n) = SubSeq(b, k, n)
        BY <4>1, Longer
      <4>3. \A n \in 0..Len(b) : Drop(b \o d, n) = Drop(b, n) \o d
        BY <4>1, Longer
      <4>4. SubSeq(b \o d, 3, m) = SubSeq(b, 3, m) /\ Drop(b \o d, m) = Drop(b, m) \o d
        BY <4>1, <4>2, <4>3
      <4>5. Drop(b, m) \in Bytes
        BY <3>2, <4>1, RestType DEF Drop, Bytes
      <4>6. QED  BY <3>1, <4>4, <4>5
    <3>4. seg = segT /\ restT = rest \o d /\ rest \in Bytes
      BY <2>4, <3>3 DEF seg, rest, b, m
    <3>5. more <=> Len(restT) >= 1
      <4>1. Fills(Fill(rest, whole.pieces, 1), rest \o d, 1)
        BY <3>1, <3>4, FillIs DEF d
      <4>2. more <=> Len(rest \o d) >= 1
        BY <4>1 DEF Fills, more
      <4>3. QED  BY <3>4, <4>2
    <3>6. restT \in Bytes /\ Len(restT) \in Nat
      <4>1. rest \o d \in Bytes
        BY <3>2, <3>4, ConcatProperties DEF Bytes
      <4> DEFINE y == rest \o d
      <4> HIDE DEF y
      <4>2. y \in Bytes /\ Len(y) \in Nat
        BY <4>1, LenProperties DEF y, Bytes
      <4>3. QED  BY <3>4, <4>2 DEF y
    <3>7. seg.texts \in Seq(Bytes)
      <4>1. SubSeq(b, 3, m) \in Bytes
        <5>1. \A i \in 3..m : b[i] \in Nat
          <6>1. \A i \in 1..Len(b) : b[i] \in Nat
            BY <3>1, ElementOfSeq DEF Bytes
          <6>2. QED  BY <3>1, <3>2, <6>1
        <5>2. m \in Int /\ 3 \in Int
          BY <3>2
        <5>3. QED  BY <5>1, <5>2, SubSeqProperties DEF Bytes
      <4>2. QED  BY <4>1, OpenSegmentIs DEF seg, b, m
    <3> DEFINE verdict == IF seg.ok \/ ~more THEN "ok" ELSE "corrupt"
               texts == rd.texts \o seg.texts
    <3>8. r = [buf |-> rest, pieces |-> whole.pieces, texts |-> texts, verdict |-> verdict]
      BY <1>2, <2>4, <2>6, <2>9, <3>1
    <3>9. SegTurn(x) = Loading(restT, texts, verdict)
      <4>1. ~(Len(T) < 2 + T[2])
        BY <1>1, <2>4, <2>9
      <4>2. SegTurn(x) = Loading(restT, rd.texts \o segT.texts,
                                IF segT.ok \/ Len(restT) < 1 THEN "ok" ELSE "corrupt")
        BY <1>3, <1>6, <2>6, <2>9, <4>1
      <4>3. Len(restT) < 1 <=> ~more
        BY <3>5, <3>6
      <4> HIDE DEF segT, restT
      <4>4. QED  BY <3>4, <4>2, <4>3
    <3>10. texts \in Seq(Bytes) /\ verdict \in {"ok", "corrupt"}
      BY <1>1, <3>7, ConcatProperties
    <3> HIDE DEF texts, verdict, segT, restT
    <3>11. r \in SegReaders
      BY <3>1, <3>4, <3>8, <3>10 DEF SegReaders
    <3>12. View(r) = Loading(restT, texts, verdict)
      <4>1. r.buf = rest /\ r.pieces = whole.pieces /\ r.texts = texts /\ r.verdict = verdict
        BY <3>8
      <4>2. Rest(r) = restT
        BY <3>4, <4>1 DEF Rest, d
      <4>3. QED  BY <4>1, <4>2 DEF View
    <3>13. QED  BY <3>9, <3>11, <3>12 DEF r, x
  <2>10. QED  BY <1>1, <2>4, <2>7, <2>8, <2>9
<1>7. QED  BY <1>1, <1>5, <1>6

\* Turns of a reader with its reads joined, as many as there are places, and where they end.
SegTurns(h, T) ==
  /\ h[0] = Loading(T, << >>, "ok")
  /\ \A i \in 1..Len(T) : h[i] = SegTurn(h[i - 1])
Loads(T, r) == \E h : SegTurns(h, T) /\ r = Loaded(h[Len(T)].texts, h[Len(T)].verdict)

LEMMA SegFold ==
  ASSUME NEW buf \in Bytes, NEW ps \in Seq(Bytes)
  PROVE  Loads(buf \o FlattenSeq(ps), ReadSegments(buf, ps))
<1> DEFINE T0 == buf \o FlattenSeq(ps)
           s == buf \o FlattenSeq(ps)
           N == Len(s)
           a == [buf |-> buf, pieces |-> ps, texts |-> << >>, verdict |-> "ok"]
           F == [p \in SegReaders \X (1..N) |-> TakeSegment(p[1], s[p[2]])]
           Recursion(h) ==
             h = [T \in SUBSET (DOMAIN s) |->
                    IF T = {} THEN a ELSE TakeSegment(h[T \ {Max(T)}], s[Max(T)])]
           iter == CHOOSE h : Recursion(h)
<1>0. a \in SegReaders /\ View(a) = Loading(T0, << >>, "ok")
  <2>1. << >> \in Seq(Bytes)
    BY EmptySeq
  <2>2. a \in SegReaders
    BY <2>1 DEF SegReaders
  <2>3. Rest(a) = T0 /\ a.texts = << >> /\ a.verdict = "ok"
    BY DEF Rest
  <2>4. QED  BY <2>2, <2>3 DEF View
<1>1. N \in Nat /\ DOMAIN s = 1..N
  <2>1. s \in Bytes
    BY FlattenType, ConcatProperties DEF Bytes
  <2>2. QED  BY <2>1, LenProperties DEF Bytes
<1>2. F \in [SegReaders \X (1..N) -> SegReaders]
  <2>1. \A x \in SegReaders : \A y : TakeSegment(x, y) \in SegReaders
    BY SegTurnIs
  <2>2. QED  BY <2>1
<1>3. \A x \in SegReaders, m \in 1..N : F[<<x, m>>] = TakeSegment(x, s[m]) /\ View(F[<<x, m>>]) = SegTurn(View(x))
  BY SegTurnIs
<1> HIDE DEF F
<1>4. PICK h \in [SUBSET (1..N) -> SegReaders] : FoldsBy(h, a, F, N)
  BY <1>0, <1>1, <1>2, FoldExists
<1>5. ASSUME NEW T \in SUBSET (1..N)
      PROVE  h[T] = IF T = {} THEN a ELSE TakeSegment(h[T \ {Max(T)}], s[Max(T)])
  <2>1. h[T] = IF T = {} THEN a ELSE F[<<h[T \ {Max(T)}], Max(T)>>]
    BY <1>4 DEF FoldsBy
  <2>2. T # {} => Max(T) \in 1..N /\ h[T \ {Max(T)}] \in SegReaders
    BY <1>1, MaxIs
  <2> HIDE DEF s, a, N
  <2>3. QED  BY <1>3, <2>1, <2>2
<1>6. Recursion(iter)
  <2>1. Recursion(h)
    <3> HIDE DEF s, a
    <3>1. QED  BY <1>1, <1>5
  <2> HIDE DEF Recursion
  <2>2. QED  BY <2>1
<1>7. FoldLeft(TakeSegment, a, s) = iter[1..N]
  <2> HIDE DEF s, a
  <2>1. QED  BY <1>1 DEF FoldLeft, MapThenFoldSet
<1>7a. ReadSegments(buf, ps) = Loaded(FoldLeft(TakeSegment, a, s).texts, FoldLeft(TakeSegment, a, s).verdict)
  BY DEF ReadSegments
<1> HIDE DEF iter, a, s
<1>8. \A T \in SUBSET (1..N) :
        iter[T] = IF T = {} THEN a ELSE TakeSegment(iter[T \ {Max(T)}], s[Max(T)])
  BY <1>1, <1>6
<1>9. Recurs(iter, SegReaders, a, F, N)
  <2>1. iter[{}] = a
    BY <1>8
  <2>2. \A T \in SUBSET (1..N) : (T # {} /\ iter[T \ {Max(T)}] \in SegReaders) =>
          iter[T] = F[<<iter[T \ {Max(T)}], Max(T)>>]
    BY <1>1, <1>3, <1>8, MaxIs
  <2>3. QED  BY <2>1, <2>2 DEF Recurs
<1>10. \E g \in [0..N -> SegReaders] : Passes(g, iter, a, F, N)
  <2>1. N \in Nat
    BY <1>1
  <2> HIDE DEF N
  <2>2. QED  BY <1>0, <1>2, <1>9, <2>1, FoldSteps
<1>11. PICK g \in [0..N -> SegReaders] :
         g[0] = a /\ (\A i \in 1..N : g[i] = F[<<g[i - 1], i>>]) /\ iter[1..N] = g[N]
  BY <1>10 DEF Passes
<1> DEFINE v == [i \in 0..N |-> View(g[i])]
<1>12. \A i \in 1..N : v[i] = SegTurn(v[i - 1])
  <2>1. ASSUME NEW i \in 1..N PROVE v[i] = SegTurn(v[i - 1])
    <3>1. i - 1 \in 0..N /\ i \in 0..N
      BY <1>1
    <3>2. g[i - 1] \in SegReaders /\ v[i] = View(g[i]) /\ v[i - 1] = View(g[i - 1])
      BY <3>1
    <3>3. View(F[<<g[i - 1], i>>]) = SegTurn(View(g[i - 1]))
      BY <1>3, <3>2
    <3>4. g[i] = F[<<g[i - 1], i>>]
      BY <1>11
    <3> HIDE DEF v
    <3>5. QED  BY <3>2, <3>3, <3>4
  <2>2. QED  BY <2>1
<1>13. 0 \in 0..N /\ N \in 0..N /\ v[0] = View(a) /\ v[N] = View(g[N]) /\ g[N] \in SegReaders
  BY <1>1, <1>11
<1> HIDE DEF v
<1>14. v[N].texts = g[N].texts /\ v[N].verdict = g[N].verdict
  BY <1>13, SegReaderIs
<1>15. ReadSegments(buf, ps) = Loaded(v[N].texts, v[N].verdict)
  BY <1>7, <1>7a, <1>11, <1>14
<1>16. SegTurns(v, s) /\ ReadSegments(buf, ps) = Loaded(v[Len(s)].texts, v[Len(s)].verdict)
  <2>1. v[0] = Loading(s, << >>, "ok")
    BY <1>0, <1>13 DEF s
  <2>2. QED  BY <1>12, <1>15, <2>1 DEF SegTurns, N
<1>17. Loads(s, ReadSegments(buf, ps))
  BY <1>16 DEF Loads
<1>18. QED  BY <1>17 DEF s

LEMMA LoadsOnce ==
  ASSUME NEW T \in Bytes, NEW r, NEW q, Loads(T, r), Loads(T, q)
  PROVE  r = q
<1>1. PICK h : SegTurns(h, T) /\ r = Loaded(h[Len(T)].texts, h[Len(T)].verdict)
  BY DEF Loads
<1>2. PICK g : SegTurns(g, T) /\ q = Loaded(g[Len(T)].texts, g[Len(T)].verdict)
  BY DEF Loads
<1> DEFINE N == Len(T)
           D == {i \in 0..N : h[i] = g[i]}
<1>3. N \in Nat
  BY LenProperties DEF Bytes
<1>4. 0 \in D
  BY <1>1, <1>2, <1>3 DEF SegTurns
<1>5. ASSUME NEW i \in 1..N, i - 1 \in D PROVE i \in D
  <2>1. h[i - 1] = g[i - 1] /\ i \in 0..N
    BY <1>3, <1>5
  <2>2. h[i] = SegTurn(h[i - 1]) /\ g[i] = SegTurn(g[i - 1])
    BY <1>1, <1>2 DEF SegTurns
  <2>3. h[i] = g[i]
    BY ONLY <2>1, <2>2
  <2>4. QED  BY <2>1, <2>3
<1>6. \A i \in 0..N : i \in D
  <2> HIDE DEF D, N
  <2>1. QED  BY <1>3, <1>4, <1>5, Climb
<1>7. h[N] = g[N]
  <2>1. N \in 0..N
    BY <1>3
  <2>2. QED  BY <1>6, <2>1
<1>8. QED  BY <1>1, <1>2, <1>7

\* A file and what is made of it, whole: the first places say which reader has it.
Ingested(T, r) ==
  IF Len(T) >= 2 /\ T[1] = SegMagic
  THEN IF T[2] # SegVersion THEN r = Loaded(<< >>, "refused")
       ELSE Loads(Drop(T, 2), r)
  ELSE IF T # << >> /\ T[1] = Magic THEN r = Outcome(Whole(T))
  ELSE r = Loaded(<< >>, "refused")

LEMMA IngestIs ==
  ASSUME NEW ps \in Seq(Bytes)
  PROVE  Ingested(FlattenSeq(ps), IngestFile(ps))
<1> DEFINE first == Fill(<< >>, ps, SigLen)
           n == IF first.ok THEN SigLen ELSE Len(first.buf)
           a == first.buf
           c == FlattenSeq(first.pieces)
           T == FlattenSeq(ps)
           sig == Take(a, n)
           back == Drop(a, Len(sig))
           others == <<back>> \o first.pieces
           r == IngestFile(ps)
<1>1. T \in Bytes /\ Len(T) \in Nat /\ << >> \in Bytes
  BY FlattenType, LenProperties, EmptySeq DEF Bytes
<1>2. Fills(first, T, SigLen)
  <2>1. Fills(first, << >> \o T, SigLen)
    <3>1. SigLen \in Nat
      BY DEF SigLen
    <3> HIDE DEF SigLen
    <3>2. QED  BY <1>1, <3>1, FillIs
  <2>2. << >> \o T = T
    BY <1>1, ConcatEmptySeq DEF Bytes
  <2>3. QED  BY <2>1, <2>2
<1>3. r = IF Len(sig) >= 2 /\ sig[1] = SegMagic
          THEN IF sig[2] # SegVersion THEN Loaded(<< >>, "refused")
               ELSE ReadSegments(Carried(sig), others)
          ELSE IF sig # << >> /\ sig[1] = Magic THEN ReadStream(<<sig>> \o others)
          ELSE Loaded(<< >>, "refused")
  BY DEF IngestFile
<1>4. a \in Bytes /\ first.pieces \in Seq(Bytes) /\ a \o c = T
  BY <1>2 DEF Fills
<1>5. Len(a) \in Nat /\ c \in Bytes
  BY <1>4, FlattenType, LenProperties DEF Bytes
<1>6. n \in 0..Len(a) /\ (n = Len(T) \/ (n = SigLen /\ Len(T) >= SigLen))
  <2>1. /\ first.ok <=> Len(T) >= SigLen
        /\ first.ok => Len(a) >= SigLen
        /\ ~first.ok => a = T
    BY <1>2 DEF Fills
  <2>2. CASE first.ok
    BY <1>5, <2>1, <2>2 DEF SigLen
  <2>3. CASE ~first.ok
    BY <1>5, <2>1, <2>3
  <2>4. QED  BY <2>2, <2>3
<1> HIDE DEF n, a, c, T, r, first
<1>7. /\ sig \in Bytes /\ back \in Bytes /\ a = sig \o back /\ Len(sig) = n
      /\ \A i \in 1..n : sig[i] = a[i]
  <2>1. a \in Seq(Nat)
    BY <1>4 DEF Bytes
  <2>2. n \in 0..Len(a)
    BY <1>6
  <2>3. Take(a, n) \in Seq(Nat) /\ Drop(a, n) \in Seq(Nat) /\ a = Take(a, n) \o Drop(a, n)
    BY ONLY <2>1, <2>2, CutInTwo
  <2>4. Len(Take(a, n)) = n /\ \A i \in 1..n : Take(a, n)[i] = a[i]
    BY ONLY <2>1, <2>2, CutInTwo
  <2>5. QED  BY <2>3, <2>4 DEF Bytes
<1> HIDE DEF sig, back
<1>8. FlattenSeq(others) = back \o c /\ others \in Seq(Bytes)
  <2>1. <<back>> \in Seq(Bytes) /\ FlattenSeq(<<back>>) = back
    BY <1>7, FlattenFew DEF Bytes
  <2>2. FlattenSeq(<<back>> \o first.pieces) = FlattenSeq(<<back>>) \o FlattenSeq(first.pieces)
    BY <1>4, <2>1, FlattenConcat DEF Bytes
  <2>3. <<back>> \o first.pieces \in Seq(Bytes)
    BY <1>4, <2>1, ConcatProperties
  <2>4. QED  BY <2>1, <2>2, <2>3 DEF c
<1> HIDE DEF others
<1>9. T = sig \o FlattenSeq(others) /\ FlattenSeq(others) \in Bytes
  <2>1. sig \in Seq(Nat) /\ back \in Seq(Nat) /\ c \in Seq(Nat)
    BY <1>5, <1>7 DEF Bytes
  <2>2. (sig \o back) \o c = sig \o (back \o c)
    <3>1. Regroups(sig, back, c)
      BY <2>1, JoinsAssociate
    <3>2. QED  BY <3>1 DEF Regroups
  <2>3. back \o c \in Seq(Nat)
    BY <2>1, ConcatProperties
  <2>4. QED  BY <1>4, <1>7, <1>8, <2>2, <2>3 DEF Bytes
<1> DEFINE o == FlattenSeq(others)
<1>10. /\ o \in Bytes /\ T = sig \o o /\ Len(T) = n + Len(o) /\ Len(o) \in Nat
       /\ \A i \in 1..n : T[i] = sig[i]
       /\ \A k \in 0..n : Drop(T, k) = Drop(sig, k) \o o
  <2>1. o \in Bytes /\ T = sig \o o
    BY <1>9
  <2> HIDE DEF o
  <2>2. sig \in Seq(Nat) /\ o \in Seq(Nat)
    BY <1>7, <2>1 DEF Bytes
  <2>3. /\ Len(sig \o o) = Len(sig) + Len(o) /\ Len(o) \in Nat
        /\ \A i \in 1..Len(sig) : (sig \o o)[i] = sig[i]
        /\ \A k \in 0..Len(sig) : Drop(sig \o o, k) = Drop(sig, k) \o o
    BY <2>2, Longer
  <2>4. QED  BY <1>7, <2>1, <2>3
<1> HIDE DEF o
<1>11. /\ n \in Nat /\ (Len(sig) >= 2 <=> Len(T) >= 2)
       /\ (sig # << >> <=> T # << >>)
       /\ (Len(T) >= 2 => sig[1] = T[1] /\ sig[2] = T[2] /\ 2 \in 0..n)
       /\ (T # << >> => sig[1] = T[1])
  <2>1. n \in Nat /\ (n >= 2 <=> Len(T) >= 2) /\ (n = 0 <=> Len(T) = 0)
    BY <1>1, <1>5, <1>6 DEF SigLen
  <2>2. (sig = << >> <=> n = 0) /\ (T = << >> <=> Len(T) = 0)
    BY <1>1, <1>7, EmptySeq DEF Bytes
  <2>3. Len(T) >= 2 => 1 \in 1..n /\ 2 \in 1..n /\ 2 \in 0..n
    BY <1>1, <2>1
  <2>4. T # << >> => 1 \in 1..n
    BY <1>1, <2>1, <2>2
  <2>5. QED  BY <1>7, <1>10, <2>1, <2>2, <2>3, <2>4
<1>12. CASE Len(T) >= 2 /\ T[1] = SegMagic
  <2>1. Len(sig) >= 2 /\ sig[1] = SegMagic /\ sig[2] = T[2]
    BY <1>11, <1>12
  <2>2. CASE T[2] # SegVersion
    <3>1. r = Loaded(<< >>, "refused")
      BY <1>3, <2>1, <2>2
    <3>2. QED  BY <1>12, <2>2, <3>1 DEF Ingested, T, r
  <2>3. CASE T[2] = SegVersion
    <3>1. r = ReadSegments(Carried(sig), others)
      BY <1>3, <2>1, <2>3
    <3>2. Carried(sig) \in Bytes
      BY <1>7, RestType DEF Carried, Drop, Bytes
    <3>3. Loads(Carried(sig) \o o, r)
      BY <1>8, <3>1, <3>2, SegFold DEF o
    <3>4. Carried(sig) \o o = Drop(T, 2)
      BY <1>10, <1>11, <1>12 DEF Carried
    <3>5. Loads(Drop(T, 2), r)
      BY <3>3, <3>4
    <3>6. QED  BY <1>12, <2>3, <3>5 DEF Ingested, T, r
  <2>4. QED  BY <2>2, <2>3
<1>13. CASE ~(Len(T) >= 2 /\ T[1] = SegMagic) /\ T # << >> /\ T[1] = Magic
  <2>1. ~(Len(sig) >= 2 /\ sig[1] = SegMagic) /\ sig # << >> /\ sig[1] = Magic
    BY <1>11, <1>13
  <2>2. r = ReadStream(<<sig>> \o others)
    BY <1>3, <2>1
  <2>3. <<sig>> \o others \in Seq(Bytes) /\ FlattenSeq(<<sig>> \o others) = T
    <3>1. <<sig>> \in Seq(Bytes) /\ FlattenSeq(<<sig>>) = sig
      BY <1>7, FlattenFew DEF Bytes
    <3>2. FlattenSeq(<<sig>> \o others) = FlattenSeq(<<sig>>) \o FlattenSeq(others)
      BY <1>8, <3>1, FlattenConcat DEF Bytes
    <3>3. <<sig>> \o others \in Seq(Bytes)
      BY <1>8, <3>1, ConcatProperties
    <3>4. QED  BY <1>10, <3>1, <3>2, <3>3 DEF o
  <2>4. r = Outcome(Whole(T))
    BY <2>2, <2>3, ReadWhole
  <2>5. QED  BY <1>13, <2>4 DEF Ingested, T, r
<1>14. CASE ~(Len(T) >= 2 /\ T[1] = SegMagic) /\ ~(T # << >> /\ T[1] = Magic)
  <2>1. ~(Len(sig) >= 2 /\ sig[1] = SegMagic) /\ ~(sig # << >> /\ sig[1] = Magic)
    BY <1>11, <1>14
  <2>2. r = Loaded(<< >>, "refused")
    BY <1>3, <2>1
  <2>3. QED  BY <1>14, <2>2 DEF Ingested, T, r
<1>15. QED  BY <1>12, <1>13, <1>14

LEMMA IngestOnce ==
  ASSUME NEW T \in Bytes, NEW r, NEW q, Ingested(T, r), Ingested(T, q)
  PROVE  r = q
<1>1. CASE Len(T) >= 2 /\ T[1] = SegMagic /\ T[2] = SegVersion
  <2>1. Loads(Drop(T, 2), r) /\ Loads(Drop(T, 2), q)
    BY <1>1 DEF Ingested
  <2>2. Drop(T, 2) \in Bytes
    BY RestType DEF Drop, Bytes
  <2>3. QED  BY <2>1, <2>2, LoadsOnce
<1>2. CASE ~(Len(T) >= 2 /\ T[1] = SegMagic /\ T[2] = SegVersion)
  BY <1>2 DEF Ingested
<1>3. QED  BY <1>1, <1>2

\* How the reads cut a file does not matter, whatever is in it: the stream reader and
\* ingest_file (trace_format.rs, record.rs) read any bytes in any reads as they read
\* them in one.
THEOREM ReadsMayCutAnywhere ==
  ASSUME NEW pieces \in Seq(Bytes)
  PROVE  CutsDoNotMatter(pieces)
<1> DEFINE T == FlattenSeq(pieces)
<1>1. T \in Bytes
  BY FlattenType DEF Bytes
<1>2. <<T>> \in Seq(Bytes) /\ FlattenSeq(<<T>>) = T
  BY <1>1, FlattenFew DEF Bytes
<1>3. ReadStream(pieces) = ReadStream(<<T>>)
  BY <1>2, ReadWhole
<1>4. IngestFile(pieces) = IngestFile(<<T>>)
  <2>1. Ingested(T, IngestFile(pieces))
    BY IngestIs
  <2>2. Ingested(FlattenSeq(<<T>>), IngestFile(<<T>>))
    BY <1>2, IngestIs
  <2>3. QED  BY <1>1, <1>2, <2>1, <2>2, IngestOnce
<1>5. QED  BY <1>3, <1>4 DEF CutsDoNotMatter

-----------------------------------------------------------------------------
(* Frames and segments of a writer: each is read back, and no part of it is. *)

LEMMA StepRecords ==
  /\ More.kind = "more" /\ Corrupt.kind = "corrupt"
  /\ \A n, texts : /\ Done(n, texts).kind = "done" /\ Done(n, texts).n = n
                   /\ Done(n, texts).texts = texts
BY DEF More, Corrupt, Done

\* A reader waits while it holds less than a tag, a number and a largest frame, and
\* no longer: the length is refused before its bytes are waited for (Decoder::step).
THEOREM WaitsForOneFrame ==
  ASSUME NEW buf \in Bytes
  PROVE  HoldsOneFrame(buf)
<1> SUFFICES ASSUME StepOf(TRUE, buf).kind = "more"
             PROVE  Len(buf) < 1 + (FullGroups + 1) + MaxFrameLen
  BY DEF HoldsOneFrame
<1> DEFINE s == StepOf(TRUE, buf)
<1>0. s.kind = "more"
  OBVIOUS
<1> HIDE DEF s
<1>1. FullGroups \in Nat /\ MaxFrameLen \in Nat /\ MaxFrameLen >= 1 /\ Len(buf) \in Nat
  BY FramingAssumption, GroupIs, FrameLenIs, LenProperties DEF Bytes
<1>2. CASE buf = << >>
  <2>1. Len(buf) = 0
    BY <1>2, EmptySeq
  <2>2. QED  BY <1>1, <2>1
<1>3. CASE buf # << >>
  <2>1. /\ Size(buf) \in Nums /\ Drop(buf, 1) \in Bytes
        /\ Size(buf).kind # "more" /\ (Size(buf).kind = "overlong" \/ Size(buf).value > MaxFrameLen) =>
             StepOf(TRUE, buf) = Corrupt
        /\ Size(buf).kind = "value" /\ Size(buf).value <= MaxFrameLen =>
             /\ End(buf) \in Nat \ {0, 1}
             /\ Len(buf) >= End(buf) =>
                  StepOf(TRUE, buf) =
                    IF buf[1] # StrPool THEN Done(End(buf), << >>)
                    ELSE IF IStr(Body(buf)) = << >> THEN Corrupt
                    ELSE Done(End(buf), IStr(Body(buf)))
    BY <1>3, StepCases
  <2>2. /\ Size(buf).kind \in {"more", "value", "overlong"} /\ Size(buf).value \in Nat
        /\ Size(buf).bytes \in Nat
    BY <2>1 DEF Nums
  <2>3. /\ Size(buf).kind = "more" => Len(Drop(buf, 1)) <= FullGroups + 1
        /\ Size(buf).kind = "value" => Size(buf).bytes <= FullGroups + 1
    BY <2>1, PeekIs DEF Size, Bytes
  <2>4. CASE Size(buf).kind = "more"
    <3>1. Len(buf) >= 1
      BY <1>1, <1>3, EmptySeq DEF Bytes
    <3>2. Len(Drop(buf, 1)) = Len(buf) - 1
      <4>1. 1 \in 0..Len(buf) /\ buf \in Seq(Nat)
        BY <1>1, <3>1 DEF Bytes
      <4>2. QED  BY <4>1, CutInTwo
    <3>3. QED  BY <1>1, <2>3, <2>4, <3>2
  <2>5. CASE Size(buf).kind = "overlong" \/ (Size(buf).kind = "value" /\ Size(buf).value > MaxFrameLen)
    <3>1. StepOf(TRUE, buf) = Corrupt
      BY <2>1, <2>5
    <3>2. QED  BY <1>0, <3>1, StepRecords DEF s
  <2>6. CASE Size(buf).kind = "value" /\ Size(buf).value <= MaxFrameLen
    <3>1. ~(Len(buf) >= End(buf))
      <4>1. SUFFICES ASSUME Len(buf) >= End(buf) PROVE FALSE
        OBVIOUS
      <4>2. \/ StepOf(TRUE, buf) = Done(End(buf), << >>)
            \/ StepOf(TRUE, buf) = Corrupt
            \/ StepOf(TRUE, buf) = Done(End(buf), IStr(Body(buf)))
        BY <2>1, <2>6, <4>1
      <4>3. s.kind # "more"
        <5>1. s = Done(End(buf), << >>) \/ s = Corrupt \/ s = Done(End(buf), IStr(Body(buf)))
          BY <4>2 DEF s
        <5>2. QED  BY ONLY <5>1, StepRecords
      <4>4. QED  BY <1>0, <4>3
    <3>2. End(buf) \in Nat /\ End(buf) = 1 + Size(buf).bytes + Size(buf).value
      BY <2>1, <2>6 DEF End
    <3>3. QED  BY <1>1, <2>2, <2>3, <2>6, <3>1, <3>2
  <2>7. QED  BY <1>1, <2>2, <2>4, <2>5, <2>6
<1>4. QED  BY <1>2, <1>3

\* Two sequences cut after the first of them.
LEMMA CutAfter ==
  ASSUME NEW S, NEW s \in Seq(S), NEW t \in Seq(S)
  PROVE  /\ Drop(s \o t, Len(s)) = t
         /\ \A k \in 0..Len(t) : Take(s \o t, Len(s) + k) = s \o Take(t, k)
<1> DEFINE n == Len(s)
           m == Len(t)
           u == s \o t
<1>1. n \in Nat /\ m \in Nat /\ u \in Seq(S) /\ Len(u) = n + m
      /\ \A i \in 1..(n + m) : u[i] = IF i <= n THEN s[i] ELSE t[i - n]
  BY LenProperties, ConcatProperties
<1> HIDE DEF n, m, u
<1>2. Drop(u, n) = t
  <2>1. n \in 0..Len(u)
    BY <1>1
  <2>2. Drop(u, n) \in Seq(S) /\ Len(Drop(u, n)) = Len(u) - n
        /\ \A i \in 1..(Len(u) - n) : Drop(u, n)[i] = u[n + i]
    BY <1>1, <2>1, CutInTwo
  <2>3. Len(u) - n = m
    BY <1>1
  <2>4. \A i \in 1..m : Drop(u, n)[i] = t[i]
    <3>1. ASSUME NEW i \in 1..m PROVE Drop(u, n)[i] = t[i]
      <4>1. n + i \in 1..(n + m) /\ ~(n + i <= n) /\ (n + i) - n = i
        BY <1>1
      <4>2. u[n + i] = t[i]
        BY <1>1, <4>1
      <4>3. QED  BY <2>2, <2>3, <4>2
    <3>2. QED  BY <3>1
  <2>5. QED  BY <2>2, <2>3, <2>4, SeqEqual DEF m
<1>3. ASSUME NEW k \in 0..m PROVE Take(u, n + k) = s \o Take(t, k)
  <2> DEFINE a == Take(u, n + k)
             b == s \o Take(t, k)
             j == n + k
             c == Take(t, k)
  <2>1. j \in 0..Len(u) /\ k \in 0..Len(t) /\ j = n + k /\ k \in Nat /\ j \in Nat
    BY <1>1 DEF m
  <2> HIDE DEF j
  <2>2. Take(u, j) \in Seq(S) /\ Len(Take(u, j)) = j /\ \A i \in 1..j : Take(u, j)[i] = u[i]
    BY <1>1, <2>1, CutInTwo
  <2>3. c \in Seq(S) /\ Len(c) = k /\ \A i \in 1..k : c[i] = t[i]
    BY <2>1, CutInTwo
  <2> HIDE DEF c
  <2>4. s \o c \in Seq(S) /\ Len(s \o c) = n + k
        /\ \A i \in 1..(n + k) : (s \o c)[i] = IF i <= n THEN s[i] ELSE c[i - n]
    BY <2>3, ConcatProperties DEF n
  <2>5. ASSUME NEW i \in 1..j PROVE Take(u, j)[i] = (s \o c)[i]
    <3>1. i \in 1..(n + m) /\ i \in 1..(n + k) /\ (~(i <= n) => i - n \in 1..k)
      BY <1>1, <1>3, <2>1
    <3>2. QED  BY <1>1, <2>2, <2>3, <2>4, <3>1
  <2>6. Take(u, j) = s \o c
    BY <2>1, <2>2, <2>4, <2>5, SeqEqual
  <2>7. QED  BY <2>1, <2>6 DEF c
<1>4. QED  BY <1>2, <1>3 DEF n, m, u

LEMMA TakeAll ==
  ASSUME NEW S, NEW s \in Seq(S)
  PROVE  Take(s, Len(s)) = s /\ Take(s, 0) = << >> /\ Drop(s, 0) = s /\ Drop(s, Len(s)) = << >>
<1>1. Len(s) \in Nat
  BY LenProperties
<1>2. SubSeq(s, 1, Len(s)) = s
  BY SubSeqFull
<1>3. SubSeq(s, 1, 0) = << >> /\ SubSeq(s, Len(s) + 1, Len(s)) = << >>
  BY <1>1, SubSeqEmpty
<1>4. QED  BY <1>2, <1>3 DEF Take, Drop

\* A body and what is in it.
LEMMA TextRead ==
  ASSUME NEW text \in Bytes, FitsFrame(text)
  PROVE  IStr(WriteVarint[Len(text)] \o text) = <<text>>
<1> DEFINE v == Len(text)
           w == WriteVarint[v]
           body == w \o text
           n == PeekVarint(body)
<1>1. v \in Nat /\ w \in Seq(Nat) /\ text \in Seq(Nat)
  BY VarintIs, LenProperties DEF Bytes
<1>2. body \in Seq(Nat) /\ Len(body) = Len(w) + v /\ Len(w) \in Nat
  BY <1>1, ConcatProperties, LenProperties
<1>3. v \in 0..(Word - 1)
  <2>1. Len(body) <= MaxFrameLen
    BY DEF FitsFrame
  <2>2. QED  BY <1>1, <1>2, <2>1, FrameLenIs, WordIs
<1> HIDE DEF v
<1>4. PeekVarint(w) = Number("value", v, Len(w))
  BY <1>3, WordsReadBack DEF WordsComeBack
<1> HIDE DEF w
<1>5. n = Number("value", v, Len(w))
  <2>1. PeekVarint(w).kind # "more"
    BY <1>4 DEF Number
  <2>2. QED  BY <1>1, <1>4, <2>1, PeekGrows
<1> HIDE DEF n
<1>6. n.kind = "value" /\ n.bytes = Len(w) /\ n.value = v
  BY <1>5 DEF Number
<1>7. IStr(body) = IF n.kind = "value" /\ n.bytes + n.value <= Len(body)
                   THEN <<SubSeq(body, n.bytes + 1, n.bytes + n.value)>> ELSE << >>
  BY DEF IStr, n
<1>8. SubSeq(body, Len(w) + 1, Len(w) + v) = text
  <2>1. Drop(w \o text, Len(w)) = text
    BY <1>1, CutAfter
  <2>2. QED  BY <1>2, <2>1 DEF Drop
<1> HIDE DEF body
<1>9. IStr(body) = <<text>>
  <2>1. n.bytes + n.value = Len(w) + v /\ n.bytes + 1 = Len(w) + 1 /\ Len(w) + v <= Len(body)
    BY <1>1, <1>2, <1>6 DEF v
  <2>2. IStr(body) = <<SubSeq(body, Len(w) + 1, Len(w) + v)>>
    BY <1>6, <1>7, <2>1
  <2>3. QED  BY <1>8, <2>2
<1>10. QED  BY <1>9 DEF body, w, v

LEMMA FrameRead ==
  ASSUME NEW text \in Bytes, FitsFrame(text)
  PROVE  /\ TextFrame(text) \in Bytes /\ Len(TextFrame(text)) \in Nat \ {0}
         /\ StepOf(TRUE, TextFrame(text)) = Done(Len(TextFrame(text)), <<text>>)
<1> DEFINE body == WriteVarint[Len(text)] \o text
           n == Len(body)
           w == WriteVarint[n]
           F == TextFrame(text)
<1>1. body \in Seq(Nat)
  <2>1. Len(text) \in Nat /\ text \in Seq(Nat)
    BY LenProperties DEF Bytes
  <2>2. WriteVarint[Len(text)] \in Seq(Nat)
    BY <2>1, VarintIs
  <2>3. QED  BY <2>1, <2>2, ConcatProperties
<1>2. IStr(body) = <<text>>
  BY TextRead
<1>3. n <= MaxFrameLen
  BY DEF FitsFrame
<1>4. F = (<<StrPool>> \o w) \o body
  BY DEF TextFrame, Envelope
<1> HIDE DEF body, F
<1>5. n \in Nat
  BY <1>1, LenProperties
<1>6. w \in Seq(Nat) /\ PeekVarint(w) = Number("value", n, Len(w)) /\ Len(w) \in Nat
  <2>1. n \in 0..(Word - 1)
    BY <1>3, <1>5, FrameLenIs, WordIs
  <2> HIDE DEF n
  <2>2. w \in Seq(Nat)
    BY <1>5, VarintIs
  <2>3. PeekVarint(w) = Number("value", n, Len(w))
    BY <2>1, WordsReadBack DEF WordsComeBack
  <2>4. QED  BY <2>2, <2>3, LenProperties
<1> HIDE DEF n, w
<1>7. <<StrPool>> \in Seq(Nat) /\ Len(<<StrPool>>) = 1 /\ <<StrPool>>[1] = StrPool
  BY DEF StrPool
<1> DEFINE tag == <<StrPool>>
           rest == w \o body
<1>8. rest \in Seq(Nat) /\ F = tag \o rest /\ Len(rest) = Len(w) + n
  <2>1. tag \in Seq(Nat)
    BY <1>7
  <2>2. (tag \o w) \o body = tag \o (w \o body)
    <3>1. tag \in Seq(Nat) /\ w \in Seq(Nat) /\ body \in Seq(Nat)
      BY <1>1, <1>6, <2>1
    <3> HIDE DEF tag
    <3>2. Regroups(tag, w, body)
      BY <3>1, JoinsAssociate
    <3>3. QED  BY <3>2 DEF Regroups
  <2>3. rest \in Seq(Nat) /\ Len(rest) = Len(w) + n
    BY <1>1, <1>6, ConcatProperties DEF n
  <2>4. QED  BY <1>4, <2>2, <2>3
<1>9. tag \in Seq(Nat) /\ Len(tag) = 1 /\ tag[1] = StrPool
  BY <1>7
<1> HIDE DEF tag
<1>10. PeekVarint(rest) = Number("value", n, Len(w))
  <2>1. PeekVarint(w).kind # "more"
    BY <1>6 DEF Number
  <2>2. QED  BY <1>1, <1>6, <2>1, PeekGrows
<1>11. /\ F \in Seq(Nat) /\ Len(F) = 1 + Len(w) + n /\ F[1] = StrPool /\ Drop(F, 1) = rest
  <2> HIDE DEF rest
  <2>1. tag \o rest \in Seq(Nat) /\ Len(tag \o rest) = Len(tag) + Len(rest)
        /\ \A i \in 1..Len(tag) : (tag \o rest)[i] = tag[i]
    BY <1>8, <1>9, Longer
  <2>2. Drop(tag \o rest, Len(tag)) = rest
    BY <1>8, <1>9, CutAfter
  <2>3. 1 \in 1..Len(tag)
    BY <1>9
  <2>4. QED  BY <1>5, <1>6, <1>8, <1>9, <2>1, <2>2, <2>3
<1>12. Size(F) = Number("value", n, Len(w)) /\ End(F) = Len(F) /\ F # << >> /\ Len(F) \in Nat \ {0}
  <2>1. Size(F) = Number("value", n, Len(w))
    BY <1>10, <1>11 DEF Size
  <2>2. End(F) = Len(F)
    BY <2>1, <1>11 DEF End, Number
  <2>3. Len(F) \in Nat \ {0}
    BY <1>5, <1>6, <1>11
  <2>4. F # << >>
    BY <2>3, EmptySeq
  <2>5. QED  BY <2>1, <2>2, <2>3, <2>4
<1>13. Body(F) = body
  <2> DEFINE p == tag \o w
  <2>1. p \in Seq(Nat) /\ Len(p) = 1 + Len(w)
    <3>1. tag \in Seq(Nat) /\ w \in Seq(Nat) /\ Len(tag) = 1
      BY <1>6, <1>9
    <3>2. p \in Seq(Nat) /\ Len(p) = Len(tag) + Len(w)
      BY ONLY <3>1, ConcatProperties
    <3>3. QED  BY <3>1, <3>2
  <2> HIDE DEF p
  <2>2. Drop(p \o body, Len(p)) = body
    BY <1>1, <2>1, CutAfter
  <2>3. F = p \o body
    BY <1>4 DEF p, tag
  <2>4. Drop(F, 1 + Len(w)) = body
    BY <2>1, <2>2, <2>3
  <2>5. (1 + Len(w)) + 1 = 2 + Len(w) /\ Size(F).bytes = Len(w)
    BY <1>6, <1>12 DEF Number
  <2>6. SubSeq(F, 2 + Len(w), Len(F)) = body
    BY <2>4, <2>5 DEF Drop
  <2>7. QED  BY <1>12, <2>5, <2>6 DEF Body
<1>14. StepOf(TRUE, F) = Done(Len(F), <<text>>)
  <2>1. Size(F).kind = "value" /\ Size(F).value <= MaxFrameLen
    BY <1>3, <1>12 DEF Number
  <2>2. F \in Bytes /\ F # << >> /\ Len(F) >= End(F)
    BY <1>11, <1>12 DEF Bytes
  <2>3. StepOf(TRUE, F) =
          IF F[1] # StrPool THEN Done(End(F), << >>)
          ELSE IF IStr(Body(F)) = << >> THEN Corrupt
          ELSE Done(End(F), IStr(Body(F)))
    BY <2>1, <2>2, StepCases
  <2>4. <<text>> # << >>
    OBVIOUS
  <2>5. QED  BY <1>2, <1>11, <1>12, <1>13, <2>3, <2>4
<1>15. QED  BY <1>11, <1>12, <1>14 DEF F, Bytes

\* A part of a frame is not taken for one: what is decided of it is decided of the whole.
LEMMA PartOfFrame ==
  ASSUME NEW text \in Bytes, FitsFrame(text), NEW k \in Nat, k < Len(TextFrame(text))
  PROVE  StepOf(TRUE, Take(TextFrame(text), k)) = More
<1> DEFINE F == TextFrame(text)
           p == Take(F, k)
           q == Drop(F, k)
<1>1. F \in Bytes /\ StepOf(TRUE, F) = Done(Len(F), <<text>>) /\ Len(F) \in Nat
  BY FrameRead
<1>1a. k < Len(F)
  OBVIOUS
<1> HIDE DEF F
<1>1b. k \in 0..Len(F)
  BY <1>1, <1>1a
<1>2. p \in Bytes /\ q \in Bytes /\ F = p \o q /\ Len(p) = k
  BY <1>1, <1>1b, CutInTwo DEF Bytes
<1> HIDE DEF p, q
<1>3. SUFFICES ASSUME StepOf(TRUE, p) # More PROVE FALSE
  BY DEF p, F
<1> DEFINE seen == TRUE
<1>4. StepOf(seen, p \o q) = StepOf(seen, p)
  <2>1. seen \in BOOLEAN /\ StepOf(seen, p) # More
    BY <1>3
  <2> HIDE DEF seen
  <2>2. QED  BY <1>2, <2>1, StepGrows
<1>5. StepOf(TRUE, p) = Done(Len(F), <<text>>)
  BY <1>1, <1>2, <1>4
<1>6. \/ StepOf(seen, p) = More
      \/ StepOf(seen, p) = Corrupt /\ p # << >>
      \/ \E n \in 1..Len(p), texts \in Seq(Bytes) : StepOf(seen, p) = Done(n, texts)
  <2>1. seen \in BOOLEAN
    OBVIOUS
  <2> HIDE DEF seen
  <2>2. QED  BY <1>2, <2>1, StepIs
<1> DEFINE s == StepOf(TRUE, p)
<1>7. s # More /\ s = Done(Len(F), <<text>>)
      /\ (s = More \/ s = Corrupt \/ \E n \in 1..Len(p), texts \in Seq(Bytes) : s = Done(n, texts))
  BY <1>3, <1>5, <1>6
<1> HIDE DEF s
<1>8. s.kind = "done" /\ s.n = Len(F)
  BY ONLY <1>7, StepRecords
<1>9. PICK n \in 1..Len(p), texts \in Seq(Bytes) : s = Done(n, texts)
  <2>1. s # Corrupt
    BY ONLY <1>8, StepRecords
  <2>2. QED  BY <1>7, <2>1
<1>10. s.n = n
  BY ONLY <1>9, StepRecords
<1>11. QED  BY <1>1, <1>1a, <1>2, <1>8, <1>9, <1>10

\* A header and one piece after another, as a stream is written and a container.
Encoded(head, m, xs) == head \o FlattenSeq(Mapped(m, xs))

\* What a concatenation of pieces comes to.
Grows(head, m, s, t) ==
  /\ FlattenSeq(Mapped(m, s \o t)) = FlattenSeq(Mapped(m, s)) \o FlattenSeq(Mapped(m, t))
  /\ Encoded(head, m, s \o t) = Encoded(head, m, s) \o FlattenSeq(Mapped(m, t))

LEMMA EncodedGrows ==
  ASSUME NEW S, NEW m \in [S -> Bytes], NEW head \in Bytes, NEW s \in Seq(S), NEW t \in Seq(S)
  PROVE  /\ Mapped(m, s) \in Seq(Bytes) /\ FlattenSeq(Mapped(m, s)) \in Bytes
         /\ Encoded(head, m, s) \in Bytes /\ Grows(head, m, s, t)
<1>1. /\ Mapped(m, s) \in Seq(Bytes) /\ Mapped(m, t) \in Seq(Bytes)
      /\ Mapped(m, s \o t) = Mapped(m, s) \o Mapped(m, t)
  <2>1. Mapped(m, s) \in Seq(Bytes)
    BY MapConcat
  <2>2. Mapped(m, t) \in Seq(Bytes)
    BY MapConcat
  <2>3. Joins(Mapped(m, s \o t), Mapped(m, s), Mapped(m, t))
    BY MapConcat
  <2>4. QED  BY <2>1, <2>2, <2>3 DEF Joins
<1> DEFINE a == Mapped(m, s)
           b == Mapped(m, t)
           x == FlattenSeq(a)
           y == FlattenSeq(b)
<1> HIDE DEF a, b
<1>2. a \in Seq(Seq(Nat)) /\ b \in Seq(Seq(Nat))
  BY <1>1 DEF Bytes, a, b
<1>3. FlattenSeq(a \o b) = x \o y /\ x \in Seq(Nat) /\ y \in Seq(Nat)
  BY <1>2, FlattenConcat, FlattenType
<1> HIDE DEF x, y
<1>4. head \in Seq(Nat)
  BY DEF Bytes
<1>5. head \o (x \o y) = (head \o x) \o y /\ head \o x \in Seq(Nat)
  <2>1. (head \o x) \o y = head \o (x \o y)
    <3>1. Regroups(head, x, y)
      BY <1>3, <1>4, JoinsAssociate
    <3>2. QED  BY <3>1 DEF Regroups
  <2>2. head \o x \in Seq(Nat)
    BY <1>3, <1>4, ConcatProperties
  <2>3. QED  BY <2>1, <2>2
<1>6. Mapped(m, s) \in Seq(Bytes) /\ x \in Bytes /\ head \o x \in Bytes
  BY <1>1, <1>3, <1>5 DEF Bytes
<1>7. FlattenSeq(Mapped(m, s \o t)) = x \o y
  BY <1>1, <1>3 DEF a, b
<1>8. Encoded(head, m, s \o t) = (head \o x) \o y
  BY <1>5, <1>7 DEF Encoded
<1>9. FlattenSeq(Mapped(m, s)) \in Bytes /\ Encoded(head, m, s) \in Bytes /\ Grows(head, m, s, t)
  BY <1>6, <1>7, <1>8 DEF Grows, Encoded, x, y, a, b
<1>10. QED  BY <1>6, <1>9

LEMMA EncodedNone ==
  ASSUME NEW S, NEW m \in [S -> Bytes], NEW head \in Bytes, NEW x \in S
  PROVE  /\ FlattenSeq(Mapped(m, << >>)) = << >> /\ Encoded(head, m, << >>) = head
         /\ <<x>> \in Seq(S) /\ FlattenSeq(Mapped(m, <<x>>)) = m[x]
<1>1. Mapped(m, << >>) = << >>
  BY DEF Mapped
<1>2. Mapped(m, <<x>>) = <<m[x]>>
  <2>1. Mapped(m, <<x>>) = [i \in 1..1 |-> m[<<x>>[i]]]
    BY DEF Mapped
  <2>2. [i \in 1..1 |-> m[<<x>>[i]]] = <<m[x]>>
    <3> DEFINE f == [i \in 1..1 |-> m[<<x>>[i]]]
    <3>1. f \in [1..1 -> Bytes] /\ f[1] = m[x]
      OBVIOUS
    <3> HIDE DEF f
    <3>2. f \in Seq(Bytes) /\ Len(f) = 1
      BY <3>1, SequenceOf
    <3>3. <<m[x]>> \in Seq(Bytes) /\ Len(<<m[x]>>) = 1 /\ <<m[x]>>[1] = m[x]
      OBVIOUS
    <3>4. \A i \in 1..Len(f) : f[i] = <<m[x]>>[i]
      BY <3>1, <3>2, <3>3
    <3>5. f = <<m[x]>>
      BY <3>2, <3>3, <3>4, SeqEqual
    <3>6. QED  BY <3>5 DEF f
  <2>3. QED  BY <2>1, <2>2
<1>3. FlattenSeq(<<m[x]>>) = m[x]
  <2>1. m[x] \in Seq(Nat)
    BY DEF Bytes
  <2>2. QED  BY <2>1, FlattenFew
<1>4. FlattenSeq(<< >>) = << >>
  BY FlattenFew
<1>5. head \o << >> = head
  BY ConcatEmptySeq DEF Bytes
<1>6. <<x>> \in Seq(S)
  OBVIOUS
<1>7. QED  BY <1>1, <1>2, <1>3, <1>4, <1>5, <1>6 DEF Encoded

\* The first i pieces, and what there is of them.
HasOneMore(head, m, xs, i) ==
  /\ Take(xs, i) = Take(xs, i - 1) \o <<xs[i]>>
  /\ Encoded(head, m, Take(xs, i)) = Encoded(head, m, Take(xs, i - 1)) \o m[xs[i]]
  /\ FlattenSeq(Mapped(m, Take(xs, i))) = FlattenSeq(Mapped(m, Take(xs, i - 1))) \o m[xs[i]]

LEMMA OneMore ==
  ASSUME NEW S, NEW m \in [S -> Bytes], NEW head \in Bytes, NEW xs \in Seq(S), NEW i \in 1..Len(xs)
  PROVE  xs[i] \in S /\ Take(xs, i - 1) \in Seq(S) /\ HasOneMore(head, m, xs, i)
<1> DEFINE t == Take(xs, i - 1)
           x == xs[i]
<1>1. x \in S /\ Len(xs) \in Nat
  BY ElementOfSeq, LenProperties
<1>2. t \in Seq(S)
  <2> DEFINE j == i - 1
  <2>1. j \in 0..Len(xs)
    BY <1>1
  <2> HIDE DEF j
  <2>2. Take(xs, j) \in Seq(S)
    BY <2>1, CutInTwo
  <2>3. QED  BY <2>2 DEF j
<1>3. Take(xs, i) = t \o <<x>>
  <2>1. 1 \in 1..Len(xs) /\ i \in 1..Len(xs)
    BY <1>1
  <2>2. SubSeq(xs, 1, i) = SubSeq(xs, 1, i - 1) \o <<xs[i]>>
    BY <2>1, SubSeqRecursiveSecond
  <2>3. QED  BY <2>2 DEF Take
<1> HIDE DEF t, x
<1>4. <<x>> \in Seq(S) /\ FlattenSeq(Mapped(m, <<x>>)) = m[x]
  BY <1>1, EncodedNone
<1> DEFINE o == <<x>>
<1> HIDE DEF o
<1>5. o \in Seq(S)
  BY <1>4 DEF o
<1>6. /\ FlattenSeq(Mapped(m, t \o o)) = FlattenSeq(Mapped(m, t)) \o FlattenSeq(Mapped(m, o))
      /\ Encoded(head, m, t \o o) = Encoded(head, m, t) \o FlattenSeq(Mapped(m, o))
  <2>1. Grows(head, m, t, o)
    BY <1>2, <1>5, EncodedGrows
  <2>2. QED  BY <2>1 DEF Grows
<1>7. QED  BY <1>1, <1>2, <1>3, <1>4, <1>6 DEF HasOneMore, t, x, o

\* Cut at byte k, it ends after the pieces that are whole, or inside the next.
CutAt(head, m, xs, k, w, p) ==
  /\ w \in 0..Len(xs) /\ p \in Bytes
  /\ Take(Encoded(head, m, xs), k) = Encoded(head, m, Take(xs, w)) \o p
  /\ Len(p) = k - Len(Encoded(head, m, Take(xs, w)))
  /\ \/ w = Len(xs) /\ p = << >>
     \/ w + 1 \in 1..Len(xs) /\ Len(p) < Len(m[xs[w + 1]]) /\ p = Take(m[xs[w + 1]], Len(p))

LEMMA MaxUpTo ==
  ASSUME NEW n \in Nat, NEW S \in SUBSET (0..n), S # {}
  PROVE  Max(S) \in S /\ \A j \in S : j <= Max(S)
<1>1. S \in SUBSET Nat /\ \A x \in S : x <= n
  OBVIOUS
<1>2. PICK m \in S : \A j \in S : j <= m
  BY <1>1, GreatestOf
<1>3. \A j \in S : m >= j
  BY <1>1, <1>2
<1>4. Max(S) \in S /\ \A j \in S : Max(S) >= j
  BY <1>3 DEF Max
<1>5. \A j \in S : j \in Int
  OBVIOUS
<1>6. QED  BY <1>4, <1>5

LEMMA CutsSomewhere ==
  ASSUME NEW S, NEW m \in [S -> Bytes], NEW head \in Bytes, NEW xs \in Seq(S),
         NEW k \in Nat, k >= Len(head), k <= Len(Encoded(head, m, xs)),
         NEW ends, \A i \in 0..Len(xs) : ends[i] = Len(Encoded(head, m, Take(xs, i))),
         NEW w, w = Max({i \in 0..Len(xs) : ends[i] <= k})
  PROVE  \E p : CutAt(head, m, xs, k, w, p)
<1> DEFINE n == Len(xs)
           E(i) == Encoded(head, m, Take(xs, i))
           below == {i \in 0..n : ends[i] <= k}
<1>1. n \in Nat /\ Take(xs, n) = xs /\ Take(xs, 0) = << >>
  BY LenProperties, TakeAll
<1>2. ASSUME NEW i \in 0..n
      PROVE  Take(xs, i) \in Seq(S) /\ E(i) \in Bytes /\ Len(E(i)) \in Nat /\ ends[i] = Len(E(i))
  <2>1. Take(xs, i) \in Seq(S)
    BY CutInTwo
  <2>2. E(i) \in Bytes
    BY <2>1, EncodedGrows
  <2> HIDE DEF E
  <2>3. Len(E(i)) \in Nat
    BY <2>2, LenProperties DEF Bytes
  <2>4. QED  BY <2>1, <2>2, <2>3 DEF E
<1>3. E(0) = head /\ E(n) = Encoded(head, m, xs)
  <2>1. Encoded(head, m, << >>) = head
    <3>1. Mapped(m, << >>) = << >>
      BY DEF Mapped
    <3>2. head \o << >> = head
      BY ConcatEmptySeq DEF Bytes
    <3>3. QED  BY <3>1, <3>2, FlattenFew DEF Encoded
  <2>2. QED  BY <1>1, <2>1
<1>4. 0 \in below
  BY <1>1, <1>2, <1>3
<1>5. w \in below /\ \A j \in below : j <= w
  <2>1. below \in SUBSET (0..n) /\ below # {} /\ w = Max(below)
    BY <1>4
  <2> HIDE DEF below
  <2>2. QED  BY <1>1, <2>1, MaxUpTo
<1>6. w \in 0..n /\ Len(E(w)) <= k
  BY <1>2, <1>5
<1>7. CASE w = n
  <2>1. k = Len(E(n))
    <3>1. n \in 0..n
      BY <1>1
    <3>2. Len(E(n)) \in Nat /\ k <= Len(E(n))
      BY <1>2, <1>3, <3>1
    <3> HIDE DEF E
    <3>3. QED  BY <1>6, <1>7, <3>2
  <2>2. E(n) \in Seq(Nat)
    BY <1>1, <1>2 DEF Bytes
  <2> HIDE DEF E
  <2>3. Take(E(n), k) = E(n) /\ E(n) \o << >> = E(n) /\ << >> \in Bytes /\ Len(<< >>) = k - Len(E(n))
    <3>1. Len(E(n)) \in Nat
      BY <2>2, LenProperties
    <3>2. << >> \in Bytes /\ Len(<< >>) = 0
      BY EmptySeq DEF Bytes
    <3>3. Take(E(n), k) = E(n)
      BY <2>1, <2>2, TakeAll
    <3>4. E(n) \o << >> = E(n)
      BY <2>2, ConcatEmptySeq
    <3>5. QED  BY <2>1, <3>1, <3>2, <3>3, <3>4
  <2>4. CutAt(head, m, xs, k, w, << >>)
    BY <1>3, <1>6, <1>7, <2>3 DEF CutAt, E
  <2>5. QED  BY <2>4
<1>8. CASE w # n
  <2> DEFINE j == w + 1
             x == m[xs[j]]
             a == E(w)
             c == k - Len(a)
             p == Take(x, c)
             y == FlattenSeq(Mapped(m, Drop(xs, j)))
  <2>1. j \in 1..n /\ j \in 0..n /\ j - 1 = w
    BY <1>1, <1>6, <1>8
  <2>2. Len(E(j)) > k
    <3>1. j \notin below
      <4>1. ~(j <= w)
        BY <1>6
      <4> HIDE DEF below, j
      <4>2. QED  BY <1>5, <4>1
    <3>2. ~(ends[j] <= k)
      BY <2>1, <3>1
    <3>3. QED  BY <1>2, <2>1, <3>2
  <2> HIDE DEF j
  <2>3. E(j) = a \o x /\ x \in Bytes /\ a \in Bytes
    <3>1. xs[j] \in S /\ Encoded(head, m, Take(xs, j)) = Encoded(head, m, Take(xs, j - 1)) \o m[xs[j]]
      <4>1. xs[j] \in S /\ HasOneMore(head, m, xs, j)
        BY <2>1, OneMore
      <4>2. QED  BY <4>1 DEF HasOneMore
    <3>2. x \in Bytes
      BY <3>1 DEF x
    <3>3. a \in Bytes
      BY <1>2, <1>6
    <3>4. E(j) = a \o x
      BY <2>1, <3>1
    <3>5. QED  BY <3>2, <3>3, <3>4
  <2>4. E(n) = E(j) \o y /\ y \in Bytes /\ E(j) \in Bytes
    <3> DEFINE s == Take(xs, j)
               t == Drop(xs, j)
    <3>1. s \in Seq(S) /\ t \in Seq(S) /\ xs = s \o t
      BY <2>1, CutInTwo
    <3> HIDE DEF s, t
    <3>2. Encoded(head, m, s \o t) = Encoded(head, m, s) \o FlattenSeq(Mapped(m, t))
          /\ FlattenSeq(Mapped(m, t)) \in Bytes /\ Encoded(head, m, s) \in Bytes
      <4>1. Grows(head, m, s, t) /\ Encoded(head, m, s) \in Bytes
        BY <3>1, EncodedGrows
      <4>2. FlattenSeq(Mapped(m, t)) \in Bytes
        BY <3>1, EncodedGrows
      <4>3. QED  BY <4>1, <4>2 DEF Grows
    <3>3. QED  BY <1>3, <3>1, <3>2 DEF s, t
  <2> HIDE DEF E, x, y, a
  <2>5. Len(a) \in Nat /\ Len(x) \in Nat /\ Len(E(j)) = Len(a) + Len(x) /\ Len(a) <= k
    <3>1. Len(a) \in Nat /\ Len(x) \in Nat /\ Len(a \o x) = Len(a) + Len(x)
      BY <2>3, LenProperties, ConcatProperties DEF Bytes
    <3>2. QED  BY <1>6, <2>3, <3>1 DEF a
  <2>6. c \in 0..Len(x) /\ c < Len(x) /\ k = Len(a) + c /\ k \in 0..Len(E(j))
    BY <2>2, <2>5
  <2> HIDE DEF c
  <2>7. p \in Bytes /\ Len(p) = c /\ Take(a \o x, Len(a) + c) = a \o p
    <3>1. x \in Seq(Nat) /\ a \in Seq(Nat)
      BY <2>3 DEF Bytes
    <3>2. Take(x, c) \in Seq(Nat) /\ Len(Take(x, c)) = c
      BY <2>6, <3>1, CutInTwo
    <3>3. Take(a \o x, Len(a) + c) = a \o Take(x, c)
      BY <2>6, <3>1, CutAfter
    <3>4. QED  BY <3>2, <3>3 DEF Bytes
  <2>8. Take(E(n), k) = Take(E(j), k)
    <3>1. \A q \in Nat \ {0}, r \in 0..Len(E(j)) : SubSeq(E(j) \o y, q, r) = SubSeq(E(j), q, r)
      BY <2>4, Longer DEF Bytes
    <3>2. SubSeq(E(j) \o y, 1, k) = SubSeq(E(j), 1, k)
      BY <2>6, <3>1
    <3>3. QED  BY <2>4, <3>2 DEF Take
  <2>9. Take(E(n), k) = a \o p
    BY <2>3, <2>6, <2>7, <2>8
  <2> HIDE DEF p
  <2>10. Len(p) < Len(x) /\ p = Take(x, Len(p)) /\ Len(p) = k - Len(a)
    <3>1. p = Take(x, Len(p))
      BY <2>7 DEF p
    <3>2. QED  BY <2>5, <2>6, <2>7, <3>1
  <2>11. CutAt(head, m, xs, k, w, p)
    <3>1. Take(Encoded(head, m, xs), k) = Encoded(head, m, Take(xs, w)) \o p
      BY <1>3, <2>9 DEF a, E
    <3>2. Len(p) = k - Len(Encoded(head, m, Take(xs, w)))
      BY <2>10 DEF a, E
    <3>3. w + 1 \in 1..Len(xs) /\ Len(p) < Len(m[xs[w + 1]]) /\ p = Take(m[xs[w + 1]], Len(p))
      BY <2>1, <2>10 DEF x, j
    <3>4. QED  BY <1>6, <2>7, <3>1, <3>2, <3>3 DEF CutAt
  <2>12. QED  BY <2>11
<1>9. QED  BY <1>7, <1>8

-----------------------------------------------------------------------------
(* A stream cut off anywhere, in any reads. *)

Fitting == {text \in Bytes : FitsFrame(text)}
StreamHead == <<Magic, Version>>
FrameOf == [text \in Bytes |-> TextFrame(text)]

LEMMA FrameType == FrameOf \in [Bytes -> Bytes]
<1>1. ASSUME NEW v \in Nat PROVE WriteVarint[v] \in Seq(Nat)
  BY VarintIs
<1>2. ASSUME NEW text \in Bytes PROVE TextFrame(text) \in Bytes
  <2> DEFINE w == WriteVarint[Len(text)]
             body == w \o text
             u == WriteVarint[Len(body)]
             tag == <<StrPool>>
  <2>1. w \in Seq(Nat) /\ text \in Seq(Nat) /\ tag \in Seq(Nat)
    <3>1. Len(text) \in Nat /\ text \in Seq(Nat)
      BY LenProperties DEF Bytes
    <3>2. <<StrPool>> \in Seq(Nat)
      BY DEF StrPool
    <3>3. QED  BY <1>1, <3>1, <3>2
  <2> HIDE DEF w, tag
  <2>2. body \in Seq(Nat)
    BY <2>1, ConcatProperties
  <2> HIDE DEF body
  <2>3. u \in Seq(Nat)
    <3>1. Len(body) \in Nat
      BY <2>2, LenProperties
    <3>2. QED  BY <1>1, <3>1
  <2> HIDE DEF u
  <2>4. tag \o u \in Seq(Nat)
    BY <2>1, <2>3, ConcatProperties
  <2>5. (tag \o u) \o body \in Seq(Nat)
    BY <2>2, <2>4, ConcatProperties
  <2>6. TextFrame(text) = (tag \o u) \o body
    BY DEF TextFrame, Envelope, tag, u, body, w
  <2>7. QED  BY <2>5, <2>6 DEF Bytes
<1>3. QED  BY <1>2 DEF FrameOf

LEMMA StreamIs ==
  ASSUME NEW texts \in Seq(Bytes)
  PROVE  /\ EncodeStream(texts) = Encoded(StreamHead, FrameOf, texts)
         /\ EncodeStream(texts) \in Bytes /\ StreamHead \in Bytes /\ Len(StreamHead) = 2
<1>1. Mapped(FrameOf, texts) = [i \in 1..Len(texts) |-> TextFrame(texts[i])]
  <2>1. DOMAIN texts = 1..Len(texts) /\ \A i \in 1..Len(texts) : texts[i] \in Bytes
    BY LenProperties, ElementOfSeq
  <2>2. \A i \in 1..Len(texts) : FrameOf[texts[i]] = TextFrame(texts[i])
    BY <2>1 DEF FrameOf
  <2>3. QED  BY <2>1, <2>2 DEF Mapped
<1>2. EncodeStream(texts) = Encoded(StreamHead, FrameOf, texts)
  BY <1>1 DEF EncodeStream, Encoded, StreamHead
<1>3. StreamHead \in Bytes /\ Len(StreamHead) = 2
  BY DEF StreamHead, Magic, Version, Bytes
<1>4. Encoded(StreamHead, FrameOf, texts) \in Bytes
  BY <1>3, FrameType, EncodedGrows
<1>5. QED  BY <1>2, <1>3, <1>4

\* A reader between two frames, with part of the next or none of it.
Between(part, texts) == Reader(TRUE, part, texts, "ok")

LEMMA BetweenIs ==
  ASSUME NEW part \in Bytes, NEW texts \in Seq(Bytes), StepOf(TRUE, part) = More
  PROVE  /\ Between(part, texts) \in Readers /\ Drain(Between(part, texts)) = Between(part, texts)
         /\ Outcome(Between(part, texts)) = Loaded(texts, IF part # << >> THEN "truncated" ELSE "ok")
<1> DEFINE seen == TRUE
           rd == Between(part, texts)
<1>1. seen \in BOOLEAN
  OBVIOUS
<1>2. rd = Reader(seen, part, texts, "ok") /\ StepOf(seen, part) = More
  BY DEF Between
<1> HIDE DEF seen, rd
<1>3. rd.seen = seen /\ rd.buf = part /\ rd.texts = texts /\ rd.verdict = "ok"
  BY <1>2, ReaderFields
<1>4. rd \in Readers
  BY <1>1, <1>2, ReaderFields
<1>5. Drain(rd) = rd
  <2>1. Stuck(rd)
    BY <1>2, <1>3 DEF Stuck
  <2>2. QED  BY <1>4, <2>1, DrainIs
<1>6. Outcome(rd) = Loaded(texts, IF part # << >> THEN "truncated" ELSE "ok")
  BY <1>3 DEF Outcome
<1>7. QED  BY <1>4, <1>5, <1>6 DEF rd

LEMMA NoPart == << >> \in Bytes /\ StepOf(TRUE, << >>) = More
<1>1. << >> \in Bytes
  BY EmptySeq DEF Bytes
<1>2. QED  BY <1>1 DEF StepOf

LEMMA FrameTaken ==
  ASSUME NEW text \in Fitting, NEW texts \in Seq(Bytes)
  PROVE  Drain(Between(TextFrame(text), texts)) = Between(<< >>, texts \o <<text>>)
<1> DEFINE seen == TRUE
           F == TextFrame(text)
           rd == Between(F, texts)
           n == Len(F)
<1>1. /\ seen \in BOOLEAN /\ F \in Bytes /\ n \in Nat \ {0} /\ StepOf(seen, F) = Done(n, <<text>>)
      /\ rd = Reader(seen, F, texts, "ok")
  <2>1. text \in Bytes /\ FitsFrame(text)
    BY DEF Fitting
  <2>2. QED  BY <2>1, FrameRead DEF Between
<1>2. texts \o <<text>> \in Seq(Bytes)
  <2>1. <<text>> \in Seq(Bytes)
    BY DEF Fitting
  <2>2. QED  BY <2>1, ConcatProperties
<1> HIDE DEF seen, F, rd, n
<1>3. rd.seen = seen /\ rd.buf = F /\ rd.texts = texts /\ rd.verdict = "ok" /\ rd \in Readers
  BY <1>1, ReaderFields
<1> DEFINE s == StepOf(seen, F)
<1> HIDE DEF s
<1>4. s.kind = "done" /\ s.n = n /\ s.texts = <<text>>
  <2>1. s = Done(n, <<text>>)
    BY <1>1 DEF s
  <2>2. QED  BY ONLY <2>1, StepRecords
<1>5. s # More
  <2>1. More.kind = "more"
    BY StepRecords
  <2>2. QED  BY <1>4, <2>1
<1>6. ~Stuck(rd)
  BY <1>3, <1>5 DEF Stuck, s
<1>7. Turn(rd) = Between(<< >>, texts \o <<text>>)
  <2>1. TakeFrame(rd, 0) = [seen |-> TRUE, buf |-> Drop(F, n), texts |-> texts \o <<text>>, verdict |-> "ok"]
    <3>1. TakeFrame(rd, 0) =
            LET z == StepOf(rd.seen, rd.buf)
            IN  IF rd.verdict # "ok" \/ z.kind = "more" THEN rd
                ELSE IF z.kind = "corrupt" THEN [rd EXCEPT !.verdict = "corrupt"]
                ELSE [seen |-> TRUE, buf |-> Drop(rd.buf, z.n), texts |-> rd.texts \o z.texts, verdict |-> "ok"]
      BY DEF TakeFrame
    <3>2. StepOf(rd.seen, rd.buf) = s
      BY <1>3 DEF s
    <3>3. TakeFrame(rd, 0) =
            IF rd.verdict # "ok" \/ s.kind = "more" THEN rd
            ELSE IF s.kind = "corrupt" THEN [rd EXCEPT !.verdict = "corrupt"]
            ELSE [seen |-> TRUE, buf |-> Drop(rd.buf, s.n), texts |-> rd.texts \o s.texts, verdict |-> "ok"]
      BY <3>1, <3>2
    <3>4. rd.verdict = "ok" /\ s.kind # "more" /\ s.kind # "corrupt"
      BY <1>3, <1>4
    <3>5. TakeFrame(rd, 0) =
            [seen |-> TRUE, buf |-> Drop(rd.buf, s.n), texts |-> rd.texts \o s.texts, verdict |-> "ok"]
      BY ONLY <3>3, <3>4
    <3>6. QED  BY ONLY <1>3, <1>4, <3>5
  <2>2. Drop(F, n) = << >>
    <3>1. F \in Seq(Nat)
      BY <1>1 DEF Bytes
    <3>2. QED  BY <3>1, TakeAll DEF n
  <2>3. QED  BY <2>1, <2>2 DEF Turn, Between, Reader
<1>8. Drain(rd) = Drain(Turn(rd))
  BY <1>3, <1>6, DrainIs
<1>9. Drain(Between(<< >>, texts \o <<text>>)) = Between(<< >>, texts \o <<text>>)
  BY <1>2, NoPart, BetweenIs
<1>10. QED  BY <1>7, <1>8, <1>9 DEF rd, F

\* More bytes than those of whole frames.
LEMMA WholeMore ==
  ASSUME NEW bytes \in Bytes, NEW texts \in Seq(Bytes), Whole(bytes) = Between(<< >>, texts),
         NEW more \in Bytes
  PROVE  Whole(bytes \o more) = Drain(Between(more, texts))
<1> DEFINE y == With(FreshReader, bytes)
           seen == TRUE
<1>1. y \in Readers /\ Drain(y) = Between(<< >>, texts)
  BY WholeIs DEF Whole
<1>2. With(y, more) = With(FreshReader, bytes \o more)
  BY FreshIs, WithTwice
<1> HIDE DEF y
<1>3. Drain(With(y, more)) = IF Drain(y).verdict = "ok" THEN Drain(With(Drain(y), more)) ELSE With(Drain(y), more)
  BY <1>1, DrainMore
<1>4. Between(<< >>, texts) = Reader(seen, << >>, texts, "ok") /\ Between(more, texts) = Reader(seen, more, texts, "ok")
  BY DEF Between
<1> HIDE DEF seen
<1>5. Drain(y).verdict = "ok"
  BY <1>1, <1>4, ReaderFields
<1>6. With(Drain(y), more) = Reader(seen, more, texts, "ok")
  <2>1. With(Reader(seen, << >>, texts, "ok"), more) = Reader(seen, << >> \o more, texts, "ok")
    <3> DEFINE none == << >>
               ok == "ok"
    <3> HIDE DEF none, ok
    <3>1. With(Reader(seen, none, texts, ok), more) = Reader(seen, none \o more, texts, ok)
      BY ONLY WithMore
    <3>2. QED  BY <3>1 DEF none, ok
  <2>2. << >> \o more = more
    BY ConcatEmptySeq DEF Bytes
  <2>3. QED  BY <1>1, <1>4, <2>1, <2>2
<1>7. QED  BY <1>2, <1>3, <1>4, <1>5, <1>6 DEF Whole

LEMMA HeadRead == Whole(StreamHead) = Between(<< >>, << >>)
<1> DEFINE rd == With(FreshReader, StreamHead)
           seen == FALSE
<1>1. /\ StreamHead \in Bytes /\ Len(StreamHead) = 2 /\ StreamHead[1] = Magic
      /\ StreamHead[2] \in 1..Version /\ << >> \in Seq(Bytes)
  BY EmptySeq DEF StreamHead, Magic, Version, Bytes
<1>2. rd \in Readers /\ rd = Reader(seen, StreamHead, << >>, "ok") /\ seen \in BOOLEAN
  <2>1. rd \in Readers
    BY <1>1, WholeIs
  <2>2. FreshReader = Reader(FALSE, << >>, << >>, "ok")
    BY DEF FreshReader, Reader
  <2>3. With(Reader(FALSE, << >>, << >>, "ok"), StreamHead) = Reader(FALSE, << >> \o StreamHead, << >>, "ok")
    <3> DEFINE no == FALSE
               none == << >>
               ok == "ok"
    <3> HIDE DEF no, none, ok
    <3>1. With(Reader(no, none, none, ok), StreamHead) = Reader(no, none \o StreamHead, none, ok)
      BY ONLY WithMore
    <3>2. QED  BY <3>1 DEF no, none, ok
  <2>4. << >> \o StreamHead = StreamHead
    BY <1>1, ConcatEmptySeq DEF Bytes
  <2>5. QED  BY <2>1, <2>2, <2>3, <2>4
<1>3. StepOf(seen, StreamHead) = Done(2, << >>)
  <2>1. ~(Len(StreamHead) < 2)
    BY <1>1
  <2>2. QED  BY <1>1, <2>1 DEF StepOf
<1> HIDE DEF rd, seen
<1>4. rd.seen = seen /\ rd.buf = StreamHead /\ rd.texts = << >> /\ rd.verdict = "ok"
  BY <1>2, ReaderFields
<1> DEFINE s == StepOf(seen, StreamHead)
<1> HIDE DEF s
<1>5. s.kind = "done" /\ s.n = 2 /\ s.texts = << >>
  <2>1. s = Done(2, << >>)
    BY <1>3 DEF s
  <2>2. QED  BY ONLY <2>1, StepRecords
<1>6. ~Stuck(rd)
  <2>1. s # More
    <3>1. More.kind = "more"
      BY StepRecords
    <3>2. QED  BY <1>5, <3>1
  <2>2. QED  BY <1>4, <2>1 DEF Stuck, s
<1>7. Turn(rd) = Between(<< >>, << >>)
  <2>1. TakeFrame(rd, 0) =
          LET z == StepOf(rd.seen, rd.buf)
          IN  IF rd.verdict # "ok" \/ z.kind = "more" THEN rd
              ELSE IF z.kind = "corrupt" THEN [rd EXCEPT !.verdict = "corrupt"]
              ELSE [seen |-> TRUE, buf |-> Drop(rd.buf, z.n), texts |-> rd.texts \o z.texts, verdict |-> "ok"]
    BY DEF TakeFrame
  <2>2. StepOf(rd.seen, rd.buf) = s
    BY <1>4 DEF s
  <2>3. TakeFrame(rd, 0) =
          IF rd.verdict # "ok" \/ s.kind = "more" THEN rd
          ELSE IF s.kind = "corrupt" THEN [rd EXCEPT !.verdict = "corrupt"]
          ELSE [seen |-> TRUE, buf |-> Drop(rd.buf, s.n), texts |-> rd.texts \o s.texts, verdict |-> "ok"]
    BY <2>1, <2>2
  <2>4. rd.verdict = "ok" /\ s.kind # "more" /\ s.kind # "corrupt"
    BY <1>4, <1>5
  <2>5. TakeFrame(rd, 0) =
          [seen |-> TRUE, buf |-> Drop(rd.buf, s.n), texts |-> rd.texts \o s.texts, verdict |-> "ok"]
    BY ONLY <2>3, <2>4
  <2>6. TakeFrame(rd, 0) =
          [seen |-> TRUE, buf |-> Drop(StreamHead, 2), texts |-> << >> \o << >>, verdict |-> "ok"]
    BY ONLY <1>4, <1>5, <2>5
  <2>7. Drop(StreamHead, 2) = << >> /\ << >> \o << >> = << >>
    <3>1. Drop(StreamHead, Len(StreamHead)) = << >>
      BY <1>1, TakeAll DEF Bytes
    <3>2. << >> \o << >> = << >>
      BY <1>1, ConcatEmptySeq
    <3>3. QED  BY <1>1, <3>1, <3>2
  <2>8. QED  BY <2>6, <2>7 DEF Turn, Between, Reader
<1>8. Drain(rd) = Drain(Turn(rd))
  BY <1>2, <1>6, DrainIs
<1>9. Drain(Between(<< >>, << >>)) = Between(<< >>, << >>)
  BY <1>1, NoPart, BetweenIs
<1>10. QED  BY <1>7, <1>8, <1>9 DEF rd, Whole

LEMMA StreamRead ==
  ASSUME NEW texts \in Seq(Fitting)
  PROVE  /\ texts \in Seq(Bytes)
         /\ \A i \in 0..Len(texts) :
              Whole(Encoded(StreamHead, FrameOf, Take(texts, i))) = Between(<< >>, Take(texts, i))
<1> DEFINE n == Len(texts)
           E(i) == Encoded(StreamHead, FrameOf, Take(texts, i))
           T == {i \in 0..n : Whole(E(i)) = Between(<< >>, Take(texts, i))}
<1>1. texts \in Seq(Bytes) /\ n \in Nat /\ \A i \in 1..n : texts[i] \in Fitting
  <2>1. Fitting \subseteq Bytes
    BY DEF Fitting
  <2>2. texts \in Seq(Bytes)
    BY <2>1, SeqMonotonic
  <2>3. QED  BY <2>2, LenProperties, ElementOfSeq
<1>2. StreamHead \in Bytes /\ FrameOf \in [Bytes -> Bytes]
  BY <1>1, StreamIs, FrameType
<1>3. 0 \in T
  <2>1. Take(texts, 0) = << >>
    BY <1>1, TakeAll
  <2>2. Encoded(StreamHead, FrameOf, << >>) = StreamHead
    <3>1. << >> \in Bytes
      BY NoPart
    <3>2. QED  BY <1>2, <3>1, EncodedNone
  <2>3. Whole(E(0)) = Between(<< >>, Take(texts, 0))
    BY <2>1, <2>2, HeadRead
  <2> HIDE DEF E
  <2>4. QED  BY <1>1, <2>3
<1>4. ASSUME NEW i \in 1..n, i - 1 \in T PROVE i \in T
  <2> DEFINE t == Take(texts, i - 1)
             x == texts[i]
             bytes == E(i - 1)
             F == TextFrame(x)
  <2>1. t \in Seq(Bytes) /\ HasOneMore(StreamHead, FrameOf, texts, i) /\ x \in Fitting /\ x \in Bytes
    <3>1. x \in Bytes /\ t \in Seq(Bytes) /\ HasOneMore(StreamHead, FrameOf, texts, i)
      BY <1>1, <1>2, OneMore
    <3>2. QED  BY <1>1, <3>1
  <2>2. E(i) = bytes \o F /\ Take(texts, i) = t \o <<x>> /\ F \in Bytes
    <3>1. FrameOf[x] = F /\ FrameOf[x] \in Bytes
      BY <1>2, <2>1 DEF FrameOf
    <3>2. QED  BY <2>1, <3>1 DEF HasOneMore
  <2>3. bytes \in Bytes /\ Whole(bytes) = Between(<< >>, t)
    <3>1. bytes \in Bytes
      BY <1>2, <2>1, EncodedGrows
    <3> HIDE DEF E
    <3>2. QED  BY <1>4, <3>1
  <2> HIDE DEF E, t, x, F, bytes
  <2>4. Whole(bytes \o F) = Drain(Between(F, t))
    BY <2>1, <2>2, <2>3, WholeMore
  <2>5. Drain(Between(F, t)) = Between(<< >>, t \o <<x>>)
    BY <2>1, FrameTaken DEF F
  <2>6. Whole(E(i)) = Between(<< >>, Take(texts, i)) /\ i \in 0..n
    BY <1>1, <2>2, <2>4, <2>5
  <2>7. QED  BY <2>6
<1>5. \A i \in 0..n : i \in T
  <2> HIDE DEF T, n
  <2>1. QED  BY <1>1, <1>3, <1>4, Climb
<1>6. QED  BY <1>1, <1>5

\* Of a stream that ends at any byte past its header, inside a frame or between two,
\* the reader gets every text whose frame is whole and no other, and says whether it
\* ended inside one, whatever the reads return (StreamDecoder, read_stream).
THEOREM StreamsSurvive ==
  ASSUME NEW texts \in Seq(Fitting), NEW k \in 2..Len(EncodeStream(texts)),
         NEW pieces \in Seq(Bytes), FlattenSeq(pieces) = Take(EncodeStream(texts), k)
  PROVE  StreamSurvives(texts, k, pieces)
<1> DEFINE n == Len(texts)
           ends == [i \in 0..n |-> Len(EncodeStream(Take(texts, i)))]
           w == Max({i \in 0..n : ends[i] <= k})
           E(i) == Encoded(StreamHead, FrameOf, Take(texts, i))
<1>1. texts \in Seq(Bytes) /\ n \in Nat /\ StreamHead \in Bytes /\ Len(StreamHead) = 2
      /\ FrameOf \in [Bytes -> Bytes] /\ EncodeStream(texts) = Encoded(StreamHead, FrameOf, texts)
      /\ Len(EncodeStream(texts)) \in Nat
  <2>1. texts \in Seq(Bytes)
    BY StreamRead
  <2>2. EncodeStream(texts) \in Seq(Nat)
    BY <2>1, StreamIs DEF Bytes
  <2>3. QED  BY <2>1, <2>2, StreamIs, FrameType, LenProperties
<1>2. ASSUME NEW i \in 0..n
      PROVE  /\ Take(texts, i) \in Seq(Bytes) /\ E(i) \in Bytes /\ ends[i] = Len(E(i)) /\ Len(E(i)) \in Nat
             /\ Whole(E(i)) = Between(<< >>, Take(texts, i))
  <2>1. Take(texts, i) \in Seq(Bytes)
    BY <1>1, CutInTwo
  <2>2. EncodeStream(Take(texts, i)) = E(i) /\ EncodeStream(Take(texts, i)) \in Bytes
    BY <2>1, StreamIs
  <2>3. Len(EncodeStream(Take(texts, i))) \in Nat
    BY <2>2, LenProperties DEF Bytes
  <2>4. Whole(E(i)) = Between(<< >>, Take(texts, i))
    BY StreamRead
  <2>5. QED  BY <2>1, <2>2, <2>3, <2>4
<1>3. k \in Nat /\ k >= Len(StreamHead) /\ k <= Len(Encoded(StreamHead, FrameOf, texts))
  BY <1>1
<1>4. PICK p : CutAt(StreamHead, FrameOf, texts, k, w, p)
  <2>1. \A i \in 0..Len(texts) : ends[i] = Len(Encoded(StreamHead, FrameOf, Take(texts, i)))
    BY <1>2
  <2>2. w = Max({i \in 0..Len(texts) : ends[i] <= k})
    OBVIOUS
  <2> HIDE DEF ends, w, E
  <2>3. QED  BY <1>1, <1>3, <2>1, <2>2, CutsSomewhere
<1>5. /\ w \in 0..n /\ p \in Bytes /\ FlattenSeq(pieces) = E(w) \o p
      /\ Len(p) = k - Len(E(w))
      /\ \/ w = n /\ p = << >>
         \/ w + 1 \in 1..n /\ Len(p) < Len(FrameOf[texts[w + 1]]) /\ p = Take(FrameOf[texts[w + 1]], Len(p))
  BY <1>1, <1>4 DEF CutAt
<1> HIDE DEF w, n
<1>6. StepOf(TRUE, p) = More
  <2>1. CASE p = << >>
    BY <2>1, NoPart
  <2>2. CASE w + 1 \in 1..n /\ Len(p) < Len(FrameOf[texts[w + 1]]) /\ p = Take(FrameOf[texts[w + 1]], Len(p))
    <3> DEFINE x == texts[w + 1]
    <3>1. x \in Fitting
      BY <2>2, ElementOfSeq DEF n
    <3> HIDE DEF x
    <3>2. x \in Bytes /\ FitsFrame(x) /\ FrameOf[x] = TextFrame(x)
      BY <3>1 DEF Fitting, FrameOf
    <3>3. Len(p) \in Nat
      BY <1>5, LenProperties DEF Bytes
    <3> DEFINE j == Len(p)
    <3>4. j \in Nat /\ j < Len(TextFrame(x)) /\ p = Take(TextFrame(x), j)
      BY <2>2, <3>2, <3>3 DEF x
    <3> HIDE DEF j
    <3>5. StepOf(TRUE, Take(TextFrame(x), j)) = More
      BY <3>2, <3>4, PartOfFrame
    <3>6. QED  BY <3>4, <3>5
  <2>3. QED  BY <1>5, <2>1, <2>2
<1>7. ReadStream(pieces) = Loaded(Take(texts, w), IF p # << >> THEN "truncated" ELSE "ok")
  <2> DEFINE t == Take(texts, w)
             b == E(w)
  <2>1. t \in Seq(Bytes) /\ b \in Bytes /\ Whole(b) = Between(<< >>, t)
    BY <1>2, <1>5
  <2>2. ReadStream(pieces) = Outcome(Whole(b \o p))
    BY <1>5, ReadWhole
  <2> HIDE DEF t, b
  <2>3. Whole(b \o p) = Drain(Between(p, t))
    BY <1>5, <2>1, WholeMore
  <2>4. Drain(Between(p, t)) = Between(p, t)
        /\ Outcome(Between(p, t)) = Loaded(t, IF p # << >> THEN "truncated" ELSE "ok")
    BY <1>5, <1>6, <2>1, BetweenIs
  <2>5. QED  BY <2>2, <2>3, <2>4 DEF t
<1>8. p # << >> <=> ~(ends[w] = k)
  <2>1. p = << >> <=> Len(p) = 0
    BY <1>5, EmptySeq DEF Bytes
  <2>2. ends[w] = Len(E(w)) /\ Len(E(w)) \in Nat
    BY <1>2, <1>5
  <2> HIDE DEF ends, E
  <2>3. QED  BY <1>3, <1>5, <2>1, <2>2
<1>9. ReadStream(pieces) = Loaded(Take(texts, w), IF ends[w] = k THEN "ok" ELSE "truncated")
  BY <1>7, <1>8
<1>10. QED  BY <1>9 DEF StreamSurvives, w, n

-----------------------------------------------------------------------------
(* A recording cut off anywhere, or with a damaged segment, in any reads. *)

Sealed == {texts \in Seq(Fitting) : FitsSegment(texts)}
FileHead == <<SegMagic, SegVersion>>
SegmentOf == [texts \in Sealed |-> Segment(EncodeStream(texts))]

\* A segment of this header and this stream.
Lengths(n) == <<n, n + 1>>

LEMMA SegmentParts ==
  ASSUME NEW texts \in Sealed
  PROVE  LET raw == EncodeStream(texts)
         IN  /\ texts \in Seq(Fitting) /\ texts \in Seq(Bytes) /\ raw \in Bytes /\ Len(raw) \in Nat
             /\ Len(raw) + 1 <= MaxSegment
             /\ Deflate(raw) = <<Len(raw)>> \o raw /\ Deflate(raw) \in Bytes
             /\ Len(Deflate(raw)) = Len(raw) + 1
             /\ SegmentOf[texts] = Lengths(Len(raw)) \o Deflate(raw)
<1> DEFINE raw == EncodeStream(texts)
<1>1. texts \in Seq(Fitting) /\ FitsSegment(texts)
  BY DEF Sealed
<1>2. texts \in Seq(Bytes)
  BY <1>1, StreamRead
<1>3. raw \in Bytes
  BY <1>2, StreamIs
<1>4. FitsSegment(texts) <=> Len(Deflate(raw)) <= MaxSegment
  BY DEF FitsSegment
<1>5. SegmentOf[texts] = Segment(raw)
  BY DEF SegmentOf
<1> HIDE DEF raw
<1>6. Len(raw) \in Nat
  BY <1>3, LenProperties DEF Bytes
<1> DEFINE head == <<Len(raw)>>
<1>7. head \in Seq(Nat) /\ Len(head) = 1
  BY <1>6
<1>8. Deflate(raw) = head \o raw
  BY DEF Deflate
<1> HIDE DEF head
<1>9. head \o raw \in Bytes /\ Len(head \o raw) = Len(raw) + 1
  <2>1. head \o raw \in Seq(Nat) /\ Len(head \o raw) = Len(head) + Len(raw)
    BY <1>3, <1>7, ConcatProperties DEF Bytes
  <2>2. QED  BY <1>6, <1>7, <2>1 DEF Bytes
<1>10. Segment(raw) = <<Len(raw), Len(Deflate(raw))>> \o Deflate(raw)
  BY DEF Segment
<1>11. SegmentOf[texts] = Lengths(Len(raw)) \o Deflate(raw)
  BY <1>5, <1>8, <1>9, <1>10 DEF Lengths
<1>12. Deflate(raw) \in Bytes /\ Len(Deflate(raw)) = Len(raw) + 1 /\ Len(raw) + 1 <= MaxSegment
  BY <1>1, <1>4, <1>8, <1>9
<1>13. QED  BY <1>1, <1>2, <1>3, <1>6, <1>8, <1>11, <1>12 DEF raw, head

\* A segment is opened, and what cannot be inflated is not.
LEMMA SegmentOpens ==
  ASSUME NEW texts \in Sealed
  PROVE  LET raw == EncodeStream(texts)
         IN  /\ OpenSegment(Len(raw), Deflate(raw)).texts = texts
             /\ OpenSegment(Len(raw), Deflate(raw)).ok = TRUE
             /\ OpenSegment(Len(raw), <<Len(raw) + 1>> \o raw).texts = << >>
             /\ OpenSegment(Len(raw), <<Len(raw) + 1>> \o raw).ok = FALSE
<1> DEFINE raw == EncodeStream(texts)
           n == Len(raw)
<1>1. /\ texts \in Seq(Fitting) /\ texts \in Seq(Bytes) /\ raw \in Bytes /\ n \in Nat
      /\ Deflate(raw) = <<n>> \o raw
  BY SegmentParts
<1>2. Whole(raw) = Between(<< >>, texts)
  <2>1. raw = Encoded(StreamHead, FrameOf, texts)
    BY <1>1, StreamIs
  <2>2. Take(texts, Len(texts)) = texts /\ Len(texts) \in 0..Len(texts)
    BY <1>1, TakeAll, LenProperties
  <2>3. Whole(Encoded(StreamHead, FrameOf, Take(texts, Len(texts)))) = Between(<< >>, Take(texts, Len(texts)))
    BY <1>1, <2>2, StreamRead
  <2>4. QED  BY <2>1, <2>2, <2>3
<1> HIDE DEF raw
<1>3. ASSUME NEW v \in Nat
      PROVE  LET c == <<v>> \o raw
             IN  c # << >> /\ c[1] = v /\ Len(c) = n + 1 /\ Drop(c, 1) = raw
  <2> DEFINE h == <<v>>
             c == h \o raw
  <2>1. h \in Seq(Nat) /\ Len(h) = 1 /\ h[1] = v /\ raw \in Seq(Nat)
    BY <1>1 DEF Bytes
  <2> HIDE DEF h
  <2>2. /\ c \in Seq(Nat) /\ Len(c) = Len(h) + n /\ \A i \in 1..Len(h) : c[i] = h[i]
    BY <2>1, Longer
  <2>3. Drop(c, Len(h)) = raw
    BY <2>1, CutAfter
  <2>4. 1 \in 1..Len(h)
    BY <2>1
  <2> HIDE DEF c, n
  <2>5. Len(c) = n + 1 /\ c[1] = v /\ Drop(c, 1) = raw
    BY <1>1, <2>1, <2>2, <2>3, <2>4
  <2>6. c # << >>
    <3>1. Len(c) # 0
      BY <1>1, <2>5
    <3>2. QED  BY <3>1, EmptySeq
  <2>7. QED  BY <2>5, <2>6 DEF c, h
<1>4. SegmentTexts(raw).texts = texts /\ SegmentTexts(raw).ok = TRUE
  <2> DEFINE rd == Drain([FreshReader EXCEPT !.buf = raw])
             seen == TRUE
             none == << >>
             ok == "ok"
  <2>1. [FreshReader EXCEPT !.buf = raw] = With(FreshReader, raw)
    <3>1. << >> \o raw = raw
      BY <1>1, ConcatEmptySeq DEF Bytes
    <3>2. FreshReader.buf = << >>
      BY DEF FreshReader
    <3>3. With(FreshReader, raw) = [FreshReader EXCEPT !.buf = FreshReader.buf \o raw]
      BY DEF With, FreshReader
    <3>4. QED  BY <3>1, <3>2, <3>3
  <2>2. rd = Reader(seen, none, texts, ok)
    BY <1>2, <2>1 DEF Whole, Between
  <2>3. SegmentTexts(raw) = [texts |-> rd.texts, ok |-> rd.verdict = "ok" /\ rd.buf = << >>]
    BY DEF SegmentTexts
  <2>4. none = << >> /\ ok = "ok"
    OBVIOUS
  <2> HIDE DEF rd, seen, none, ok
  <2>5. rd.texts = texts /\ rd.verdict = ok /\ rd.buf = none
    BY <2>2, ReaderFields
  <2>6. SegmentTexts(raw).texts = rd.texts /\ SegmentTexts(raw).ok = (rd.verdict = "ok" /\ rd.buf = << >>)
    BY ONLY <2>3
  <2>7. QED  BY ONLY <2>4, <2>5, <2>6
<1>5. OpenSegment(n, Deflate(raw)) = SegmentTexts(raw)
  <2> DEFINE c == <<n>> \o raw
  <2>1. c # << >> /\ c[1] = n /\ Len(c) = n + 1 /\ Drop(c, 1) = raw
    BY <1>1, <1>3
  <2> HIDE DEF c
  <2>2. c[1] = Len(c) - 1
    BY <1>1, <2>1
  <2>3. Inflate(c) = <<raw>>
    BY <2>1, <2>2 DEF Inflate
  <2>4. <<raw>> # << >> /\ <<raw>>[1] = raw
    OBVIOUS
  <2>5. OpenSegment(n, c) = SegmentTexts(raw)
    BY <2>3, <2>4 DEF OpenSegment, n
  <2>6. QED  BY <1>1, <2>5 DEF c
<1>6. OpenSegment(n, <<n + 1>> \o raw) = [texts |-> << >>, ok |-> FALSE]
  <2> DEFINE c == <<n + 1>> \o raw
  <2>1. c[1] = n + 1 /\ Len(c) = n + 1
    <3>1. n + 1 \in Nat
      BY <1>1
    <3>2. QED  BY <1>3, <3>1
  <2> HIDE DEF c
  <2>2. ~(c[1] = Len(c) - 1)
    BY <1>1, <2>1
  <2>3. Inflate(c) = << >>
    BY <2>2 DEF Inflate
  <2>4. OpenSegment(n, c) = [texts |-> << >>, ok |-> FALSE]
    BY <2>3 DEF OpenSegment
  <2>5. QED  BY <2>4 DEF c
<1>7. OpenSegment(n, <<n + 1>> \o raw).texts = << >> /\ OpenSegment(n, <<n + 1>> \o raw).ok = FALSE
  BY <1>6
<1> HIDE DEF n
<1>8. QED  BY <1>4, <1>5, <1>7 DEF n, raw

LEMMA SegTurnCases ==
  ASSUME NEW T, NEW acc, NEW v
  PROVE  SegTurn(Loading(T, acc, v)) =
           IF v # "ok" \/ Len(T) < 2 THEN Loading(T, acc, v)
           ELSE IF T[1] > MaxSegment \/ T[2] > MaxSegment THEN Loading(T, acc, "corrupt")
           ELSE IF Len(T) < 2 + T[2] THEN Loading(T, acc, v)
           ELSE Loading(Drop(T, 2 + T[2]), acc \o OpenSegment(T[1], SubSeq(T, 3, 2 + T[2])).texts,
                       IF OpenSegment(T[1], SubSeq(T, 3, 2 + T[2])).ok \/ Len(Drop(T, 2 + T[2])) < 1
                       THEN "ok" ELSE "corrupt")
<1> DEFINE x == Loading(T, acc, v)
<1>1. x.rest = T /\ x.texts = acc /\ x.verdict = v /\ x = Loading(T, acc, v)
  BY DEF Loading
<1> HIDE DEF x
<1>2. QED  BY <1>1 DEF SegTurn

\* In a part of a segment of n bytes a turn does nothing.
Stays(y, acc, n) ==
  \A k \in 0..(n + 2) : SegTurn(Loading(Take(y, k), acc, "ok")) = Loading(Take(y, k), acc, "ok")

\* What a turn does at a segment of n bytes deflated into c, and at a part of one.
LEMMA TurnAtSegment ==
  ASSUME NEW n \in Nat, n + 1 <= MaxSegment, NEW c \in Bytes, Len(c) = n + 1,
         NEW rest \in Bytes, NEW acc
  PROVE  LET y == Lengths(n) \o c
             seg == OpenSegment(n, c)
         IN  /\ y \in Bytes /\ Len(y) = n + 3
             /\ SegTurn(Loading(y \o rest, acc, "ok")) =
                  Loading(rest, acc \o seg.texts, IF seg.ok \/ Len(rest) < 1 THEN "ok" ELSE "corrupt")
             /\ Stays(y, acc, n)
<1> DEFINE h == Lengths(n)
           y == h \o c
           T == y \o rest
           seg == OpenSegment(n, c)
<1>1. h \in Seq(Nat) /\ Len(h) = 2 /\ h[1] = n /\ h[2] = n + 1 /\ MaxSegment \in Nat
  <2>1. MaxSegment \in Nat
    BY FramingAssumption
  <2>2. QED  BY <2>1 DEF Lengths
<1>2. c \in Seq(Nat) /\ rest \in Seq(Nat)
  BY DEF Bytes
<1> HIDE DEF h
<1>3. /\ y \in Seq(Nat) /\ Len(y) = Len(h) + Len(c) /\ (\A i \in 1..Len(h) : y[i] = h[i])
      /\ Drop(y, Len(h)) = c
  <2>1. h \in Seq(Nat) /\ c \in Seq(Nat)
    BY <1>1, <1>2
  <2>2. y \in Seq(Nat) /\ Len(y) = Len(h) + Len(c) /\ (\A i \in 1..Len(h) : y[i] = h[i])
    BY ONLY <2>1, Longer
  <2>3. Drop(y, Len(h)) = c
    BY ONLY <2>1, CutAfter
  <2>4. QED  BY <2>2, <2>3
<1>4. Len(y) = n + 3 /\ y[1] = n /\ y[2] = n + 1 /\ 1 \in 1..Len(y) /\ 2 \in 1..Len(y)
  <2>1. 1 \in 1..Len(h) /\ 2 \in 1..Len(h)
    BY <1>1
  <2> HIDE DEF y
  <2>2. QED  BY <1>1, <1>3, <2>1
<1>5. SubSeq(y, 3, n + 3) = c
  <2>1. SubSeq(y, Len(h) + 1, Len(y)) = c
    BY <1>3 DEF Drop
  <2>2. Len(h) + 1 = 3 /\ Len(y) = n + 3
    BY <1>1, <1>4
  <2>3. QED  BY <2>1, <2>2
<1> HIDE DEF y
<1>6. /\ T \in Seq(Nat) /\ Len(T) = Len(y) + Len(rest) /\ Len(rest) \in Nat
      /\ \A i \in 1..Len(y) : T[i] = y[i]
      /\ \A a \in Nat \ {0}, b \in 0..Len(y) : SubSeq(T, a, b) = SubSeq(y, a, b)
      /\ Drop(T, Len(y)) = rest
  <2>1. Drop(T, Len(y)) = rest
    BY <1>2, <1>3, CutAfter
  <2>2. /\ T \in Seq(Nat) /\ Len(T) = Len(y) + Len(rest) /\ Len(rest) \in Nat
        /\ \A i \in 1..Len(y) : T[i] = y[i]
    BY <1>2, <1>3, Longer
  <2>3. \A a \in Nat \ {0}, b \in 0..Len(y) : SubSeq(T, a, b) = SubSeq(y, a, b)
    BY <1>2, <1>3, Longer
  <2>4. QED  BY <2>1, <2>2, <2>3
<1> HIDE DEF T, seg
<1>7. T[1] = n /\ T[2] = n + 1 /\ 2 + T[2] = n + 3 /\ ~(Len(T) < 2) /\ ~(Len(T) < 2 + T[2])
      /\ ~(T[1] > MaxSegment \/ T[2] > MaxSegment)
  <2>1. T[1] = n /\ T[2] = n + 1 /\ Len(T) >= n + 3
    BY <1>4, <1>6
  <2>2. QED  BY <1>1, <2>1
<1>8. SubSeq(T, 3, 2 + T[2]) = c /\ Drop(T, 2 + T[2]) = rest
  <2>1. n + 3 \in 0..Len(y) /\ 3 \in Nat \ {0}
    BY <1>4
  <2>2. SubSeq(T, 3, n + 3) = SubSeq(y, 3, n + 3)
    BY <1>6, <2>1
  <2>3. QED  BY <1>4, <1>5, <1>6, <1>7, <2>2
<1>9. SegTurn(Loading(T, acc, "ok")) =
        Loading(rest, acc \o seg.texts, IF seg.ok \/ Len(rest) < 1 THEN "ok" ELSE "corrupt")
  <2> DEFINE a == T[1]
             b == 2 + T[2]
  <2>1. SegTurn(Loading(T, acc, "ok")) =
          IF "ok" # "ok" \/ Len(T) < 2 THEN Loading(T, acc, "ok")
          ELSE IF T[1] > MaxSegment \/ T[2] > MaxSegment THEN Loading(T, acc, "corrupt")
          ELSE IF Len(T) < b THEN Loading(T, acc, "ok")
          ELSE Loading(Drop(T, b), acc \o OpenSegment(a, SubSeq(T, 3, b)).texts,
                      IF OpenSegment(a, SubSeq(T, 3, b)).ok \/ Len(Drop(T, b)) < 1 THEN "ok" ELSE "corrupt")
    BY SegTurnCases
  <2>2. a = n /\ SubSeq(T, 3, b) = c /\ Drop(T, b) = rest /\ ~(Len(T) < b)
    BY <1>7, <1>8
  <2> HIDE DEF a, b
  <2>3. SegTurn(Loading(T, acc, "ok")) =
          Loading(Drop(T, b), acc \o OpenSegment(a, SubSeq(T, 3, b)).texts,
                 IF OpenSegment(a, SubSeq(T, 3, b)).ok \/ Len(Drop(T, b)) < 1 THEN "ok" ELSE "corrupt")
    BY <1>7, <2>1, <2>2
  <2>4. QED  BY <2>2, <2>3 DEF seg
<1>10. ASSUME NEW k \in 0..(n + 2)
       PROVE  SegTurn(Loading(Take(y, k), acc, "ok")) = Loading(Take(y, k), acc, "ok")
  <2> DEFINE p == Take(y, k)
  <2>1. k \in 0..Len(y) /\ k \in Nat
    BY <1>4
  <2>2. p \in Seq(Nat) /\ Len(p) = k /\ \A i \in 1..k : p[i] = y[i]
    BY <1>3, <2>1, CutInTwo
  <2> HIDE DEF p
  <2> DEFINE here == Loading(p, acc, "ok")
             bad == Loading(p, acc, "corrupt")
             next == Loading(Drop(p, 2 + p[2]), acc \o OpenSegment(p[1], SubSeq(p, 3, 2 + p[2])).texts,
                            IF OpenSegment(p[1], SubSeq(p, 3, 2 + p[2])).ok \/ Len(Drop(p, 2 + p[2])) < 1
                            THEN "ok" ELSE "corrupt")
  <2>3. SegTurn(here) = IF Len(p) < 2 THEN here
                        ELSE IF p[1] > MaxSegment \/ p[2] > MaxSegment THEN bad
                        ELSE IF Len(p) < 2 + p[2] THEN here ELSE next
    <3>1. SegTurn(here) = IF "ok" # "ok" \/ Len(p) < 2 THEN here
                          ELSE IF p[1] > MaxSegment \/ p[2] > MaxSegment THEN bad
                          ELSE IF Len(p) < 2 + p[2] THEN here ELSE next
      BY SegTurnCases
    <3> HIDE DEF here, bad, next
    <3>2. QED  BY ONLY <3>1
  <2> HIDE DEF here, bad, next
  <2>4. ASSUME k < 2 PROVE SegTurn(here) = here
    BY <2>2, <2>3, <2>4
  <2>5. ASSUME k >= 2 PROVE SegTurn(here) = here
    <3>1. 1 \in 1..k /\ 2 \in 1..k
      BY <2>1, <2>5
    <3>2. p[1] = n /\ p[2] = n + 1
      BY <1>4, <2>2, <3>1
    <3>3. ~(p[1] > MaxSegment \/ p[2] > MaxSegment) /\ Len(p) < 2 + p[2]
      BY <1>1, <2>1, <2>2, <3>2
    <3>4. QED  BY <2>3, <3>3
  <2>6. SegTurn(here) = here
    BY <2>1, <2>4, <2>5
  <2>7. QED  BY <2>6 DEF here, p
<1>11. y \in Bytes
  BY <1>3 DEF Bytes
<1>12. Stays(y, acc, n)
  BY <1>10 DEF Stays
<1>13. QED  BY <1>4, <1>9, <1>11, <1>12 DEF y, T, h, seg

\* Turns that lead from one reader to another.
Runs(x, z, n) == \E h : h[0] = x /\ (\A i \in 1..n : h[i] = SegTurn(h[i - 1])) /\ h[n] = z

LEMMA RunsFurther ==
  ASSUME NEW x, NEW z, NEW n \in Nat, Runs(x, z, n)
  PROVE  Runs(x, SegTurn(z), n + 1)
<1>1. PICK h : h[0] = x /\ (\A i \in 1..n : h[i] = SegTurn(h[i - 1])) /\ h[n] = z
  BY DEF Runs
<1> DEFINE g == [i \in 0..(n + 1) |-> IF i <= n THEN h[i] ELSE SegTurn(z)]
<1>2. g[0] = x /\ g[n + 1] = SegTurn(z)
  BY <1>1
<1>3. ASSUME NEW i \in 1..(n + 1) PROVE g[i] = SegTurn(g[i - 1])
  <2>1. i - 1 \in 0..(n + 1) /\ i \in 0..(n + 1) /\ i - 1 <= n
    OBVIOUS
  <2>2. g[i - 1] = h[i - 1]
    BY <2>1
  <2>3. CASE i <= n
    <3>1. g[i] = h[i] /\ i \in 1..n
      BY <2>1, <2>3
    <3> HIDE DEF g
    <3>2. QED  BY <1>1, <2>2, <3>1
  <2>4. CASE ~(i <= n)
    <3>1. g[i] = SegTurn(z) /\ i - 1 = n
      BY <2>1, <2>4
    <3> HIDE DEF g
    <3>2. QED  BY <1>1, <2>2, <3>1
  <2>5. QED  BY <2>3, <2>4
<1> HIDE DEF g
<1>4. QED  BY <1>2, <1>3 DEF Runs

LEMMA RunsOut ==
  ASSUME NEW T \in Bytes, NEW z, NEW n \in Nat, Runs(Loading(T, << >>, "ok"), z, n),
         n <= Len(T), SegTurn(z) = z
  PROVE  Loads(T, Loaded(z.texts, z.verdict))
<1> DEFINE x == Loading(T, << >>, "ok")
           N == Len(T)
<1>1. N \in Nat /\ n <= N
  BY LenProperties DEF Bytes
<1>2. PICK h : h[0] = x /\ (\A i \in 1..n : h[i] = SegTurn(h[i - 1])) /\ h[n] = z
  BY DEF Runs
<1> HIDE DEF x, N
<1> DEFINE g == [i \in 0..N |-> IF i <= n THEN h[i] ELSE z]
<1>3. g[0] = x /\ g[N] = z
  BY <1>1, <1>2
<1>4. ASSUME NEW i \in 1..N PROVE g[i] = SegTurn(g[i - 1])
  <2>1. i - 1 \in 0..N /\ i \in 0..N
    BY <1>1
  <2>2. CASE i <= n
    <3>1. g[i] = h[i] /\ g[i - 1] = h[i - 1] /\ i \in 1..n
      BY <2>1, <2>2
    <3> HIDE DEF g
    <3>2. QED  BY <1>2, <3>1
  <2>3. CASE ~(i <= n)
    <3>1. g[i] = z
      BY <2>1, <2>3
    <3>2. g[i - 1] = z
      <4>1. CASE i - 1 <= n
        <5>1. i - 1 = n
          BY <2>3, <4>1
        <5>2. g[i - 1] = h[n]
          BY <2>1, <5>1
        <5> HIDE DEF g
        <5>3. QED  BY <1>2, <5>2
      <4>2. CASE ~(i - 1 <= n)
        BY <2>1, <4>2
      <4>3. QED  BY <4>1, <4>2
    <3> HIDE DEF g
    <3>3. QED  BY <3>1, <3>2
  <2>4. QED  BY <2>2, <2>3
<1> HIDE DEF g
<1>5. SegTurns(g, T) /\ Loaded(z.texts, z.verdict) = Loaded(g[Len(T)].texts, g[Len(T)].verdict)
  BY <1>3, <1>4 DEF SegTurns, x, N
<1>6. QED  BY <1>5 DEF Loads

LEMMA SegmentTypes ==
  /\ SegmentOf \in [Sealed -> Bytes] /\ FileHead \in Bytes /\ Len(FileHead) = 2
  /\ FileHead[1] = SegMagic /\ FileHead[2] = SegVersion
  /\ \A texts \in Sealed : Len(SegmentOf[texts]) \in Nat \ {0}
<1>1. ASSUME NEW texts \in Sealed
      PROVE  Segment(EncodeStream(texts)) \in Bytes /\ SegmentOf[texts] = Segment(EncodeStream(texts))
             /\ Len(SegmentOf[texts]) \in Nat \ {0}
  <2> DEFINE raw == EncodeStream(texts)
             n == Len(raw)
             c == Deflate(raw)
  <2>1. n \in Nat /\ n + 1 <= MaxSegment /\ c \in Bytes /\ Len(c) = n + 1 /\ SegmentOf[texts] = Lengths(n) \o c
    BY SegmentParts
  <2>2. SegmentOf[texts] = Segment(EncodeStream(texts))
    BY DEF SegmentOf
  <2> HIDE DEF n, c
  <2>4. Lengths(n) \o c \in Bytes /\ Len(Lengths(n) \o c) = n + 3
    BY <2>1, NoPart, TurnAtSegment
  <2>5. n + 3 \in Nat \ {0}
    BY <2>1
  <2>6. QED  BY <2>1, <2>2, <2>4, <2>5
<1>2. FileHead \in Bytes /\ Len(FileHead) = 2 /\ FileHead[1] = SegMagic /\ FileHead[2] = SegVersion
  BY DEF FileHead, SegMagic, SegVersion, Bytes
<1>3. SegmentOf \in [Sealed -> Bytes]
  BY <1>1 DEF SegmentOf
<1>4. QED  BY <1>1, <1>2, <1>3

LEMMA ContainerIs ==
  ASSUME NEW segs \in Seq(Sealed)
  PROVE  Container(segs) = Encoded(FileHead, SegmentOf, segs) /\ Container(segs) \in Bytes
<1>1. Mapped(SegmentOf, segs) = [i \in 1..Len(segs) |-> Segment(EncodeStream(segs[i]))]
  <2>1. DOMAIN segs = 1..Len(segs) /\ \A i \in 1..Len(segs) : segs[i] \in Sealed
    BY LenProperties, ElementOfSeq
  <2>2. \A i \in 1..Len(segs) : SegmentOf[segs[i]] = Segment(EncodeStream(segs[i]))
    BY <2>1 DEF SegmentOf
  <2>3. QED  BY <2>1, <2>2 DEF Mapped
<1>2. Container(segs) = Encoded(FileHead, SegmentOf, segs)
  BY <1>1 DEF Container, Encoded, FileHead
<1>3. Encoded(FileHead, SegmentOf, segs) \in Bytes
  BY SegmentTypes, EncodedGrows
<1>4. QED  BY <1>2, <1>3

\* The first w segments are taken in w turns, whatever follows them.
TakenBy(segs, w) ==
  LET before == FlattenSeq(Mapped(SegmentOf, Take(segs, w)))
  IN  /\ before \in Bytes /\ Len(before) \in Nat /\ Len(before) >= w
      /\ \A rest \in Bytes :
           Runs(Loading(before \o rest, << >>, "ok"), Loading(rest, FlattenSeq(Take(segs, w)), "ok"), w)

LEMMA SegmentsRead ==
  ASSUME NEW segs \in Seq(Sealed)
  PROVE  \A w \in 0..Len(segs) : TakenBy(segs, w)
<1> DEFINE n == Len(segs)
           C(i) == FlattenSeq(Mapped(SegmentOf, Take(segs, i)))
           F(i) == FlattenSeq(Take(segs, i))
           D == {i \in 0..n : TakenBy(segs, i)}
<1>1. n \in Nat /\ \A i \in 1..n : segs[i] \in Sealed
  BY LenProperties, ElementOfSeq
<1>2. TakenBy(segs, 0)
  <2>1. Take(segs, 0) = << >>
    BY TakeAll
  <2>2. FlattenSeq(Mapped(SegmentOf, << >>)) = << >> /\ FlattenSeq(<< >>) = << >>
    <3>1. Mapped(SegmentOf, << >>) = << >>
      BY DEF Mapped
    <3>2. QED  BY <3>1, FlattenFew
  <2>3. C(0) = << >> /\ F(0) = << >>
    BY <2>1, <2>2
  <2>4. ASSUME NEW rest \in Bytes
        PROVE  Runs(Loading(<< >> \o rest, << >>, "ok"), Loading(rest, << >>, "ok"), 0)
    <3> DEFINE x == Loading(rest, << >>, "ok")
               h == [i \in 0..0 |-> x]
    <3>1. << >> \o rest = rest
      BY ConcatEmptySeq DEF Bytes
    <3>2. h[0] = x /\ \A i \in 1..0 : h[i] = SegTurn(h[i - 1])
      OBVIOUS
    <3> HIDE DEF h, x
    <3>3. Runs(x, x, 0)
      BY <3>2 DEF Runs
    <3>4. QED  BY <3>1, <3>3 DEF x
  <2>5. C(0) \in Bytes /\ Len(C(0)) \in Nat /\ Len(C(0)) >= 0
    <3>1. << >> \in Bytes /\ Len(<< >>) = 0
      BY NoPart, EmptySeq
    <3>2. Len(C(0)) = 0 /\ C(0) \in Bytes
      BY <2>3, <3>1
    <3> HIDE DEF C
    <3>3. QED  BY <3>2
  <2>6. \A rest \in Bytes : Runs(Loading(C(0) \o rest, << >>, "ok"), Loading(rest, F(0), "ok"), 0)
    <3> HIDE DEF C, F
    <3>1. QED  BY <2>3, <2>4
  <2>7. QED  BY <2>5, <2>6 DEF TakenBy
<1>3. ASSUME NEW i \in 1..n, TakenBy(segs, i - 1) PROVE TakenBy(segs, i)
  <2> DEFINE texts == segs[i]
             y == SegmentOf[texts]
             b == C(i - 1)
             f == F(i - 1)
             j == i - 1
  <2>1. texts \in Sealed /\ Take(segs, i - 1) \in Seq(Sealed) /\ HasOneMore(FileHead, SegmentOf, segs, i)
    BY <1>1, SegmentTypes, OneMore
  <2>2. C(i) = b \o y /\ Take(segs, i) = Take(segs, i - 1) \o <<texts>>
    BY <2>1 DEF HasOneMore
  <2>3. F(i) = f \o texts /\ f \in Seq(Bytes) /\ texts \in Seq(Bytes)
    <3> DEFINE t == Take(segs, i - 1)
    <3>1. texts \in Seq(Bytes) /\ \A x \in Sealed : x \in Seq(Bytes)
      BY <2>1, SegmentParts
    <3>2. t \in Seq(Seq(Bytes))
      <4>1. Sealed \subseteq Seq(Bytes)
        BY <3>1
      <4>2. QED  BY <2>1, <4>1, SeqMonotonic
    <3>3. <<texts>> \in Seq(Seq(Bytes)) /\ FlattenSeq(<<texts>>) = texts
      BY <3>1, FlattenFew
    <3> HIDE DEF t, texts
    <3>4. FlattenSeq(t \o <<texts>>) = FlattenSeq(t) \o FlattenSeq(<<texts>>) /\ FlattenSeq(t) \in Seq(Bytes)
      <4> DEFINE o == <<texts>>
      <4>1. o \in Seq(Seq(Bytes))
        BY <3>3
      <4> HIDE DEF o
      <4>2. FlattenSeq(t \o o) = FlattenSeq(t) \o FlattenSeq(o)
        BY <3>2, <4>1, FlattenConcat
      <4>3. QED  BY <3>2, <4>2, FlattenType DEF o
    <3>5. QED  BY <2>2, <3>1, <3>3, <3>4 DEF t
  <2>4. /\ b \in Bytes /\ Len(b) \in Nat /\ Len(b) >= i - 1
        /\ \A rest \in Bytes : Runs(Loading(b \o rest, << >>, "ok"), Loading(rest, f, "ok"), i - 1)
    BY <1>3 DEF TakenBy
  <2>5. y \in Bytes /\ Len(y) \in Nat \ {0}
    BY <2>1, SegmentTypes
  <2>6. ASSUME NEW rest \in Bytes PROVE SegTurn(Loading(y \o rest, f, "ok")) = Loading(rest, f \o texts, "ok")
    <3> DEFINE raw == EncodeStream(texts)
               m == Len(raw)
               c == Deflate(raw)
               seg == OpenSegment(m, c)
    <3>1. m \in Nat /\ m + 1 <= MaxSegment /\ c \in Bytes /\ Len(c) = m + 1 /\ y = Lengths(m) \o c
      BY <2>1, SegmentParts
    <3>2. seg.texts = texts /\ seg.ok = TRUE
      BY <2>1, SegmentOpens
    <3> HIDE DEF m, c, y, f, texts
    <3>3. SegTurn(Loading((Lengths(m) \o c) \o rest, f, "ok")) =
            Loading(rest, f \o seg.texts, IF seg.ok \/ Len(rest) < 1 THEN "ok" ELSE "corrupt")
      BY <3>1, TurnAtSegment
    <3> HIDE DEF seg
    <3>4. QED  BY <3>1, <3>2, <3>3
  <2> HIDE DEF texts, y, b, f
  <2>7. ASSUME NEW rest \in Bytes
        PROVE  Runs(Loading((b \o y) \o rest, << >>, "ok"), Loading(rest, f \o texts, "ok"), i)
    <3> DEFINE u == y \o rest
               x == Loading(b \o u, << >>, "ok")
    <3>1. b \in Seq(Nat) /\ y \in Seq(Nat) /\ rest \in Seq(Nat)
      BY <2>4, <2>5 DEF Bytes
    <3>2. u \in Bytes
      BY <3>1, ConcatProperties DEF Bytes
    <3>3. (b \o y) \o rest = b \o u
      <4>1. Regroups(b, y, rest)
        BY <3>1, JoinsAssociate
      <4> HIDE DEF u
      <4>2. (b \o y) \o rest = b \o (y \o rest)
        BY ONLY <4>1 DEF Regroups
      <4>3. QED  BY <4>2 DEF u
    <3>4. j \in Nat /\ j + 1 = i
      BY <1>1
    <3> HIDE DEF u
    <3>5. Runs(x, Loading(u, f, "ok"), j)
      BY <2>4, <3>2
    <3> HIDE DEF x, j
    <3>6. Runs(x, SegTurn(Loading(u, f, "ok")), j + 1)
      BY <3>4, <3>5, RunsFurther
    <3>7. SegTurn(Loading(u, f, "ok")) = Loading(rest, f \o texts, "ok")
      BY <2>6 DEF u
    <3>8. QED  BY <3>3, <3>4, <3>6, <3>7 DEF x
  <2>8. b \o y \in Bytes /\ Len(b \o y) \in Nat /\ Len(b \o y) >= i
    <3>1. b \in Seq(Nat) /\ y \in Seq(Nat)
      BY <2>4, <2>5 DEF Bytes
    <3>2. b \o y \in Seq(Nat) /\ Len(b \o y) = Len(b) + Len(y)
      BY <3>1, ConcatProperties
    <3>3. QED  BY <1>1, <2>4, <2>5, <3>2 DEF Bytes
  <2>9. QED  BY <2>2, <2>3, <2>7, <2>8 DEF TakenBy
<1>4. 0 \in D
  BY <1>1, <1>2
<1>5. ASSUME NEW i \in 1..n, i - 1 \in D PROVE i \in D
  <2>1. i \in 0..n /\ TakenBy(segs, i - 1)
    BY <1>1, <1>5
  <2>2. QED  BY <1>3, <2>1
<1>6. \A i \in 0..n : i \in D
  <2> HIDE DEF D, n
  <2>1. QED  BY <1>1, <1>4, <1>5, Climb
<1>7. QED  BY <1>6

\* What is made of a file with this header, after its segments, is what turns lead to.
LEMMA FileRead ==
  ASSUME NEW pieces \in Seq(Bytes), NEW D \in Bytes, FlattenSeq(pieces) = FileHead \o D,
         NEW r, Loads(D, r)
  PROVE  IngestFile(pieces) = r
<1> DEFINE T == FlattenSeq(pieces)
           q == IngestFile(pieces)
<1>1. Ingested(T, q)
  BY IngestIs
<1>2. /\ FileHead \in Seq(Nat) /\ Len(FileHead) = 2 /\ FileHead[1] = SegMagic
      /\ FileHead[2] = SegVersion /\ D \in Seq(Nat)
  BY SegmentTypes DEF Bytes
<1>3. /\ Len(FileHead \o D) = Len(FileHead) + Len(D) /\ Len(D) \in Nat
      /\ \A i \in 1..Len(FileHead) : (FileHead \o D)[i] = FileHead[i]
  BY <1>2, Longer
<1>4. Drop(FileHead \o D, Len(FileHead)) = D
  BY <1>2, CutAfter
<1>5. 1 \in 1..Len(FileHead) /\ 2 \in 1..Len(FileHead)
  BY <1>2
<1>6. Len(T) >= 2 /\ T[1] = SegMagic /\ T[2] = SegVersion /\ Drop(T, 2) = D
  BY <1>2, <1>3, <1>4, <1>5
<1> HIDE DEF T, q
<1>7. Loads(D, q)
  BY <1>1, <1>6 DEF Ingested
<1>8. q = r
  BY <1>7, LoadsOnce
<1>9. QED  BY <1>8 DEF q

LEMMA AfterHead ==
  ASSUME NEW b \in Bytes, NEW p \in Bytes
  PROVE  (FileHead \o b) \o p = FileHead \o (b \o p)
<1>1. ASSUME NEW head \in Bytes
      PROVE  (head \o b) \o p = head \o (b \o p)
  <2>1. head \in Seq(Nat) /\ b \in Seq(Nat) /\ p \in Seq(Nat)
    BY DEF Bytes
  <2>2. Regroups(head, b, p)
    BY <2>1, JoinsAssociate
  <2>3. QED  BY <2>2 DEF Regroups
<1>2. FileHead \in Bytes
  BY SegmentTypes
<1>3. QED  BY <1>1, <1>2

\* Of a recording that ends at any byte past its header, whatever the reads return, the
\* whole segments are loaded and nothing else, and that is no error: the tail a hard
\* kill leaves is dropped (read_segments, ingest_file).
THEOREM RecordingsSurvive ==
  ASSUME NEW segments \in Seq(Sealed), NEW k \in 2..Len(Container(segments)),
         NEW pieces \in Seq(Bytes), FlattenSeq(pieces) = Take(Container(segments), k)
  PROVE  FileSurvives(segments, k, pieces)
<1> DEFINE n == Len(segments)
           ends == FileEnds(segments)
           w == Max({i \in 0..n : ends[i] <= k})
           E(i) == Encoded(FileHead, SegmentOf, Take(segments, i))
           C(i) == FlattenSeq(Mapped(SegmentOf, Take(segments, i)))
<1>1. /\ n \in Nat /\ FileHead \in Bytes /\ Len(FileHead) = 2 /\ SegmentOf \in [Sealed -> Bytes]
      /\ Container(segments) = Encoded(FileHead, SegmentOf, segments) /\ Len(Container(segments)) \in Nat
  <2>1. Container(segments) \in Seq(Nat)
    BY ContainerIs DEF Bytes
  <2>2. QED  BY <2>1, ContainerIs, SegmentTypes, LenProperties
<1>2. ASSUME NEW i \in 0..n PROVE ends[i] = Len(E(i))
  <2>1. Take(segments, i) \in Seq(Sealed)
    BY CutInTwo
  <2>2. Container(Take(segments, i)) = E(i)
    BY <2>1, ContainerIs
  <2>3. QED  BY <2>2 DEF FileEnds
<1>3. k \in Nat /\ k >= Len(FileHead) /\ k <= Len(Encoded(FileHead, SegmentOf, segments))
  BY <1>1
<1>4. PICK p : CutAt(FileHead, SegmentOf, segments, k, w, p)
  <2>1. \A i \in 0..Len(segments) : ends[i] = Len(Encoded(FileHead, SegmentOf, Take(segments, i)))
    BY <1>2
  <2>2. w = Max({i \in 0..Len(segments) : ends[i] <= k})
    OBVIOUS
  <2> HIDE DEF ends, w, E
  <2>3. QED  BY <1>1, <1>3, <2>1, <2>2, CutsSomewhere
<1>5. /\ w \in 0..n /\ p \in Bytes /\ FlattenSeq(pieces) = E(w) \o p
      /\ \/ w = n /\ p = << >>
         \/ w + 1 \in 1..n /\ Len(p) < Len(SegmentOf[segments[w + 1]])
            /\ p = Take(SegmentOf[segments[w + 1]], Len(p))
  BY <1>1, <1>4 DEF CutAt
<1> HIDE DEF w, n
<1> DEFINE acc == FlattenSeq(Take(segments, w))
           z == Loading(p, acc, "ok")
<1>6. SegTurn(z) = z
  <2>1. CASE p = << >>
    <3>1. Len(p) < 2
      BY <2>1, EmptySeq
    <3> DEFINE x == Loading(p, acc, "ok")
    <3>2. SegTurn(x) = x
      <4>1. x.rest = p
        BY DEF Loading
      <4> HIDE DEF x
      <4>2. QED  BY <3>1, <4>1 DEF SegTurn
    <3>3. QED  BY <3>2
  <2>2. CASE /\ w + 1 \in 1..n /\ Len(p) < Len(SegmentOf[segments[w + 1]])
             /\ p = Take(SegmentOf[segments[w + 1]], Len(p))
    <3> DEFINE texts == segments[w + 1]
               raw == EncodeStream(texts)
               m == Len(raw)
               c == Deflate(raw)
               y == Lengths(m) \o c
               j == Len(p)
    <3>1. texts \in Sealed
      BY <2>2, ElementOfSeq DEF n
    <3>2. m \in Nat /\ m + 1 <= MaxSegment /\ c \in Bytes /\ Len(c) = m + 1 /\ SegmentOf[texts] = y
      BY <3>1, SegmentParts
    <3> HIDE DEF m, c
    <3>3. << >> \in Bytes
      BY NoPart
    <3>4. Len(y) = m + 3 /\ Stays(y, acc, m)
      <4> HIDE DEF acc
      <4>1. QED  BY <3>2, <3>3, TurnAtSegment
    <3>5. j \in Nat
      BY <1>5, LenProperties DEF Bytes
    <3>6. j < Len(y) /\ p = Take(y, j)
      BY <2>2, <3>2
    <3> HIDE DEF j, y, texts, acc
    <3>7. j \in 0..(m + 2)
      BY <3>2, <3>4, <3>5, <3>6
    <3>8. SegTurn(Loading(p, acc, "ok")) = Loading(p, acc, "ok")
      BY <3>4, <3>6, <3>7 DEF Stays
    <3>9. QED  BY <3>8
  <2>3. QED  BY <1>5, <2>1, <2>2
<1> DEFINE D == C(w) \o p
<1>7. /\ C(w) \in Bytes /\ Len(C(w)) \in Nat /\ Len(C(w)) >= w
      /\ Runs(Loading(D, << >>, "ok"), z, w)
  <2>1. TakenBy(segments, w)
    BY <1>5, SegmentsRead DEF n
  <2>2. QED  BY <1>5, <2>1 DEF TakenBy
<1>8. D \in Bytes /\ w \in Nat /\ w <= Len(D)
  <2> DEFINE b == C(w)
  <2>1. b \in Seq(Nat) /\ p \in Seq(Nat) /\ Len(b) \in Nat /\ Len(b) >= w /\ D = b \o p
    BY <1>5, <1>7 DEF Bytes
  <2> HIDE DEF b, D
  <2>2. b \o p \in Seq(Nat) /\ Len(b \o p) = Len(b) + Len(p) /\ Len(p) \in Nat
    BY <2>1, Longer
  <2>3. w \in Nat
    BY <1>1, <1>5
  <2>4. QED  BY <2>1, <2>2, <2>3 DEF Bytes
<1>9. Loads(D, Loaded(acc, "ok"))
  <2>1. z.texts = acc /\ z.verdict = "ok"
    BY DEF Loading
  <2> HIDE DEF z, D
  <2>2. Loads(D, Loaded(z.texts, z.verdict))
    BY <1>6, <1>7, <1>8, RunsOut
  <2>3. QED  BY <2>1, <2>2
<1>10. FlattenSeq(pieces) = FileHead \o D
  <2>1. E(w) = FileHead \o C(w)
    BY DEF Encoded
  <2>2. (FileHead \o C(w)) \o p = FileHead \o (C(w) \o p)
    BY <1>5, <1>7, AfterHead
  <2>3. QED  BY <1>5, <2>1, <2>2
<1> HIDE DEF D, acc
<1>11. IngestFile(pieces) = Loaded(acc, "ok")
  BY <1>8, <1>9, <1>10, FileRead
<1>12. QED  BY <1>11 DEF FileSurvives, acc, w, n

-----------------------------------------------------------------------------
(* A recording with a damaged segment. *)

\* The first byte of a segment's content is off by one.
OffByOne(s, k) == [s EXCEPT ![k] = @ + 1]
MovesTheByte(a, h, v, r, tail) ==
  OffByOne((a \o (h \o (<<v>> \o r))) \o tail, Len(a) + 3) = a \o ((h \o (<<v + 1>> \o r)) \o tail)

LEMMA ChangedSegment ==
  ASSUME NEW a \in Bytes, NEW h \in Bytes, Len(h) = 2, NEW v \in Nat, NEW r \in Bytes, NEW tail \in Bytes
  PROVE  MovesTheByte(a, h, v, r, tail)
<1> DEFINE head == a \o h
           q == r \o tail
<1>1. /\ a \in Seq(Nat) /\ h \in Seq(Nat) /\ r \in Seq(Nat) /\ tail \in Seq(Nat)
      /\ head \in Seq(Nat) /\ q \in Seq(Nat) /\ Len(head) = Len(a) + 2 /\ Len(a) \in Nat
  <2>1. a \in Seq(Nat) /\ h \in Seq(Nat) /\ r \in Seq(Nat) /\ tail \in Seq(Nat)
    BY DEF Bytes
  <2>2. head \in Seq(Nat) /\ Len(head) = Len(a) + Len(h) /\ Len(a) \in Nat
    BY <2>1, Longer
  <2>3. q \in Seq(Nat)
    BY <2>1, ConcatProperties
  <2>4. QED  BY <2>1, <2>2, <2>3
<1>2. ASSUME NEW x \in Seq(Nat) PROVE (a \o (h \o (x \o r))) \o tail = head \o (x \o q)
                                      /\ a \o ((h \o (x \o r)) \o tail) = head \o (x \o q)
  <2> DEFINE c == x \o r
             d == h \o c
             e == x \o q
  <2>1. c \in Seq(Nat) /\ e \in Seq(Nat)
    BY <1>1, JoinIs, Zenon
  <2>2. c \o tail = e
    <3>1. Regroups(x, r, tail)
      BY <1>1, JoinsAssociate
    <3>2. QED  BY <3>1 DEF Regroups
  <2> HIDE DEF c, e, q
  <2>3. head \o e = a \o (h \o e)
    <3>1. a \in Seq(Nat) /\ h \in Seq(Nat) /\ e \in Seq(Nat)
      BY <1>1, <2>1
    <3>2. (a \o h) \o e = a \o (h \o e)
      <4>1. Regroups(a, h, e)
        BY ONLY <3>1, JoinsAssociate
      <4>2. QED  BY ONLY <4>1 DEF Regroups
    <3>3. QED  BY <3>2
  <2> HIDE DEF head
  <2>4. d \in Seq(Nat) /\ d \o tail = h \o (c \o tail)
    <3>1. h \in Seq(Nat) /\ c \in Seq(Nat) /\ tail \in Seq(Nat)
      BY <1>1, <2>1
    <3>2. h \o c \in Seq(Nat)
      BY ONLY <3>1, JoinIs, Zenon
    <3>3. (h \o c) \o tail = h \o (c \o tail)
      <4>1. Regroups(h, c, tail)
        BY ONLY <3>1, JoinsAssociate
      <4>2. QED  BY ONLY <4>1 DEF Regroups
    <3>4. QED  BY <3>2, <3>3
  <2> HIDE DEF d
  <2>5. (a \o d) \o tail = a \o (d \o tail)
    <3>1. a \in Seq(Nat) /\ d \in Seq(Nat) /\ tail \in Seq(Nat)
      BY <1>1, <2>4
    <3>2. Regroups(a, d, tail)
      BY ONLY <3>1, JoinsAssociate
    <3>3. QED  BY ONLY <3>2 DEF Regroups
  <2>6. (a \o d) \o tail = head \o e /\ a \o (d \o tail) = head \o e
    BY <2>2, <2>3, <2>4, <2>5, Zenon
  <2>7. QED  BY <2>6 DEF c, d, e
<1> DEFINE o == <<v>>
           p == <<v + 1>>
<1>3. o \in Seq(Nat) /\ p \in Seq(Nat)
  OBVIOUS
<1>4. [head \o (o \o q) EXCEPT ![Len(head) + 1] = @ + 1] = head \o (p \o q)
  <2>1. head \in Seq(Nat) /\ q \in Seq(Nat) /\ v \in Nat
    BY <1>1
  <2> HIDE DEF head, q
  <2>2. QED  BY ONLY <2>1, ChangedPlace DEF o, p
<1> HIDE DEF o, p, head, q
<1>5. Len(head) + 1 = Len(a) + 3
  BY <1>1
<1>6. (a \o (h \o (o \o r))) \o tail = head \o (o \o q)
  BY <1>2, <1>3
<1>7. a \o ((h \o (p \o r)) \o tail) = head \o (p \o q)
  BY <1>2, <1>3
<1>8. QED  BY <1>4, <1>5, <1>6, <1>7 DEF MovesTheByte, OffByOne, o, p

\* The pieces before a place and those after it.
LEMMA EncodedAround ==
  ASSUME NEW S, NEW m \in [S -> Bytes], NEW head \in Bytes, NEW xs \in Seq(S), NEW i \in 0..Len(xs)
  PROVE  Encoded(head, m, xs) = Encoded(head, m, Take(xs, i)) \o FlattenSeq(Mapped(m, Drop(xs, i)))
<1> DEFINE s == Take(xs, i)
           t == Drop(xs, i)
<1>1. s \in Seq(S) /\ t \in Seq(S) /\ xs = s \o t
  BY CutInTwo
<1> HIDE DEF s, t
<1>2. Grows(head, m, s, t)
  BY <1>1, EncodedGrows
<1>3. QED  BY <1>1, <1>2 DEF Grows, s, t

\* A container of some segments has a place at least for each.
LEMMA TailIs ==
  ASSUME NEW segs \in Seq(Sealed), NEW i \in 0..Len(segs)
  PROVE  LET tail == FlattenSeq(Mapped(SegmentOf, Drop(segs, i)))
         IN  tail \in Bytes /\ Len(tail) \in Nat /\ (Len(tail) < 1 <=> i = Len(segs))
<1> DEFINE t == Drop(segs, i)
           tail == FlattenSeq(Mapped(SegmentOf, t))
           n == Len(t)
<1>1. t \in Seq(Sealed) /\ n = Len(segs) - i /\ Len(segs) \in Nat
  BY CutInTwo, LenProperties
<1> HIDE DEF t
<1>2. n \in 0..n /\ Take(t, n) = t
  BY <1>1, TakeAll
<1>3. TakenBy(t, n)
  BY <1>1, <1>2, SegmentsRead
<1> DEFINE before == FlattenSeq(Mapped(SegmentOf, Take(t, n)))
<1>4. before \in Bytes /\ Len(before) \in Nat /\ Len(before) >= n
  BY <1>3 DEF TakenBy
<1>5. tail \in Bytes /\ Len(tail) \in Nat /\ Len(tail) >= n
  BY <1>2, <1>4
<1>6. n = 0 => Len(tail) = 0
  <2>1. n = 0 => t = << >>
    BY <1>1, EmptySeq
  <2>2. Mapped(SegmentOf, << >>) = << >> /\ FlattenSeq(<< >>) = << >> /\ Len(<< >>) = 0
    BY FlattenFew, EmptySeq DEF Mapped
  <2> HIDE DEF n
  <2>3. QED  BY <2>1, <2>2
<1> HIDE DEF tail, n
<1>7. QED  BY <1>1, <1>5, <1>6 DEF tail, t

\* A damaged segment is never loaded: what came before it is, and it is an error
\* unless nothing comes after it (decode_segment, read_segments).
THEOREM DamageIsNeverLoaded ==
  ASSUME NEW segments \in Seq(Sealed), NEW i \in 1..Len(segments),
         NEW pieces \in Seq(Bytes), FlattenSeq(pieces) = Damaged(segments, i)
  PROVE  DamageIsFound(segments, i, pieces)
<1> DEFINE n == Len(segments)
           j == i - 1
           texts == segments[i]
           raw == EncodeStream(texts)
           m == Len(raw)
           c == <<m + 1>> \o raw
           A == Encoded(FileHead, SegmentOf, Take(segments, j))
           b == FlattenSeq(Mapped(SegmentOf, Take(segments, j)))
           f == FlattenSeq(Take(segments, j))
           tail == FlattenSeq(Mapped(SegmentOf, Drop(segments, i)))
           bad == Lengths(m) \o c
<1>1. n \in Nat /\ j \in 0..n /\ i \in 0..n /\ j + 1 = i /\ texts \in Sealed
  BY LenProperties, ElementOfSeq
<1>2. /\ raw \in Bytes /\ m \in Nat /\ m + 1 <= MaxSegment /\ Deflate(raw) = <<m>> \o raw
      /\ SegmentOf[texts] = Lengths(m) \o (<<m>> \o raw)
      /\ OpenSegment(m, c).texts = << >> /\ OpenSegment(m, c).ok = FALSE
  <2>1. /\ raw \in Bytes /\ m \in Nat /\ m + 1 <= MaxSegment /\ Deflate(raw) = <<m>> \o raw
        /\ SegmentOf[texts] = Lengths(m) \o Deflate(raw)
    BY <1>1, SegmentParts
  <2>2. OpenSegment(m, c).texts = << >> /\ OpenSegment(m, c).ok = FALSE
    BY <1>1, SegmentOpens
  <2>3. SegmentOf[texts] = Lengths(m) \o (<<m>> \o raw)
    BY <2>1
  <2>4. QED  BY <2>1, <2>2, <2>3
<1>3. tail \in Bytes /\ Len(tail) \in Nat /\ (Len(tail) < 1 <=> i = n)
  BY <1>1, TailIs
<1>4. TakenBy(segments, j)
  BY <1>1, SegmentsRead
<1>5. /\ b \in Bytes /\ Len(b) \in Nat /\ Len(b) >= j
      /\ \A rest \in Bytes : Runs(Loading(b \o rest, << >>, "ok"), Loading(rest, f, "ok"), j)
  BY <1>4 DEF TakenBy
<1>6. A \in Bytes /\ A = FileHead \o b /\ Take(segments, j) \in Seq(Sealed)
  <2> DEFINE t == Take(segments, j)
  <2>1. t \in Seq(Sealed)
    BY <1>1, CutInTwo
  <2> HIDE DEF t
  <2>2. SegmentOf \in [Sealed -> Bytes] /\ FileHead \in Bytes
    BY SegmentTypes
  <2>3. Encoded(FileHead, SegmentOf, t) \in Bytes
    BY <2>1, <2>2, EncodedGrows
  <2>4. QED  BY <2>1, <2>3 DEF Encoded, t
<1>7. FileEnds(segments)[i - 1] = Len(A)
  <2>1. Container(Take(segments, j)) = A
    BY <1>6, ContainerIs
  <2>2. FileEnds(segments)[j] = Len(Container(Take(segments, j)))
    BY <1>1 DEF FileEnds
  <2>3. QED  BY <2>1, <2>2
<1>8. Container(segments) = (A \o (Lengths(m) \o (<<m>> \o raw))) \o tail
  <2>1. Container(segments) = Encoded(FileHead, SegmentOf, segments)
    BY ContainerIs
  <2>2. Encoded(FileHead, SegmentOf, segments) = Encoded(FileHead, SegmentOf, Take(segments, i)) \o tail
    BY <1>1, SegmentTypes, EncodedAround
  <2>3. HasOneMore(FileHead, SegmentOf, segments, i)
    BY <1>1, SegmentTypes, OneMore
  <2>4. Encoded(FileHead, SegmentOf, Take(segments, i)) = A \o SegmentOf[texts]
    BY <2>3 DEF HasOneMore
  <2> HIDE DEF A, tail, texts, m, raw
  <2>5. QED  BY <1>2, <2>1, <2>2, <2>4
<1> HIDE DEF A, b, f, tail, m, raw, texts, n, j
<1>9. Lengths(m) \in Bytes /\ Len(Lengths(m)) = 2
  BY <1>2 DEF Lengths, Bytes
<1>10. Damaged(segments, i) = A \o (bad \o tail)
  <2> DEFINE h == Lengths(m)
  <2>1. h \in Bytes /\ Len(h) = 2 /\ m \in Nat /\ A \in Bytes /\ raw \in Bytes /\ tail \in Bytes
    BY <1>2, <1>3, <1>6, <1>9
  <2> HIDE DEF h
  <2>2. MovesTheByte(A, h, m, raw, tail)
    BY ONLY <2>1, ChangedSegment
  <2>3. Damaged(segments, i) = OffByOne(Container(segments), Len(A) + 3)
    BY <1>7 DEF Damaged, OffByOne
  <2>4. QED  BY <1>8, <2>2, <2>3 DEF MovesTheByte, h
<1>11. c \in Bytes /\ Len(c) = m + 1
  <2> DEFINE o == <<m + 1>>
  <2>1. o \in Seq(Nat) /\ Len(o) = 1 /\ raw \in Seq(Nat)
    BY <1>2 DEF Bytes
  <2> HIDE DEF o
  <2>2. o \o raw \in Seq(Nat) /\ Len(o \o raw) = Len(o) + Len(raw)
    BY <2>1, ConcatProperties
  <2>3. QED  BY <1>2, <2>1, <2>2 DEF Bytes, o, m
<1> DEFINE seg == OpenSegment(m, c)
           z == Loading(tail, f, IF i = n THEN "ok" ELSE "corrupt")
           D == b \o (bad \o tail)
<1>12. f \o << >> = f
  <2>1. f \in Seq(Bytes)
    <3> DEFINE t == Take(segments, j)
    <3>1. t \in Seq(Sealed) /\ Sealed \subseteq Seq(Bytes)
      BY <1>6, SegmentParts
    <3> HIDE DEF t
    <3>2. t \in Seq(Seq(Bytes))
      BY <3>1, SeqMonotonic
    <3>3. QED  BY <3>2, FlattenType DEF f, t
  <2>2. QED  BY <2>1, ConcatEmptySeq
<1>13. SegTurn(Loading(bad \o tail, f, "ok")) = z /\ bad \in Bytes /\ Len(bad) = m + 3
  <2>1. bad \in Bytes /\ Len(bad) = m + 3
        /\ SegTurn(Loading((Lengths(m) \o c) \o tail, f, "ok")) =
             Loading(tail, f \o seg.texts, IF seg.ok \/ Len(tail) < 1 THEN "ok" ELSE "corrupt")
    <3>1. m \in Nat /\ m + 1 <= MaxSegment /\ tail \in Bytes /\ c \in Bytes /\ Len(c) = m + 1
      BY <1>2, <1>3, <1>11
    <3> HIDE DEF c
    <3>2. QED  BY ONLY <3>1, TurnAtSegment
  <2>2. seg.texts = << >> /\ seg.ok = FALSE
    BY <1>2
  <2> HIDE DEF seg, c
  <2>3. QED  BY <1>3, <1>12, <2>1, <2>2
<1> HIDE DEF bad, c
<1>14. bad \o tail \in Bytes /\ Len(bad \o tail) \in Nat /\ Len(bad \o tail) >= 1
  <2>1. bad \in Seq(Nat) /\ tail \in Seq(Nat)
    BY <1>3, <1>13 DEF Bytes
  <2>2. bad \o tail \in Seq(Nat) /\ Len(bad \o tail) = Len(bad) + Len(tail)
    BY <2>1, ConcatProperties
  <2>3. Len(bad) = m + 3 /\ m \in Nat /\ Len(tail) \in Nat
    BY <1>2, <1>3, <1>13
  <2>4. Len(bad) + Len(tail) \in Nat /\ Len(bad) + Len(tail) >= 1
    BY ONLY <2>3
  <2>5. QED  BY <2>2, <2>4 DEF Bytes
<1> DEFINE u == bad \o tail
           x == Loading(D, << >>, "ok")
<1> HIDE DEF z
<1>15. Runs(x, z, i)
  <2>1. u \in Bytes /\ SegTurn(Loading(u, f, "ok")) = z
    BY <1>13, <1>14
  <2> HIDE DEF u
  <2>2. Runs(Loading(b \o u, << >>, "ok"), Loading(u, f, "ok"), j)
    BY <1>5, <2>1
  <2> DEFINE y == Loading(u, f, "ok")
             e == Loading(b \o u, << >>, "ok")
  <2>3. j \in Nat /\ SegTurn(y) = z /\ Runs(e, y, j)
    BY <1>1, <2>1, <2>2
  <2> HIDE DEF y, e
  <2>4. Runs(e, SegTurn(y), j + 1)
    BY <2>3, RunsFurther
  <2>5. Runs(e, z, i)
    BY <1>1, <2>3, <2>4
  <2>6. QED  BY <2>5 DEF e, u
<1>16. SegTurn(z) = z
  <2> DEFINE v == IF i = n THEN "ok" ELSE "corrupt"
  <2>1. v # "ok" \/ Len(tail) < 2
    BY <1>3
  <2> HIDE DEF v
  <2>2. SegTurn(Loading(tail, f, v)) = Loading(tail, f, v)
    BY <2>1, SegTurnCases
  <2>3. QED  BY <2>2 DEF z, v
<1>17. D \in Bytes /\ i \in Nat /\ i <= Len(D)
  <2>1. b \in Seq(Nat) /\ u \in Seq(Nat) /\ Len(u) >= 1
    BY <1>5, <1>14 DEF Bytes
  <2> HIDE DEF u
  <2>2. b \o u \in Seq(Nat) /\ Len(b \o u) = Len(b) + Len(u) /\ Len(u) \in Nat
    BY <2>1, Longer
  <2>3. D = b \o u
    BY DEF u
  <2> HIDE DEF D
  <2>4. QED  BY <1>1, <1>5, <2>1, <2>2, <2>3 DEF Bytes
<1>18. FlattenSeq(pieces) = FileHead \o D
  <2>1. (FileHead \o b) \o u = FileHead \o (b \o u)
    BY <1>5, <1>14, AfterHead
  <2>2. QED  BY <1>6, <1>10, <2>1
<1>19. Loads(D, Loaded(z.texts, z.verdict))
  <2> HIDE DEF D
  <2>1. QED  BY <1>15, <1>16, <1>17, RunsOut
<1>20. IngestFile(pieces) = Loaded(z.texts, z.verdict)
  <2> HIDE DEF D
  <2>1. QED  BY <1>17, <1>18, <1>19, FileRead
<1>21. z.texts = f /\ z.verdict = IF i = n THEN "ok" ELSE "corrupt"
  BY DEF z, Loading
<1>22. QED  BY <1>20, <1>21 DEF DamageIsFound, f, n, j

-----------------------------------------------------------------------------
(* What the runs check of the bytes, from the theorems above. *)

LEMMA TwoReads ==
  ASSUME NEW bytes \in Bytes, NEW i \in 0..Len(bytes)
  PROVE  /\ Take(bytes, i) \in Bytes /\ Drop(bytes, i) \in Bytes
         /\ Take(bytes, i) \o Drop(bytes, i) = bytes
<1>1. bytes \in Seq(Nat)
  BY DEF Bytes
<1>2. Take(bytes, i) \in Seq(Nat) /\ Drop(bytes, i) \in Seq(Nat) /\ bytes = Take(bytes, i) \o Drop(bytes, i)
  BY <1>1, CutInTwo
<1>3. QED  BY <1>2 DEF Bytes

\* The pieces of some bytes, in one read, two or three, are those bytes.
LEMMA PiecesAre ==
  ASSUME NEW bytes \in Bytes, NEW ps \in Pieces(bytes)
  PROVE  ps \in Seq(Bytes) /\ FlattenSeq(ps) = bytes
<1> DEFINE n == Len(bytes)
           Part(i, j) == SubSeq(bytes, i + 1, j)
<1>1. n \in Nat
  BY LenProperties DEF Bytes
<1>2. \/ ps = <<bytes>>
      \/ \E i \in 1..(n - 1) : ps = <<Part(0, i), Part(i, n)>>
      \/ \E i \in 1..(n - 1) : \E j \in (i + 1)..(n - 1) : ps = <<Part(0, i), Part(i, j), Part(j, n)>>
  BY DEF Pieces
<1>3. CASE ps = <<bytes>>
  BY <1>3, FewPieces DEF CutInto, Bytes
<1>4. ASSUME NEW i \in 1..(n - 1), ps = <<Part(0, i), Part(i, n)>>
      PROVE  ps \in Seq(Bytes) /\ FlattenSeq(ps) = bytes
  <2> DEFINE x == Take(bytes, i)
             y == Drop(bytes, i)
  <2>1. i \in 0..n
    BY <1>1
  <2>2. x \in Bytes /\ y \in Bytes /\ x \o y = bytes
    BY <2>1, TwoReads
  <2>3. Part(0, i) = x /\ Part(i, n) = y
    BY DEF Take, Drop
  <2> HIDE DEF x, y, Part
  <2>4. CutInto(<<x, y>>, x \o y)
    BY <2>2, FewPieces DEF Bytes
  <2>5. QED  BY <1>4, <2>2, <2>3, <2>4 DEF CutInto, Bytes
<1>5. ASSUME NEW i \in 1..(n - 1), NEW j \in (i + 1)..(n - 1), ps = <<Part(0, i), Part(i, j), Part(j, n)>>
      PROVE  ps \in Seq(Bytes) /\ FlattenSeq(ps) = bytes
  <2> DEFINE w == Take(bytes, j)
             z == Drop(bytes, j)
             x == Take(w, i)
             y == Drop(w, i)
  <2>1. j \in 0..n /\ j \in Nat /\ i \in 0..j /\ i \in Nat
    BY <1>1
  <2>2. w \in Bytes /\ z \in Bytes /\ w \o z = bytes
    BY <2>1, TwoReads
  <2>3. Len(w) = j
    <3>1. bytes \in Seq(Nat) /\ j \in 0..Len(bytes)
      BY <2>1 DEF Bytes
    <3>2. QED  BY <3>1, CutInTwo
  <2>4. Part(0, i) = x /\ Part(i, j) = y
    <3> DEFINE l == i + 1
    <3>1. l \in Nat \ {0} /\ 1 \in Nat \ {0} /\ w \in Seq(Nat) /\ z \in Seq(Nat)
          /\ i \in 0..Len(w) /\ j \in 0..Len(w)
      BY <2>1, <2>2, <2>3 DEF Bytes
    <3> HIDE DEF w, z, l
    <3>2. SubSeq(w \o z, 1, i) = SubSeq(w, 1, i) /\ SubSeq(w \o z, l, j) = SubSeq(w, l, j)
      <4>1. \A a \in Nat \ {0}, b \in 0..Len(w) : SubSeq(w \o z, a, b) = SubSeq(w, a, b)
        BY ONLY <3>1, Longer
      <4>2. QED  BY ONLY <3>1, <4>1
    <3>3. SubSeq(bytes, 1, i) = SubSeq(w, 1, i) /\ SubSeq(bytes, l, j) = SubSeq(w, l, j)
      BY <2>2, <3>2
    <3>4. QED  BY <2>3, <3>3 DEF Take, Drop, l
  <2>5. Part(j, n) = z
    BY DEF Drop
  <2> HIDE DEF w, z, Part
  <2>6. x \in Bytes /\ y \in Bytes /\ x \o y = w
    BY <2>1, <2>2, <2>3, TwoReads
  <2> HIDE DEF x, y
  <2>7. CutInto(<<x, y, z>>, (x \o y) \o z)
    BY <2>2, <2>6, FewPieces DEF Bytes
  <2>8. QED  BY <1>5, <2>2, <2>4, <2>5, <2>6, <2>7 DEF CutInto, Bytes
<1> HIDE DEF n, Part
<1>6. QED  BY <1>2, <1>3, <1>4, <1>5

LEMMA ShortInputs ==
  /\ \A n \in Nat : AnyBytes(n) \subseteq Bytes
  /\ \A n \in Nat : \A texts \in [1..n -> ShortTexts] : texts \in Seq(Fitting)
  /\ \A n \in Nat : \A segments \in [1..n -> ShortSegments] : segments \in Seq(Sealed)
<1>1. AnyByte \subseteq Nat /\ Letters \subseteq Nat
  <2>1. AnyByte \subseteq 0..(2 * Group - 1) /\ Letters \subseteq AnyByte /\ Group \in Nat
    BY FramingAssumption
  <2>2. QED  BY <2>1
<1>2. ASSUME NEW n \in Nat, NEW f, NEW S, f \in [1..n -> S] PROVE f \in Seq(S)
  BY <1>2, SequenceOf
<1>3. ASSUME NEW n \in Nat, NEW bs \in AnyBytes(n) PROVE bs \in Bytes
  <2>1. PICK k \in 0..n : bs \in [1..k -> AnyByte]
    BY DEF AnyBytes
  <2>2. bs \in [1..k -> Nat]
    BY <1>1, <2>1
  <2>3. QED  BY <1>2, <2>2 DEF Bytes
<1>4. ShortTexts \subseteq Fitting
  <2>1. SUFFICES ASSUME NEW text \in ShortTexts PROVE text \in Fitting
    OBVIOUS
  <2>2. PICK k \in 0..2 : text \in [1..k -> Letters]
    BY DEF ShortTexts
  <2>3. text \in [1..k -> Nat] /\ k \in Nat
    <3>1. k \in Nat
      BY <2>2
    <3>2. QED  BY ONLY <1>1, <2>2, <3>1
  <2>4. text \in Bytes
    BY <1>2, <2>3 DEF Bytes
  <2>5. FitsFrame(text)
    BY DEF ShortTexts
  <2>6. QED  BY <2>4, <2>5 DEF Fitting
<1>5. ASSUME NEW n \in Nat, NEW texts \in [1..n -> ShortTexts] PROVE texts \in Seq(Fitting)
  <2>1. texts \in [1..n -> Fitting]
    BY <1>4
  <2>2. QED  BY <1>2, <2>1
<1>6. ShortSegments \subseteq Sealed
  <2>1. SUFFICES ASSUME NEW texts \in ShortSegments PROVE texts \in Sealed
    OBVIOUS
  <2>2. PICK k \in 0..1 : texts \in [1..k -> ShortTexts]
    BY DEF ShortSegments
  <2>3. texts \in Seq(Fitting)
    BY <1>5, <2>2
  <2>4. FitsSegment(texts)
    BY DEF ShortSegments
  <2>5. QED  BY <2>3, <2>4 DEF Sealed
<1>7. ASSUME NEW n \in Nat, NEW segments \in [1..n -> ShortSegments] PROVE segments \in Seq(Sealed)
  <2>1. segments \in [1..n -> Sealed]
    BY <1>6
  <2>2. QED  BY <1>2, <2>1
<1>8. QED  BY <1>3, <1>5, <1>7

LEMMA BytesAreExact == BytesExact
<1>1. ASSUME NEW texts \in UNION {[1..n -> ShortTexts] : n \in 0..2},
             NEW k \in 2..Len(EncodeStream(texts)), NEW pieces \in Pieces(Take(EncodeStream(texts), k))
      PROVE  StreamSurvives(texts, k, pieces)
  <2>1. PICK n \in 0..2 : texts \in [1..n -> ShortTexts]
    OBVIOUS
  <2>2. texts \in Seq(Fitting)
    BY <2>1, ShortInputs
  <2> DEFINE E == EncodeStream(texts)
  <2>3. E \in Bytes
    BY <2>2, StreamRead, StreamIs
  <2> HIDE DEF E
  <2>4. k \in 0..Len(E)
    BY DEF E
  <2>5. Take(E, k) \in Bytes
    BY <2>3, <2>4, TwoReads
  <2>6. pieces \in Seq(Bytes) /\ FlattenSeq(pieces) = Take(E, k)
    BY <2>5, PiecesAre DEF E
  <2>7. QED  BY <2>2, <2>6, StreamsSurvive DEF E
<1>2. ASSUME NEW bs \in AnyBytes(4), NEW pieces \in Pieces(<<Magic, Version>> \o bs)
      PROVE  CutsDoNotMatter(pieces)
  <2> DEFINE h == <<Magic, Version>>
  <2>1. h \in Seq(Nat) /\ bs \in Seq(Nat)
    BY ShortInputs DEF Bytes, Magic, Version
  <2> HIDE DEF h
  <2>2. h \o bs \in Bytes
    BY <2>1, ConcatProperties DEF Bytes
  <2>3. pieces \in Seq(Bytes)
    BY <2>2, PiecesAre DEF h
  <2>4. QED  BY <2>3, ReadsMayCutAnywhere
<1>3. ASSUME NEW bs \in AnyBytes(4), NEW n \in 0..MaxFrameLen
      PROVE  HoldsOneFrame(<<StrPool>> \o bs \o [i \in 1..n |-> 0])
  <2> DEFINE h == <<StrPool>>
             t == [i \in 1..n |-> 0]
  <2>1. h \in Seq(Nat) /\ bs \in Seq(Nat)
    BY ShortInputs DEF Bytes, StrPool
  <2>2. n \in Nat /\ t \in [1..n -> Nat]
    BY FrameLenIs
  <2> HIDE DEF h, t
  <2>3. t \in Seq(Nat)
    BY <2>2, SequenceOf
  <2>4. h \o bs \in Seq(Nat)
    BY <2>1, ConcatProperties
  <2>5. (h \o bs) \o t \in Bytes
    BY <2>3, <2>4, ConcatProperties DEF Bytes
  <2>6. QED  BY <2>5, WaitsForOneFrame DEF h, t
<1>4. ASSUME NEW segments \in UNION {[1..n -> ShortSegments] : n \in 0..2}
      PROVE  segments \in Seq(Sealed) /\ Container(segments) \in Bytes
  <2>1. PICK n \in 0..2 : segments \in [1..n -> ShortSegments]
    OBVIOUS
  <2>2. segments \in Seq(Sealed)
    BY <2>1, ShortInputs
  <2>3. QED  BY <2>2, ContainerIs
<1>5. ASSUME NEW segments \in UNION {[1..n -> ShortSegments] : n \in 0..2},
             NEW k \in 2..Len(Container(segments)), NEW pieces \in Pieces(Take(Container(segments), k))
      PROVE  FileSurvives(segments, k, pieces)
  <2> DEFINE E == Container(segments)
  <2>1. segments \in Seq(Sealed) /\ E \in Bytes
    BY <1>4
  <2> HIDE DEF E
  <2>2. k \in 0..Len(E)
    BY DEF E
  <2>3. Take(E, k) \in Bytes
    BY <2>1, <2>2, TwoReads
  <2>4. pieces \in Seq(Bytes) /\ FlattenSeq(pieces) = Take(E, k)
    BY <2>3, PiecesAre DEF E
  <2>5. QED  BY <2>1, <2>4, RecordingsSurvive DEF E
<1>6. ASSUME NEW segments \in UNION {[1..n -> ShortSegments] : n \in 0..2},
             NEW i \in 1..Len(segments), NEW pieces \in Pieces(Damaged(segments, i))
      PROVE  DamageIsFound(segments, i, pieces)
  <2>1. segments \in Seq(Sealed)
    BY <1>4
  <2>2. Damaged(segments, i) \in Bytes
    <3> DEFINE E == Container(segments)
               p == FileEnds(segments)[i - 1] + 3
    <3>1. E \in Seq(Nat)
      BY <1>4 DEF Bytes
    <3> HIDE DEF E, p
    <3>2. DOMAIN E = 1..Len(E) /\ Len(E) \in Nat /\ \A q \in 1..Len(E) : E[q] \in Nat
      BY <3>1, LenProperties, ElementOfSeq
    <3> DEFINE U == [E EXCEPT ![p] = @ + 1]
    <3>3. U \in [1..Len(E) -> Nat]
      <4>1. E \in [1..Len(E) -> Nat]
        BY <3>1
      <4> DEFINE X == 1..Len(E)
      <4> HIDE DEF X
      <4>2. E \in [X -> Nat]
        BY <4>1 DEF X
      <4>3. U = [q \in X |-> IF q = p THEN E[q] + 1 ELSE E[q]]
        BY <4>2
      <4>4. \A q \in X : E[q] \in Nat /\ E[q] + 1 \in Nat
        BY <4>2
      <4>5. U \in [X -> Nat]
        BY <4>3, <4>4
      <4>6. QED  BY <4>5 DEF X
    <3>4. U \in Seq(Nat)
      BY <3>2, <3>3, SequenceOf
    <3>5. QED  BY <3>4 DEF Damaged, Bytes, U, E, p
  <2>3. pieces \in Seq(Bytes) /\ FlattenSeq(pieces) = Damaged(segments, i)
    BY <2>2, PiecesAre
  <2>4. QED  BY <2>1, <2>3, DamageIsNeverLoaded
<1>7. QED  BY <1>1, <1>2, <1>3, <1>5, <1>6 DEF BytesExact

\* Every word goes through a number of the format and back, and none wraps
\* (peek_varint, write_varint), in every run of the program.
THEOREM WordsAreRead == Spec => []NumbersRead
<1>1. NumbersRead
  BY NumbersAreExact DEF NumbersRead
<1>2. QED  BY <1>1, PTL

\* The readers of streams and of recordings give back what was written, whatever the
\* reads return (read_stream, ingest_file), in every run of the program.
THEOREM BytesAreRead == Spec => BytesRead
<1>1. [Init => BytesExact]_vars
  BY BytesAreExact
<1>2. QED  BY <1>1, PTL DEF BytesRead
==============================================================================
