-------------------------- MODULE RecordingProofs ---------------------------
(***************************************************************************)
(* Machine-checked theorems about Recording: its cursors never run ahead   *)
(* of the disk, whatever fails; and, when no I/O error happens, what is    *)
(* read back after a crash at any instant is exact, so that the recording  *)
(* implements a durable log.                                               *)
(***************************************************************************)
EXTENDS Recording, TLAPS, SequenceTheorems, WellFoundedInduction, NaturalsInduction

-----------------------------------------------------------------------------
(* Facts about chunks and sequences of chunks. *)

LEMMA KindsMembers == "execution" \in Kinds /\ "gc" \in Kinds
BY DEF Kinds

LEMMA HeaderType == Nothing \in [Kinds -> Nat] /\ Header \in Chunk
BY DEF Header, Chunk, Nothing

\* What TypeOK says of numbers, chunk by chunk and kind by kind.
LEMMA Numbers ==
  ASSUME TypeOK
  PROVE  /\ synced \in Nat /\ errors \in Nat
         /\ file \in Seq(Chunk) /\ Len(file) \in Nat
         /\ \A k \in Kinds : held[k] \in Nat /\ sealed[k] \in Nat /\ done[k] \in Nat
         /\ \A i \in 1..Len(file) : /\ file[i] \in Chunk
                                    /\ file[i].from \in [Kinds -> Nat]
                                    /\ file[i].to \in [Kinds -> Nat]
<1>1. /\ synced \in Nat /\ errors \in Nat /\ file \in Seq(Chunk)
      /\ held \in [Kinds -> Nat] /\ sealed \in [Kinds -> Nat] /\ done \in [Kinds -> Nat]
  BY Zenon DEF TypeOK
<1>2. \A i \in 1..Len(file) : file[i] \in Chunk
  BY <1>1, ElementOfSeq
<1>3. \A i \in 1..Len(file) : file[i].from \in [Kinds -> Nat] /\ file[i].to \in [Kinds -> Nat]
  BY <1>2 DEF Chunk
<1>4. QED  BY <1>1, <1>2, <1>3, LenProperties

LEMMA OneMoreError ==
  ASSUME TypeOK, AnError
  PROVE  errors' \in Nat /\ errors < MaxErrors
<1>1. errors \in Nat
  BY Numbers
<1>2. errors < MaxErrors /\ errors' = errors + 1
  BY DEF AnError
<1>3. QED  BY <1>1, <1>2

\* A new segment starts where the seal stands, loses nothing and is well typed.
LEMMA SegmentsNextFacts ==
  ASSUME TypeOK, NEW seg \in SegmentsNext, \A k \in Kinds : done[k] <= held[k]
  PROVE  /\ seg \in Chunk
         /\ seg.from = done
         /\ \A k \in Kinds : done[k] <= seg.to[k] /\ seg.to[k] <= held[k]
         /\ seg.bytes = "whole"
         /\ seg.meta <=> (~metaDone /\ ~wroteFirst)
<1>1. PICK n \in done["execution"]..held["execution"] :
        seg = [from |-> done, to |-> [held EXCEPT !["execution"] = n],
               meta |-> ~metaDone /\ ~wroteFirst, bytes |-> "whole"]
  BY DEF SegmentsNext
<1>2. done["execution"] \in Nat /\ held["execution"] \in Nat
  BY KindsMembers DEF TypeOK
<1>3. n \in Nat /\ done["execution"] <= n /\ n <= held["execution"]
  BY <1>2
<1>4. seg.to \in [Kinds -> Nat]
  BY <1>1, <1>3 DEF TypeOK
<1>5. seg \in Chunk
  BY <1>1, <1>4 DEF TypeOK, Chunk
<1>6. ASSUME NEW k \in Kinds
      PROVE  done[k] <= seg.to[k] /\ seg.to[k] <= held[k]
  <2>1. held[k] \in Nat /\ done[k] \in Nat
    BY DEF TypeOK
  <2>2. seg.to = [held EXCEPT !["execution"] = n] /\ held \in [Kinds -> Nat]
    BY <1>1 DEF TypeOK
  <2>3. CASE k = "execution"
    <3>1. seg.to[k] = n
      BY <2>2, <2>3, KindsMembers
    <3>2. QED  BY <3>1, <2>3, <1>3
  <2>4. CASE k # "execution"
    <3>1. seg.to[k] = held[k]
      BY <2>2, <2>4
    <3>2. QED  BY <3>1, <2>1
  <2>5. QED  BY <2>3, <2>4
<1>7. QED  BY <1>1, <1>5, <1>6

\* Flushing the buffer and losing it change only the bytes of chunks that were
\* not whole.
LEMMA CompletedFacts ==
  ASSUME NEW f \in Seq(Chunk)
  PROVE  /\ Completed(f) \in Seq(Chunk)
         /\ Len(Completed(f)) = Len(f)
         /\ \A i \in 1..Len(f) :
              /\ Completed(f)[i] \in Chunk
              /\ f[i].bytes = "whole" => Completed(f)[i] = f[i]
<1>1. \A i \in 1..Len(f) : f[i] \in Chunk
  BY ElementOfSeq
<1>2. ASSUME NEW c \in Chunk  PROVE [c EXCEPT !.bytes = "whole"] \in Chunk
  BY DEF Chunk
<1>3. \A i \in 1..Len(f) :
        (IF f[i].bytes = "buffered" THEN [f[i] EXCEPT !.bytes = "whole"] ELSE f[i]) \in Chunk
  BY <1>1, <1>2
<1>4. Completed(f) \in [1..Len(f) -> Chunk]
  BY <1>3 DEF Completed
<1>5. Len(f) \in Nat
  OBVIOUS
<1>6. Completed(f) \in Seq(Chunk) /\ Len(Completed(f)) = Len(f)
  BY <1>4, <1>5
<1>7. \A i \in 1..Len(f) : Completed(f)[i] \in Chunk
  BY <1>4
<1>8. \A i \in 1..Len(f) : f[i].bytes = "whole" => Completed(f)[i] = f[i]
  BY DEF Completed
<1>9. QED  BY <1>6, <1>7, <1>8

LEMMA TornFacts ==
  ASSUME NEW f \in Seq(Chunk)
  PROVE  /\ Torn(f) \in Seq(Chunk)
         /\ Len(Torn(f)) = Len(f)
         /\ \A i \in 1..Len(f) :
              /\ Torn(f)[i] \in Chunk
              /\ f[i].bytes = "whole" => Torn(f)[i] = f[i]
              /\ Torn(f)[i].bytes \in {"whole", "torn"}
<1>1. \A i \in 1..Len(f) : f[i] \in Chunk
  BY ElementOfSeq
<1>2. ASSUME NEW c \in Chunk
      PROVE  [c EXCEPT !.bytes = "torn"] \in Chunk /\ [c EXCEPT !.bytes = "torn"].bytes = "torn"
  BY DEF Chunk
<1>3. \A i \in 1..Len(f) :
        (IF f[i].bytes = "whole" THEN f[i] ELSE [f[i] EXCEPT !.bytes = "torn"]) \in Chunk
  BY <1>1, <1>2
<1>4. Torn(f) \in [1..Len(f) -> Chunk]
  BY <1>3 DEF Torn
<1>5. Len(f) \in Nat
  OBVIOUS
<1>6. Torn(f) \in Seq(Chunk) /\ Len(Torn(f)) = Len(f)
  BY <1>4, <1>5
<1>7. \A i \in 1..Len(f) : Torn(f)[i] \in Chunk
  BY <1>4
<1>8. \A i \in 1..Len(f) : /\ f[i].bytes = "whole" => Torn(f)[i] = f[i]
                           /\ Torn(f)[i].bytes \in {"whole", "torn"}
  BY <1>1, <1>2 DEF Torn
<1>9. QED  BY <1>6, <1>7, <1>8

-----------------------------------------------------------------------------
(* Type correctness, and the cursors against the disk, whatever fails. *)

\* What a crash leaves: at least the fsynced chunks, whole where they were.
LEMMA CrashFacts ==
  ASSUME TypeOK, synced <= Len(file), NEW g \in AfterCrash
  PROVE  /\ g \in Seq(Chunk)
         /\ synced <= Len(g) /\ Len(g) <= Len(file)
         /\ \A i \in 1..Len(g) : i <= synced \/ i < Len(g) => g[i] = Torn(file)[i]
         /\ \A i \in 1..Len(g) : /\ g[i].from = file[i].from
                                 /\ g[i].to = file[i].to
                                 /\ g[i].meta = file[i].meta
<1> DEFINE f == Torn(file)
<1>1. /\ file \in Seq(Chunk) /\ synced \in Nat
      /\ f \in Seq(Chunk) /\ Len(f) = Len(file)
      /\ \A i \in 1..Len(f) : f[i] \in Chunk
  BY TornFacts DEF TypeOK
<1>2. ASSUME NEW c \in Chunk
      PROVE  LET d == [c EXCEPT !.bytes = "torn"]
             IN  d \in Chunk /\ d.from = c.from /\ d.to = c.to /\ d.meta = c.meta
  BY DEF Chunk
<1>3. \A i \in 1..Len(file) : f[i].from = file[i].from /\ f[i].to = file[i].to /\ f[i].meta = file[i].meta
  <2>1. \A i \in 1..Len(file) : file[i] \in Chunk
    BY <1>1, ElementOfSeq
  <2>2. QED  BY <1>2, <2>1 DEF Torn
<1> HIDE DEF f
<1>4. CASE \E n \in synced..Len(f) : g = SubSeq(f, 1, n)
  <2>1. PICK n \in synced..Len(f) : g = SubSeq(f, 1, n)
    BY <1>4
  <2>2. n \in Nat /\ synced <= n /\ n <= Len(file)
    BY <1>1
  <2>3. /\ g \in Seq(Chunk) /\ Len(g) = n
        /\ \A i \in 1..n : g[i] = f[i]
    BY <1>1, <2>1, <2>2, SubSeqProperties
  <2>4. QED  BY <2>2, <2>3, <1>1, <1>3 DEF f
<1>5. CASE \E n \in synced..(Len(f) - 1) :
             g = SubSeq(f, 1, n) \o <<[f[n + 1] EXCEPT !.bytes = "torn"]>>
  <2>1. PICK n \in synced..(Len(f) - 1) :
          g = SubSeq(f, 1, n) \o <<[f[n + 1] EXCEPT !.bytes = "torn"]>>
    BY <1>5
  <2> DEFINE c == [f[n + 1] EXCEPT !.bytes = "torn"]
             h == SubSeq(f, 1, n)
  <2>2. n \in Nat /\ synced <= n /\ n + 1 <= Len(file) /\ n + 1 \in 1..Len(f)
    BY <1>1
  <2>3. c \in Chunk /\ c.from = f[n + 1].from /\ c.to = f[n + 1].to /\ c.meta = f[n + 1].meta
    BY <1>1, <1>2, <2>2
  <2>4. /\ h \in Seq(Chunk) /\ Len(h) = n
        /\ \A i \in 1..n : h[i] = f[i]
    BY <1>1, <2>2, SubSeqProperties
  <2> HIDE DEF c, h
  <2>5. g = h \o <<c>>
    BY <2>1 DEF c, h
  <2>6. /\ g \in Seq(Chunk) /\ Len(g) = n + 1
        /\ \A i \in 1..n : g[i] = f[i]
        /\ g[n + 1] = c
    BY <2>3, <2>4, <2>5, <2>2
  <2>7. QED  BY <2>2, <2>3, <2>6, <1>1, <1>3, SMTT(60) DEF f
<1>6. QED  BY <1>4, <1>5 DEF AfterCrash, f

Covered(k, n) ==
  \E i \in 1..Len(file) : i <= synced /\ file[i].bytes = "whole" /\ Holds(file[i], k, n)

\* The inductive strengthening of CursorsBehindDisk: while a seal runs, what it
\* has written so far is on the disk as well, and a segment waiting for its
\* fsync is the one that goes on from there.
DiskInv ==
  /\ synced <= Len(file)
  /\ \A k \in Kinds : sealed[k] <= held[k]
  /\ pc \in {"create", "header"} => ~writer /\ done = Nothing
  /\ ~writer => sealed = Nothing
  /\ pc \in {"seal", "sync"} => writer
  /\ Running /\ pc = "header" => Len(file) = 1 /\ synced = 0
  /\ pc # "idle" => \A k \in Kinds : done[k] <= held[k]
  /\ \A k \in Kinds : \A n \in 1..sealed[k] : Covered(k, n)
  /\ pc \in {"seal", "sync"} => \A k \in Kinds : \A n \in 1..done[k] : Covered(k, n)
  /\ Running /\ pc = "sync" =>
       /\ Len(file) > 0
       /\ file[Len(file)].bytes = "whole"
       /\ file[Len(file)].from = done
       /\ \A k \in Kinds : file[Len(file)].to[k] <= held[k]

LEMMA InitDisk == Init => TypeOK /\ DiskInv
<1> SUFFICES ASSUME Init PROVE TypeOK /\ DiskInv
  OBVIOUS
<1>1. held = Nothing /\ sealed = Nothing /\ file = << >> /\ synced = 0 /\ done = Nothing
  BY DEF Init
<1>2. << >> \in Seq(Chunk) /\ Len(<< >>) = 0
  OBVIOUS
<1>3. TypeOK
  <2>1. synced \in Nat /\ errors \in Nat
    BY DEF Init
  <2>2. file \in Seq(Chunk) /\ loaded \in Seq(Chunk)
    BY <1>2 DEF Init
  <2>3. held \in [Kinds -> Nat] /\ sealed \in [Kinds -> Nat] /\ done \in [Kinds -> Nat]
    BY <1>1, HeaderType
  <2>4. QED  BY <2>1, <2>2, <2>3, Zenon DEF Init, TypeOK
<1>4. \A k \in Kinds : sealed[k] = 0 /\ held[k] = 0
  BY <1>1 DEF Nothing
<1>5. synced <= Len(file)
  BY <1>1, <1>2
<1>6. \A k \in Kinds : sealed[k] <= held[k]
  BY <1>4
<1>7. \A k \in Kinds : \A n \in 1..sealed[k] : Covered(k, n)
  BY <1>4
<1>8. pc = "idle"
  BY DEF Init
<1>9. DiskInv
  BY <1>1, <1>5, <1>6, <1>7, <1>8 DEF DiskInv
<1>10. QED  BY <1>3, <1>9

\* Chunks keep covering what they cover when the file only gains at its end
\* and nothing whole is touched.
LEMMA CoveredKept ==
  ASSUME TypeOK, DiskInv, NEW k \in Kinds, NEW n, Covered(k, n),
         file' \in Seq(Chunk), synced' \in Nat, synced <= synced',
         \A i \in 1..Len(file) :
           i <= synced /\ file[i].bytes = "whole" => i <= Len(file') /\ file'[i] = file[i]
  PROVE  Covered(k, n)'
<1>1. PICK i \in 1..Len(file) : i <= synced /\ file[i].bytes = "whole" /\ Holds(file[i], k, n)
  BY DEF Covered
<1>2. i \in 1..Len(file') /\ i <= synced' /\ file'[i] = file[i]
  <2>1. i \in 1..Len(file) /\ i <= Len(file') /\ file'[i] = file[i]
    BY <1>1
  <2>2. Len(file') \in Nat
    BY LenProperties
  <2>3. synced \in Nat /\ Len(file) \in Nat
    BY LenProperties DEF TypeOK
  <2>4. i \in Nat
    BY <2>1, <2>3
  <2>5. QED  BY <2>1, <2>2, <2>3, <2>4, <1>1
<1>3. QED  BY <1>1, <1>2 DEF Covered, Holds

\* A good write adds one segment, a failed one adds a piece of it.
LEMMA WriteFacts ==
  ASSUME TypeOK, NEW seg \in Chunk, NEW f \in {file, Completed(file)}
  PROVE  /\ f \in Seq(Chunk) /\ Len(f) = Len(file)
         /\ Append(f, seg) \in Seq(Chunk)
         /\ Len(Append(f, seg)) = Len(file) + 1
         /\ Append(f, seg)[Len(file) + 1] = seg
         /\ \A i \in 1..Len(file) : Append(f, seg)[i] = f[i]
         /\ \A i \in 1..Len(file) : file[i].bytes = "whole" => f[i] = file[i]
<1>1. file \in Seq(Chunk)
  BY DEF TypeOK
<1>2. /\ f \in Seq(Chunk) /\ Len(f) = Len(file)
      /\ \A i \in 1..Len(file) : file[i].bytes = "whole" => f[i] = file[i]
  BY <1>1, CompletedFacts
<1>3. QED  BY <1>2, AppendProperties

LEMMA TornSegment ==
  ASSUME NEW seg \in Chunk, NEW b \in {"torn", "buffered"}
  PROVE  [seg EXCEPT !.bytes = b] \in Chunk
BY DEF Chunk

LEMMA ReadFacts ==
  ASSUME TypeOK, NEW n \in 1..Len(file)
  PROVE  /\ SubSeq(file, 2, n) \in Seq(Chunk)
         /\ Len(SubSeq(file, 2, n)) = n - 1
         /\ \A i \in 1..(n - 1) : SubSeq(file, 2, n)[i] = file[i + 1]
<1>1. file \in Seq(Chunk) /\ Len(file) \in Nat
  BY LenProperties DEF TypeOK
<1>2. n \in Nat /\ 1 <= n /\ n <= Len(file)
  BY <1>1
<1>3. \A i \in 2..n : file[i] \in Chunk
  BY <1>1, <1>2, ElementOfSeq
<1>4. QED  BY <1>1, <1>2, <1>3, SubSeqProperties

\* Every non-empty set of naturals has a least member.
LEMMA LeastMember ==
  ASSUME NEW T \in SUBSET Nat, T # {}
  PROVE  \E k \in T : \A j \in T : k <= j
<1> DEFINE Below == OpToRel(<, Nat)
<1>1. IsWellFoundedOn(Below, Nat)
  BY NatLessThanWellFounded
<1>2. \E k \in T : \A j \in T : ~(<<j, k>> \in Below)
  <2> HIDE DEF Below
  <2>1. QED  BY <1>1, WFMin
<1>3. PICK k \in T : \A j \in T : ~(<<j, k>> \in Below)
  BY <1>2
<1>4. \A j \in T : ~(j < k)
  BY <1>3 DEF OpToRel
<1>5. QED  BY <1>4

\* The reader's whole prefix exists: it ends before the first chunk that is
\* not whole.
LEMMA WholeChunksFact ==
  ASSUME TypeOK
  PROVE  /\ WholeChunks \in 0..Len(file)
         /\ \A i \in 1..WholeChunks : file[i].bytes = "whole"
         /\ WholeChunks < Len(file) => file[WholeChunks + 1].bytes # "whole"
<1> DEFINE T == {i \in 0..Len(file) : i < Len(file) => file[i + 1].bytes # "whole"}
<1>1. Len(file) \in Nat
  BY LenProperties DEF TypeOK
<1>2. T \in SUBSET Nat /\ T # {}
  BY <1>1
<1>3. PICK n \in T : \A j \in T : n <= j
  <2> HIDE DEF T
  <2>1. QED  BY <1>2, LeastMember
<1>4. n \in 0..Len(file) /\ n \in Nat
  BY <1>1
<1>5. ASSUME NEW i \in 1..n  PROVE file[i].bytes = "whole"
  <2>1. i - 1 \in 0..Len(file) /\ i - 1 < n /\ i - 1 < Len(file) /\ (i - 1) + 1 = i
    BY <1>1, <1>4
  <2>2. i - 1 \notin T
    <3>1. ~(n <= i - 1)
      BY <2>1, <1>4
    <3> HIDE DEF T
    <3>2. QED  BY <3>1, <1>3
  <2>3. QED  BY <2>1, <2>2
<1>6. n < Len(file) => file[n + 1].bytes # "whole"
  OBVIOUS
<1>7. \E m \in 0..Len(file) : /\ \A i \in 1..m : file[i].bytes = "whole"
                              /\ m < Len(file) => file[m + 1].bytes # "whole"
  BY <1>4, <1>5, <1>6
<1>8. QED  BY <1>7 DEF WholeChunks

\* Every step keeps the types.
LEMMA TypeStep == TypeOK /\ DiskInv /\ [Next]_vars => TypeOK'
<1> SUFFICES ASSUME TypeOK, DiskInv, [Next]_vars PROVE TypeOK'
  OBVIOUS
<1> USE DEF session, seal, disk, reader
<1>1. ASSUME NEW k \in Kinds, Ingest(k) PROVE TypeOK'
  <2>1. held \in [Kinds -> Nat] /\ held' = [held EXCEPT ![k] = @ + 1]
    BY <1>1, Zenon DEF TypeOK, Ingest
  <2>2. held' \in [Kinds -> Nat]
    BY <2>1
  <2>3. QED  BY <1>1, <2>2, Zenon DEF TypeOK, Ingest
<1>2. CASE Stop
  BY <1>2 DEF TypeOK, Stop
<1>3. CASE BeginSeal
  BY <1>3, Zenon DEF TypeOK, BeginSeal
<1>4. CASE CreateFile
  <2>1. <<Header>> \in Seq(Chunk) /\ 0 \in Nat
    BY HeaderType
  <2>2. QED  BY <1>4, <2>1, Zenon DEF TypeOK, CreateFile
<1>5. CASE SyncHeader
  <2>1. 1 \in Nat
    OBVIOUS
  <2>2. QED  BY <1>5, <2>1, Zenon DEF TypeOK, SyncHeader
<1>6. CASE WriteSegment
  <2>1. PICK seg \in SegmentsNext : file' = Append(Completed(file), seg)
    BY <1>6 DEF WriteSegment
  <2>2. seg \in Chunk
    BY <1>6, SegmentsNextFacts DEF WriteSegment, DiskInv
  <2>3. file' \in Seq(Chunk)
    BY <2>1, <2>2, WriteFacts
  <2>4. QED  BY <1>6, <2>3, Zenon DEF TypeOK, WriteSegment
<1>7. CASE SyncSegment
  <2>1. Len(file) \in 1..Len(file)
    <3>1. Len(file) > 0
      BY <1>7, Zenon DEF SyncSegment, DiskInv
    <3>2. QED  BY <3>1, Numbers
  <2>2. file[Len(file)] \in Chunk
    BY <2>1, ElementOfSeq DEF TypeOK
  <2>3. file[Len(file)].to \in [Kinds -> Nat] /\ Len(file) \in Nat
    BY <2>2, LenProperties DEF Chunk, TypeOK
  <2>4. QED  BY <1>7, <2>3, Zenon DEF TypeOK, SyncSegment
<1>8. CASE EndSeal
  BY <1>8, Zenon DEF TypeOK, EndSeal
<1>9. CASE FailCreate
  <2>1. errors' \in Nat
    BY <1>9, OneMoreError, Zenon DEF FailCreate
  <2>2. QED  BY <1>9, <2>1, Zenon DEF TypeOK, FailCreate, GiveUp
<1>10. CASE IgnoreHeaderError
  <2>1. errors' \in Nat
    BY <1>10, OneMoreError, Zenon DEF IgnoreHeaderError
  <2>2. PICK b \in {"whole", "buffered"} : file' = <<[Header EXCEPT !.bytes = b]>>
    BY <1>10 DEF IgnoreHeaderError
  <2>3. [Header EXCEPT !.bytes = b] \in Chunk
    BY HeaderType DEF Chunk
  <2>4. file' \in Seq(Chunk)
    BY <2>2, <2>3
  <2>5. QED  BY <1>10, <2>1, <2>4, Zenon DEF TypeOK, IgnoreHeaderError
<1>11. CASE FailWrite
  <2>1. errors' \in Nat
    BY <1>11, OneMoreError, Zenon DEF FailWrite
  <2>2. PICK seg \in SegmentsNext, f \in {file, Completed(file)}, b \in {"torn", "buffered"} :
          file' = Append(f, [seg EXCEPT !.bytes = b])
    BY <1>11 DEF FailWrite
  <2>3. [seg EXCEPT !.bytes = b] \in Chunk
    BY <1>11, SegmentsNextFacts, TornSegment DEF FailWrite, DiskInv
  <2>4. file' \in Seq(Chunk)
    BY <2>2, <2>3, WriteFacts
  <2>5. QED  BY <1>11, <2>1, <2>4, Zenon DEF TypeOK, FailWrite, GiveUp
<1>12. CASE FailSync
  <2>1. errors' \in Nat
    BY <1>12, OneMoreError, Zenon DEF FailSync
  <2>2. QED  BY <1>12, <2>1, Zenon DEF TypeOK, FailSync, GiveUp
<1>13. CASE GoDown
  <2>1. file' \in Seq(Chunk)
    BY <1>13, CrashFacts DEF GoDown, DiskInv
  <2>2. QED  BY <1>13, <2>1, Zenon DEF TypeOK, GoDown
<1>14. CASE Load
  <2>1. loaded' \in Seq(Chunk) /\ outcome' \in {"unreadable", "read"}
    <3>1. CASE WholeChunks > 0 /\ loaded' = SubSeq(file, 2, WholeChunks) /\ outcome' = "read"
      <4>1. WholeChunks \in 1..Len(file)
        <5>1. WholeChunks \in 0..Len(file) /\ WholeChunks > 0 /\ Len(file) \in Nat
          BY <3>1, WholeChunksFact, Numbers
        <5>2. QED  BY <5>1
      <4>2. QED  BY <3>1, <4>1, ReadFacts
    <3>2. CASE UNCHANGED loaded /\ outcome' = "unreadable"
      BY <3>2 DEF TypeOK
    <3>3. QED  BY <1>14, <3>1, <3>2 DEF Load, ReadFile
  <2>2. QED  BY <1>14, <2>1, Zenon DEF TypeOK, Load
<1>15. CASE UNCHANGED vars
  BY <1>15, Zenon DEF TypeOK, vars
<1>16. QED
  BY <1>1, <1>2, <1>3, <1>4, <1>5, <1>6, <1>7, <1>8, <1>9, <1>10, <1>11, <1>12, <1>13,
     <1>14, <1>15, Zenon DEF Next, InSeal, Failure

\* What was covered stays covered: every step keeps the whole chunks an fsync
\* covered where they are, but for CreateFile, which finds nothing sealed.
KeepsSynced ==
  /\ synced <= synced'
  /\ \A i \in 1..Len(file) :
       i <= synced /\ file[i].bytes = "whole" => i <= Len(file') /\ file'[i] = file[i]

LEMMA AllCoveredKept ==
  ASSUME TypeOK, TypeOK', DiskInv, KeepsSynced
  PROVE  \A k \in Kinds : \A n : Covered(k, n) => Covered(k, n)'
<1>1. file' \in Seq(Chunk) /\ synced' \in Nat
  BY Zenon DEF TypeOK
<1>2. QED  BY <1>1, CoveredKept DEF KeepsSynced

LEMMA SameFileKeeps ==
  ASSUME TypeOK, UNCHANGED <<file, synced>>
  PROVE  KeepsSynced
<1>1. synced \in Nat /\ Len(file) \in Nat
  BY Numbers
<1>2. QED  BY <1>1 DEF KeepsSynced

LEMMA AppendKeeps ==
  ASSUME TypeOK, NEW seg \in Chunk, NEW f \in {file, Completed(file)},
         file' = Append(f, seg), UNCHANGED synced
  PROVE  KeepsSynced /\ Len(file') = Len(file) + 1 /\ file'[Len(file')] = seg
<1>1. synced \in Nat /\ Len(file) \in Nat
  BY Numbers
<1>2. /\ Len(file') = Len(file) + 1
      /\ file'[Len(file) + 1] = seg
      /\ \A i \in 1..Len(file) : file[i].bytes = "whole" => file'[i] = file[i]
  BY WriteFacts
<1>3. QED  BY <1>1, <1>2 DEF KeepsSynced

\* Every step keeps the cursors behind the disk.
LEMMA DiskStep == TypeOK /\ TypeOK' /\ DiskInv /\ [Next]_vars => DiskInv'
<1> SUFFICES ASSUME TypeOK, TypeOK', DiskInv, [Next]_vars PROVE DiskInv'
  OBVIOUS
<1> USE DEF session, seal, disk, reader
<1>a. ASSUME KeepsSynced, sealed' = sealed
      PROVE  \A k \in Kinds : \A n \in 1..sealed'[k] : Covered(k, n)'
  <2>1. \A k \in Kinds : \A n \in 1..sealed[k] : Covered(k, n)
    BY DEF DiskInv
  <2>2. QED  BY <1>a, <2>1, AllCoveredKept
<1>b. ASSUME KeepsSynced, done' = done, pc \in {"seal", "sync"}
      PROVE  \A k \in Kinds : \A n \in 1..done'[k] : Covered(k, n)'
  <2>1. \A k \in Kinds : \A n \in 1..done[k] : Covered(k, n)
    BY <1>b DEF DiskInv
  <2>2. QED  BY <1>b, <2>1, AllCoveredKept
\* A step that neither touches the disk nor the cursors nor the seal.
<1>c. ASSUME UNCHANGED <<sealed, writer, file, synced, done>>,
             \A k \in Kinds : sealed'[k] <= held'[k],
             pc' # "idle" => pc' = pc /\ held' = held,
             Running' => Running \/ pc' = "idle"
      PROVE  DiskInv'
  <2>1. KeepsSynced
    BY <1>c, SameFileKeeps
  <2>2. \A k \in Kinds : \A n \in 1..sealed'[k] : Covered(k, n)'
    BY <1>a, <1>c, <2>1
  <2>3. pc' \in {"seal", "sync"} => \A k \in Kinds : \A n \in 1..done'[k] : Covered(k, n)'
    BY <1>b, <1>c, <2>1
  <2>4. QED  BY <1>c, <2>2, <2>3 DEF DiskInv
<1>1. ASSUME NEW k \in Kinds, Ingest(k) PROVE DiskInv'
  <2>1. held' = [held EXCEPT ![k] = @ + 1] /\ held \in [Kinds -> Nat] /\ sealed' = sealed
    BY <1>1, Zenon DEF Ingest, TypeOK
  <2>2. \A j \in Kinds : sealed[j] <= held[j] /\ sealed[j] \in Nat /\ held[j] \in Nat
    BY Numbers DEF DiskInv
  <2>3. \A j \in Kinds : sealed'[j] <= held'[j]
    BY <2>1, <2>2
  <2>4. QED  BY <1>1, <2>3, <1>c, Zenon DEF Ingest, Running
<1>2. CASE Stop
  <2>1. \A j \in Kinds : sealed'[j] <= held'[j]
    BY <1>2, Zenon DEF Stop, DiskInv
  <2>2. QED  BY <1>2, <2>1, <1>c, Zenon DEF Stop, Running
<1>3. CASE BeginSeal
  <2>1. KeepsSynced
    BY <1>3, SameFileKeeps DEF BeginSeal
  <2>2. UNCHANGED <<sealed, writer, file, synced, held>> /\ done' = sealed
    BY <1>3, Zenon DEF BeginSeal
  <2>3. \A k \in Kinds : \A n \in 1..sealed'[k] : Covered(k, n)'
    BY <1>a, <2>1, <2>2
  <2>4. pc' \in {"create", "seal"} /\ (pc' = "create" => ~writer) /\ (pc' = "seal" => writer)
    BY <1>3, Zenon DEF BeginSeal
  <2>5. QED  BY <2>2, <2>3, <2>4 DEF DiskInv
<1>4. CASE CreateFile
  <2>1. /\ UNCHANGED <<sealed, writer, held, done>>
        /\ file' = <<Header>> /\ synced' = 0 /\ pc' = "header" /\ pc = "create"
    BY <1>4, Zenon DEF CreateFile
  <2>2. \A k \in Kinds : sealed[k] = 0
    BY <2>1 DEF DiskInv, Nothing
  <2>3. synced' <= Len(file')
    BY <2>1
  <2>4. \A k \in Kinds : \A n \in 1..sealed'[k] : Covered(k, n)'
    BY <2>1, <2>2
  <2>5. QED  BY <2>1, <2>3, <2>4 DEF DiskInv
<1>5. CASE SyncHeader
  <2>1. UNCHANGED <<sealed, held, done, file>> /\ pc' = "seal" /\ synced' = 1 /\ pc = "header"
    BY <1>5, Zenon DEF SyncHeader
  <2>2. Len(file) = 1 /\ synced = 0 /\ sealed = Nothing /\ done = Nothing
    BY <1>5, <2>1, Zenon DEF SyncHeader, DiskInv
  <2>3. \A k \in Kinds : \A n \in 1..Nothing[k] : Covered(k, n)'
    BY DEF Nothing
  <2>4. \A k \in Kinds : sealed[k] <= held[k] /\ done[k] <= held[k]
    BY <2>1 DEF DiskInv
  <2>5. synced' <= Len(file') /\ pc' = "seal" /\ writer'
    BY <1>5, <2>1, <2>2 DEF SyncHeader
  <2>6. QED  BY <2>1, <2>2, <2>3, <2>4, <2>5 DEF DiskInv
<1>6. CASE WriteSegment
  <2>1. /\ UNCHANGED <<sealed, writer, held, done, synced>>
        /\ pc' = "sync" /\ pc = "seal" /\ Running
    BY <1>6, Zenon DEF WriteSegment
  <2>2. PICK seg \in SegmentsNext : file' = Append(Completed(file), seg)
    BY <1>6 DEF WriteSegment
  <2>3. \A k \in Kinds : sealed[k] <= held[k] /\ done[k] <= held[k]
    BY <2>1 DEF DiskInv
  <2>4. seg \in Chunk /\ seg.from = done /\ seg.bytes = "whole" /\ \A k \in Kinds : seg.to[k] <= held[k]
    BY <2>3, SegmentsNextFacts
  <2>5. KeepsSynced /\ Len(file') = Len(file) + 1 /\ file'[Len(file')] = seg
    BY <2>1, <2>2, <2>4, AppendKeeps
  <2>6. Len(file') > 0 /\ synced' <= Len(file')
    <3>1. synced \in Nat /\ Len(file) \in Nat /\ synced <= Len(file)
      BY Numbers DEF DiskInv
    <3>2. QED  BY <2>1, <2>5, <3>1
  <2>7. \A k \in Kinds : \A n \in 1..sealed'[k] : Covered(k, n)'
    BY <1>a, <2>1, <2>5
  <2>8. \A k \in Kinds : \A n \in 1..done'[k] : Covered(k, n)'
    BY <1>b, <2>1, <2>5
  <2>9. ~writer' => sealed' = Nothing
    BY <2>1, Zenon DEF DiskInv
  <2>10. QED  BY <2>1, <2>3, <2>4, <2>5, <2>6, <2>7, <2>8, <2>9 DEF DiskInv
<1>7. CASE SyncSegment
  <2>1. /\ UNCHANGED <<sealed, writer, held, file>>
        /\ pc' = "seal" /\ pc = "sync" /\ Running
        /\ synced' = Len(file) /\ done' = file[Len(file)].to
    BY <1>7, Zenon DEF SyncSegment
  <2> DEFINE last == file[Len(file)]
  <2>2. /\ Len(file) > 0 /\ last.bytes = "whole" /\ last.from = done
        /\ \A k \in Kinds : last.to[k] <= held[k]
        /\ synced <= Len(file)
    BY <2>1, Zenon DEF DiskInv
  <2>3. synced \in Nat /\ Len(file) \in Nat /\ Len(file) \in 1..Len(file)
    BY <2>2, Numbers
  <2>4. KeepsSynced
    BY <2>1, <2>2, <2>3 DEF KeepsSynced
  <2>5. \A k \in Kinds : \A n \in 1..sealed'[k] : Covered(k, n)'
    BY <1>a, <2>1, <2>4
  <2>6. ASSUME NEW k \in Kinds, NEW n \in 1..done'[k] PROVE Covered(k, n)'
    <3>1. done[k] \in Nat /\ last.to \in [Kinds -> Nat]
      BY <2>3, Numbers
    <3>2. last.to[k] \in Nat /\ n \in Nat /\ 1 <= n /\ n <= last.to[k]
      BY <3>1, <2>1
    <3>3. CASE n <= done[k]
      <4>1. Covered(k, n)
        BY <2>1, <3>1, <3>2, <3>3 DEF DiskInv
      <4>2. QED  BY <4>1, <2>4, AllCoveredKept
    <3>4. CASE ~(n <= done[k])
      <4>1. Holds(last, k, n)
        BY <2>2, <3>1, <3>2, <3>4 DEF Holds
      <4>2. QED  BY <4>1, <2>1, <2>2, <2>3 DEF Covered, Holds
    <3>5. QED  BY <3>3, <3>4
  <2>7. \A k \in Kinds : sealed'[k] <= held'[k] /\ done'[k] <= held'[k]
    BY <2>1, <2>2 DEF DiskInv
  <2>8. synced' <= Len(file')
    BY <2>1, <2>3
  <2>9. ~writer' => sealed' = Nothing
    BY <2>1, Zenon DEF DiskInv
  <2>10. QED  BY <2>1, <2>5, <2>6, <2>7, <2>8, <2>9 DEF DiskInv
<1>8. CASE EndSeal
  <2>1. /\ UNCHANGED <<writer, held, file, synced, done>>
        /\ pc' = "idle" /\ pc = "seal" /\ sealed' = held /\ done = held
    BY <1>8, Zenon DEF EndSeal, MoreToSeal
  <2>2. KeepsSynced
    BY <2>1, SameFileKeeps
  <2>3. \A k \in Kinds : \A n \in 1..done[k] : Covered(k, n)'
    BY <1>b, <2>1, <2>2
  <2>4. \A k \in Kinds : held[k] <= held[k]
    BY Numbers
  <2>5. writer'
    BY <2>1, Zenon DEF DiskInv
  <2>6. QED  BY <2>1, <2>3, <2>4, <2>5 DEF DiskInv
<1>9. CASE FailCreate
  <2>1. \A j \in Kinds : sealed'[j] <= held'[j]
    BY <1>9, Zenon DEF FailCreate, GiveUp, DiskInv
  <2>2. QED  BY <1>9, <2>1, <1>c, Zenon DEF FailCreate, GiveUp
<1>10. CASE IgnoreHeaderError
  <2>1. /\ UNCHANGED <<sealed, held, done, synced>>
        /\ pc' = "seal" /\ pc = "header" /\ Running /\ writer' = TRUE
    BY <1>10, Zenon DEF IgnoreHeaderError
  <2>2. PICK b \in {"whole", "buffered"} : file' = <<[Header EXCEPT !.bytes = b]>>
    BY <1>10 DEF IgnoreHeaderError
  <2>3. Len(file) = 1 /\ synced = 0 /\ sealed = Nothing /\ done = Nothing
    BY <2>1, Zenon DEF DiskInv
  <2>4. \A k \in Kinds : \A n \in 1..Nothing[k] : Covered(k, n)'
    BY DEF Nothing
  <2>5. \A k \in Kinds : sealed[k] <= held[k] /\ done[k] <= held[k]
    BY <2>1 DEF DiskInv
  <2>6. synced' <= Len(file')
    BY <2>1, <2>2, <2>3
  <2>7. QED  BY <2>1, <2>3, <2>4, <2>5, <2>6 DEF DiskInv
<1>11. CASE FailWrite
  <2>1. /\ UNCHANGED <<sealed, writer, held, done, synced>>
        /\ pc' = "idle" /\ pc = "seal" /\ Running
    BY <1>11, Zenon DEF FailWrite, GiveUp
  <2>2. PICK seg \in SegmentsNext, f \in {file, Completed(file)}, b \in {"torn", "buffered"} :
          file' = Append(f, [seg EXCEPT !.bytes = b])
    BY <1>11 DEF FailWrite
  <2>3. \A k \in Kinds : sealed[k] <= held[k] /\ done[k] <= held[k]
    BY <2>1 DEF DiskInv
  <2>4. [seg EXCEPT !.bytes = b] \in Chunk
    BY <2>3, SegmentsNextFacts, TornSegment
  <2>5. KeepsSynced /\ Len(file') = Len(file) + 1
    BY <2>1, <2>2, <2>4, AppendKeeps
  <2>6. synced' <= Len(file')
    <3>1. synced \in Nat /\ Len(file) \in Nat /\ synced <= Len(file)
      BY Numbers DEF DiskInv
    <3>2. QED  BY <2>1, <2>5, <3>1
  <2>7. \A k \in Kinds : \A n \in 1..sealed'[k] : Covered(k, n)'
    BY <1>a, <2>1, <2>5
  <2>8. ~writer' => sealed' = Nothing
    BY <2>1, Zenon DEF DiskInv
  <2>9. QED  BY <2>1, <2>3, <2>6, <2>7, <2>8 DEF DiskInv
<1>12. CASE FailSync
  <2>1. \A j \in Kinds : sealed'[j] <= held'[j]
    BY <1>12, Zenon DEF FailSync, GiveUp, DiskInv
  <2>2. QED  BY <1>12, <2>1, <1>c, Zenon DEF FailSync, GiveUp
<1>13. CASE GoDown
  <2>1. /\ UNCHANGED <<sealed, writer, held, done, synced, pc>>
        /\ phase' = "down" /\ file' \in AfterCrash
    BY <1>13, Zenon DEF GoDown
  <2>2. ~Running'
    BY <2>1 DEF Running
  <2>3. synced <= Len(file)
    BY DEF DiskInv
  <2>4. /\ synced <= Len(file') /\ Len(file') \in Nat /\ Len(file') <= Len(file)
        /\ \A i \in 1..Len(file') : i <= synced => file'[i] = Torn(file)[i]
    BY <2>1, <2>3, CrashFacts, LenProperties
  <2>5. KeepsSynced
    <3>1. synced \in Nat /\ Len(file) \in Nat /\ file \in Seq(Chunk)
      BY Numbers
    <3>2. ASSUME NEW i \in 1..Len(file), i <= synced, file[i].bytes = "whole"
          PROVE  i <= Len(file') /\ file'[i] = file[i]
      <4>1. i <= Len(file') /\ i \in 1..Len(file')
        BY <3>1, <3>2, <2>4
      <4>2. Torn(file)[i] = file[i]
        BY <3>1, <3>2, TornFacts
      <4>3. QED  BY <4>1, <4>2, <3>2, <2>4
    <3>3. QED  BY <3>1, <3>2, <2>1 DEF KeepsSynced
  <2>6. \A k \in Kinds : \A n \in 1..sealed'[k] : Covered(k, n)'
    BY <1>a, <2>1, <2>5
  <2>7. pc' \in {"seal", "sync"} => \A k \in Kinds : \A n \in 1..done'[k] : Covered(k, n)'
    BY <1>b, <2>1, <2>5
  <2>8. QED  BY <2>1, <2>2, <2>4, <2>6, <2>7 DEF DiskInv
<1>14. CASE Load
  <2>1. \A j \in Kinds : sealed'[j] <= held'[j]
    BY <1>14, Zenon DEF Load, DiskInv
  <2>2. QED  BY <1>14, <2>1, <1>c, Zenon DEF Load, Running
<1>15. CASE UNCHANGED vars
  <2>1. \A j \in Kinds : sealed'[j] <= held'[j]
    BY <1>15, Zenon DEF vars, DiskInv
  <2>2. QED  BY <1>15, <2>1, <1>c, Zenon DEF vars, Running
<1>16. QED
  BY <1>1, <1>2, <1>3, <1>4, <1>5, <1>6, <1>7, <1>8, <1>9, <1>10, <1>11, <1>12, <1>13,
     <1>14, <1>15, Zenon DEF Next, InSeal, Failure

THEOREM DiskInvariance == Spec => [](TypeOK /\ DiskInv)
<1>1. Init => TypeOK /\ DiskInv
  BY InitDisk
<1>2. TypeOK /\ DiskInv /\ [Next]_vars => (TypeOK /\ DiskInv)'
  BY TypeStep, DiskStep
<1>3. QED  BY <1>1, <1>2, PTL DEF Spec

\* Every reachable state is well typed, for any session and any number of
\* I/O errors.
THEOREM TypeCorrect == Spec => []TypeOK
BY DiskInvariance, PTL

\* The sealing cursors (rec_rows, rec_gc) count only entries that are in a
\* whole, fsynced segment of the file: no failed write, failed fsync or crash,
\* however many, lets a later delta start past an entry that is not there.
THEOREM CursorsAreSafe == Spec => []CursorsBehindDisk
<1>1. DiskInv => CursorsBehindDisk
  BY DEF DiskInv, CursorsBehindDisk, Covered
<1>2. QED  BY <1>1, DiskInvariance, PTL

-----------------------------------------------------------------------------
(* Reading back, when no I/O error happens. *)

\* The chunks of f follow each other, none goes back, one carries the meta.
Linked(f) ==
  /\ Len(f) > 0 => f[1].to = Nothing
  /\ \A i \in 2..Len(f) : f[i].from = f[i - 1].to
  /\ \A i, j \in 1..Len(f) : i <= j => \A k \in Kinds : f[i].to[k] <= f[j].to[k]
  /\ \A i \in 1..Len(f) : f[i].meta <=> i = 2
  /\ \A i \in 1..Len(f) : \A k \in Kinds : f[i].to[k] <= held[k]

\* Only a crash tears a chunk, and only the last one.
TornAtEnd == \A i \in 1..Len(file) : i < Len(file) \/ phase # "down" => file[i].bytes = "whole"

\* Where each point of a seal stands with respect to the file.
SealInStep ==
  /\ pc = "idle" =>
       /\ writer <=> metaDone
       /\ ~writer => file = << >>
       /\ writer => Len(file) >= 2 /\ synced = Len(file) /\ file[Len(file)].to = sealed
  /\ pc \in {"create", "header"} => ~metaDone /\ ~wroteFirst
  /\ pc = "header" => file = <<Header>>
  /\ pc = "seal" =>
       /\ Len(file) >= 1 /\ synced = Len(file) /\ file[Len(file)].to = done
       /\ (metaDone \/ wroteFirst) <=> Len(file) >= 2
  /\ pc = "sync" =>
       /\ Len(file) >= 2
       /\ (metaDone \/ wroteFirst) <=> Len(file) >= 3

ReadInv ==
  outcome # "not read" =>
    /\ phase \in {"closed", "down"}
    /\ ReadBackExact /\ CleanExitKeepsAll /\ MetaInFirst

CleanInv ==
  /\ phase # "failed"
  /\ Linked(file)
  /\ TornAtEnd
  /\ Running => SealInStep
  /\ metaDone => writer /\ synced >= 2
  /\ phase = "closed" => Len(file) >= 2 /\ file[Len(file)].to = held
  /\ ReadInv

LEMMA LinkedHeader ==
  ASSUME TypeOK PROVE Linked(<<Header>>)
<1>1. \A k \in Kinds : Nothing[k] = 0 /\ held[k] \in Nat
  BY Numbers DEF Nothing
<1>2. Header.to = Nothing /\ Header.meta = FALSE
  BY DEF Header
<1>3. Len(<<Header>>) = 1 /\ <<Header>>[1] = Header
  OBVIOUS
<1>4. \A i, j \in 1..1 : i <= j => \A k \in Kinds : <<Header>>[i].to[k] <= <<Header>>[j].to[k]
  BY <1>1, <1>2, <1>3
<1>5. \A i \in 1..1 : ~<<Header>>[i].meta /\ i # 2
  BY <1>2, <1>3
<1>6. \A i \in 1..1 : \A k \in Kinds : <<Header>>[i].to[k] <= held[k]
  BY <1>1, <1>2, <1>3
<1>7. \A i \in 2..1 : FALSE
  OBVIOUS
<1>8. QED  BY <1>2, <1>3, <1>4, <1>5, <1>6, <1>7 DEF Linked

LEMMA InitClean == Init => CleanInv
<1> SUFFICES ASSUME Init PROVE CleanInv
  OBVIOUS
<1>1. file = << >> /\ Len(<< >>) = 0
  BY DEF Init
<1>2. Linked(file)
  BY <1>1 DEF Linked
<1>3. TornAtEnd
  BY <1>1 DEF TornAtEnd
<1>4. SealInStep
  BY <1>1, Zenon DEF Init, SealInStep
<1>5. phase = "recording" /\ outcome = "not read" /\ ~metaDone
  BY Zenon DEF Init
<1>6. QED  BY <1>2, <1>3, <1>4, <1>5, Zenon DEF CleanInv, ReadInv

\* Linking one more segment at the end of a linked file.
LEMMA LinkOneMore ==
  ASSUME TypeOK, Linked(file), Len(file) >= 1, NEW seg \in Chunk, NEW g \in Seq(Chunk),
         Len(g) = Len(file) + 1,
         \A i \in 1..Len(file) : g[i] = file[i],
         g[Len(file) + 1] = seg,
         seg.from = file[Len(file)].to,
         \A k \in Kinds : file[Len(file)].to[k] <= seg.to[k] /\ seg.to[k] <= held[k],
         seg.meta <=> Len(file) = 1
  PROVE  Linked(g)
<1> DEFINE N == Len(file)
<1>1. N \in Nat /\ N >= 1 /\ N \in 1..N
  BY Numbers
<1>2. seg.to \in [Kinds -> Nat]
  BY DEF Chunk
<1>3. \A i \in 1..N : file[i].to \in [Kinds -> Nat]
  BY Numbers
<1>4. g[1].to = Nothing
  BY <1>1 DEF Linked
<1>5. ASSUME NEW i \in 2..(N + 1) PROVE g[i].from = g[i - 1].to
  <2>1. CASE i = N + 1
    <3>1. g[i] = seg /\ g[i - 1] = file[N]
      BY <2>1, <1>1
    <3>2. QED  BY <3>1
  <2>2. CASE i # N + 1
    <3>1. i \in 2..N /\ i \in 1..N /\ i - 1 \in 1..N
      BY <2>2, <1>1
    <3>2. QED  BY <3>1 DEF Linked
  <2>3. QED  BY <2>1, <2>2
<1>6. ASSUME NEW i \in 1..(N + 1), NEW j \in 1..(N + 1), i <= j, NEW k \in Kinds
      PROVE  g[i].to[k] <= g[j].to[k]
  <2>1. CASE j # N + 1
    <3>1. i \in 1..N /\ j \in 1..N
      BY <2>1, <1>1, <1>6
    <3>2. QED  BY <3>1, <1>6 DEF Linked
  <2>2. CASE j = N + 1 /\ i = N + 1
    <3>1. seg.to[k] \in Nat
      BY <1>2
    <3>2. QED  BY <2>2, <3>1
  <2>3. CASE j = N + 1 /\ i # N + 1
    <3>1. i \in 1..N /\ i <= N
      BY <2>3, <1>1
    <3>2. file[i].to[k] <= file[N].to[k] /\ file[N].to[k] <= seg.to[k]
      BY <3>1, <1>1 DEF Linked
    <3>3. file[i].to[k] \in Nat /\ file[N].to[k] \in Nat /\ seg.to[k] \in Nat
      BY <3>1, <1>1, <1>2, <1>3
    <3>4. QED  BY <3>1, <3>2, <3>3, <2>3
  <2>4. QED  BY <2>1, <2>2, <2>3
<1>7. ASSUME NEW i \in 1..(N + 1) PROVE g[i].meta <=> i = 2
  <2>1. CASE i = N + 1
    <3>1. g[i] = seg
      BY <2>1
    <3>2. ASSUME NEW m \in Nat PROVE m + 1 = 2 <=> m = 1
      OBVIOUS
    <3>3. QED  BY <1>1, <2>1, <3>1, <3>2, Zenon
  <2>2. CASE i # N + 1
    <3>1. i \in 1..N
      BY <2>2, <1>1
    <3>2. QED  BY <3>1, Zenon DEF Linked
  <2>3. QED  BY <2>1, <2>2
<1>8. ASSUME NEW i \in 1..(N + 1), NEW k \in Kinds PROVE g[i].to[k] <= held[k]
  <2>1. CASE i = N + 1
    BY <2>1
  <2>2. CASE i # N + 1
    <3>1. i \in 1..N
      BY <2>2, <1>1
    <3>2. QED  BY <3>1 DEF Linked
  <2>3. QED  BY <2>1, <2>2
<1>9. QED  BY <1>4, <1>5, <1>6, <1>7, <1>8, Zenon DEF Linked

\* Steps that leave the file and what was read alone.
LEMMA FileKept ==
  ASSUME TypeOK, CleanInv, file' = file, \A k \in Kinds : held[k] <= held'[k], held' \in [Kinds -> Nat]
  PROVE  Linked(file)'
<1>1. Linked(file)
  BY Zenon DEF CleanInv
<1>2. \A i \in 1..Len(file) : \A k \in Kinds : file[i].to[k] \in Nat /\ held[k] \in Nat /\ held'[k] \in Nat
  BY Numbers
<1>3. \A i \in 1..Len(file) : \A k \in Kinds : file[i].to[k] <= held'[k]
  BY <1>1, <1>2 DEF Linked
<1>4. QED  BY <1>1, <1>3, Zenon DEF Linked

\* The reading itself: what Load finds in a file that only a crash has torn.
LEMMA LoadClean ==
  ASSUME TypeOK, DiskInv, CleanInv, Load
  PROVE  /\ ReadInv'
         /\ outcome' = "unreadable" \/ \E i \in 1..Len(file) : LastOf(loaded)' = file[i].to
<1> USE DEF session, seal, disk, reader
<1> DEFINE n == WholeChunks
<1>1. /\ UNCHANGED <<held, sealed, writer, metaDone, file, synced, phase>>
      /\ phase \in {"closed", "down"}
  BY Zenon DEF Load
<1>2. /\ n \in 0..Len(file)
      /\ \A i \in 1..n : file[i].bytes = "whole"
      /\ n < Len(file) => file[n + 1].bytes # "whole"
  BY WholeChunksFact
<1> HIDE DEF n
<1>3. Len(file) \in Nat /\ n \in Nat /\ n <= Len(file) /\ synced \in Nat /\ synced <= Len(file)
  BY <1>2, Numbers DEF DiskInv
<1>4. TornAtEnd /\ Linked(file)
  BY Zenon DEF CleanInv
<1>5. n + 1 >= Len(file) /\ (phase # "down" => n = Len(file))
  <2>1. n < Len(file) => n + 1 \in 1..Len(file)
    BY <1>3
  <2>2. n < Len(file) => ~(n + 1 < Len(file)) /\ phase = "down"
    BY <2>1, <1>2, <1>4 DEF TornAtEnd
  <2>3. QED  BY <2>2, <1>3
<1>6. CASE outcome' = "unreadable"
  <2>1. n = 0 \/ n + 1 < Len(file)
    BY <1>6 DEF Load, ReadFile, n
  <2>2. Len(file) <= 1
    BY <2>1, <1>3, <1>5
  <2>3. ~metaDone
    <3>1. ~(synced >= 2)
      BY <2>2, <1>3
    <3>2. QED  BY <3>1, Zenon DEF CleanInv
  <2>4. phase # "closed"
    <3>1. ~(Len(file) >= 2)
      BY <2>2, <1>3
    <3>2. QED  BY <3>1, Zenon DEF CleanInv
  <2>5. QED  BY <2>3, <2>4, <1>1, <1>6, Zenon
             DEF ReadInv, ReadBackExact, CleanExitKeepsAll, MetaInFirst
<1>7. CASE outcome' = "read"
  <2>1. n > 0 /\ loaded' = SubSeq(file, 2, n)
    BY <1>7 DEF Load, ReadFile, n
  <2>2. n \in 1..Len(file)
    BY <2>1, <1>3
  <2>3. /\ Len(loaded') = n - 1
        /\ \A i \in 1..(n - 1) : loaded'[i] = file[i + 1]
    BY <2>1, <2>2, ReadFacts
  <2>4. Chained(loaded)'
    <3>1. ASSUME NEW i \in 1..(n - 1)
          PROVE  loaded'[i].from = IF i = 1 THEN Nothing ELSE loaded'[i - 1].to
      <4>1. i + 1 \in 2..Len(file) /\ (i + 1) - 1 = i
        BY <1>3
      <4>2. loaded'[i].from = file[i].to
        BY <4>1, <2>3, <1>4 DEF Linked
      <4>3. CASE i = 1
        <5>1. file[1].to = Nothing
          BY <1>4, <1>3, <2>1 DEF Linked
        <5>2. QED  BY <4>2, <4>3, <5>1
      <4>4. CASE i # 1
        <5>1. i - 1 \in 1..(n - 1) /\ (i - 1) + 1 = i
          BY <4>4, <1>3
        <5>2. loaded'[i - 1] = file[i]
          BY <5>1, <2>3
        <5>3. QED  BY <4>2, <4>4, <5>2
      <4>5. QED  BY <4>3, <4>4
    <3>2. QED  BY <3>1, <2>3 DEF Chained
  <2>5. LastOf(loaded)' = file[n].to
    <3>1. CASE n = 1
      <4>1. loaded' = << >>
        BY <3>1, <2>1
      <4>2. file[1].to = Nothing
        BY <1>4, <1>3, <2>1 DEF Linked
      <4>3. QED  BY <3>1, <4>1, <4>2 DEF LastOf
    <3>2. CASE n # 1
      <4>1. n - 1 \in 1..(n - 1) /\ (n - 1) + 1 = n /\ Len(loaded') = n - 1
        BY <3>2, <2>1, <2>3, <1>3
      <4>2. loaded' # << >>
        BY <4>1
      <4>3. loaded'[n - 1] = file[n]
        BY <4>1, <2>3
      <4>4. QED  BY <4>1, <4>2, <4>3 DEF LastOf
    <3>3. QED  BY <3>1, <3>2
  <2>6. ASSUME NEW k \in Kinds PROVE sealed[k] <= file[n].to[k]
    <3>1. sealed[k] \in Nat /\ file[n].to[k] \in Nat
      BY <2>2, Numbers
    <3>2. CASE sealed[k] = 0
      BY <3>1, <3>2
    <3>3. CASE sealed[k] # 0
      <4>1. sealed[k] \in 1..sealed[k]
        BY <3>1, <3>3
      <4>2. Covered(k, sealed[k])
        BY <4>1 DEF DiskInv
      <4>3. PICK i \in 1..Len(file) :
              i <= synced /\ file[i].bytes = "whole" /\ Holds(file[i], k, sealed[k])
        BY <4>2 DEF Covered
      <4>4. i <= n
        <5>1. ASSUME ~(i <= n) PROVE FALSE
          <6>1. n < Len(file) /\ i = n + 1
            BY <5>1, <1>3, <1>5
          <6>2. QED  BY <6>1, <4>3, <1>2
        <5>2. QED  BY <5>1
      <4>5. sealed[k] <= file[i].to[k] /\ file[i].to[k] <= file[n].to[k]
        BY <4>3, <4>4, <2>2, <1>4 DEF Holds, Linked
      <4>6. file[i].to[k] \in Nat
        BY Numbers
      <4>7. QED  BY <3>1, <4>5, <4>6
    <3>4. QED  BY <3>2, <3>3
  <2>7. ReadBackExact'
    BY <2>4, <2>5, <2>6, <1>1, <1>7 DEF ReadBackExact
  <2>8. CleanExitKeepsAll'
    <3>1. phase = "closed" => n = Len(file)
      BY <1>5
    <3>2. phase = "closed" => file[n].to = held
      BY <3>1, Zenon DEF CleanInv
    <3>3. QED  BY <3>2, <2>5, <1>1, <1>7, Zenon DEF CleanExitKeepsAll
  <2>9. MetaInFirst'
    <3>1. ASSUME NEW i \in 1..(n - 1) PROVE loaded'[i].meta <=> i = 1
      <4>1. i + 1 \in 1..Len(file)
        BY <1>3
      <4>2. i + 1 = 2 <=> i = 1
        BY <1>3
      <4>3. file[i + 1].meta <=> i + 1 = 2
        BY <4>1, <1>4, Zenon DEF Linked
      <4>4. loaded'[i] = file[i + 1]
        BY <2>3
      <4>5. QED  BY <4>2, <4>3, <4>4, Zenon
    <3>2. QED  BY <3>1, <2>3, Zenon DEF MetaInFirst
  <2>10. QED  BY <2>2, <2>5, <2>7, <2>8, <2>9, <1>1, Zenon DEF ReadInv
<1>8. QED  BY <1>6, <1>7 DEF Load, ReadFile

\* When the process is told of no I/O error, every step keeps CleanInv.
LEMMA CleanStep ==
  ASSUME MaxErrors = 0
  PROVE  TypeOK /\ TypeOK' /\ DiskInv /\ CleanInv /\ [Next]_vars => CleanInv'
<1> SUFFICES ASSUME TypeOK, TypeOK', DiskInv, CleanInv, [Next]_vars PROVE CleanInv'
  OBVIOUS
<1> USE DEF session, seal, disk, reader
<1>a. ~AnError
  <2>1. errors \in Nat
    BY Numbers
  <2>2. QED  BY <2>1 DEF AnError
\* Once something was read the session is over.
<1>b. ASSUME Running \/ phase = "failed", UNCHANGED outcome PROVE ReadInv'
  BY <1>b, Zenon DEF CleanInv, ReadInv, Running
<1>c. held' = held => \A k \in Kinds : held[k] <= held'[k]
  BY Numbers
<1>d. held' \in [Kinds -> Nat]
  BY Zenon DEF TypeOK
<1>e. ASSUME Running, UNCHANGED <<file, held>>, phase' # "down" PROVE Linked(file)' /\ TornAtEnd'
  <2>1. Linked(file)'
    BY <1>e, <1>c, <1>d, FileKept, Zenon
  <2>2. phase # "down" /\ TornAtEnd
    BY <1>e, Zenon DEF Running, CleanInv
  <2>3. QED  BY <1>e, <2>1, <2>2 DEF TornAtEnd
<1>1. ASSUME NEW k \in Kinds, Ingest(k) PROVE CleanInv'
  <2>1. /\ held' = [held EXCEPT ![k] = @ + 1] /\ held \in [Kinds -> Nat]
        /\ phase = "recording" /\ pc = "idle" /\ phase' = "recording" /\ pc' = "idle"
        /\ UNCHANGED <<sealed, writer, metaDone, file, synced, outcome>>
    BY <1>1, Zenon DEF Ingest, TypeOK
  <2>2. \A j \in Kinds : held[j] <= held'[j]
    BY <2>1
  <2>3. Linked(file)'
    BY <2>1, <2>2, <1>d, FileKept, Zenon
  <2>4. TornAtEnd'
    BY <2>1 DEF CleanInv, TornAtEnd
  <2>5. ReadInv'
    BY <2>1, <1>b, Zenon DEF Running
  <2>6. QED  BY <2>1, <2>3, <2>4, <2>5, Zenon DEF CleanInv, SealInStep, Running
<1>2. CASE Stop
  <2>1. /\ phase = "recording" /\ phase' = "final" /\ pc = "idle"
        /\ UNCHANGED <<held, sealed, writer, metaDone, file, synced, pc, done, wroteFirst, outcome>>
    BY <1>2, Zenon DEF Stop
  <2>2. Running /\ phase' # "down"
    BY <2>1, Zenon DEF Running
  <2>3. Linked(file)' /\ TornAtEnd' /\ ReadInv'
    BY <2>1, <2>2, <1>b, <1>e, Zenon
  <2>4. QED  BY <2>1, <2>2, <2>3, Zenon DEF CleanInv, SealInStep
<1>3. CASE BeginSeal
  <2>1. /\ Running /\ pc = "idle"
        /\ pc' = IF writer THEN "seal" ELSE "create"
        /\ done' = sealed /\ wroteFirst' = FALSE
        /\ UNCHANGED <<held, sealed, writer, metaDone, file, synced, phase, outcome>>
    BY <1>3, Zenon DEF BeginSeal
  <2>2. Running' /\ phase' # "down" /\ phase # "closed"
    BY <2>1, Zenon DEF Running
  <2>3. Linked(file)' /\ TornAtEnd' /\ ReadInv'
    BY <2>1, <2>2, <1>b, <1>e, Zenon
  <2>4. SealInStep
    BY <2>1, Zenon DEF CleanInv
  <2>5. CASE writer
    <3>1. Len(file) >= 2 /\ Len(file) >= 1 /\ metaDone
      <4>1. Len(file) >= 2 /\ metaDone
        BY <2>1, <2>4, <2>5, Zenon DEF SealInStep
      <4>2. QED  BY <4>1, Numbers
    <3>2. pc' = "seal" /\ synced = Len(file) /\ file[Len(file)].to = done'
      BY <2>1, <2>4, <2>5, Zenon DEF SealInStep
    <3>3. SealInStep'
      BY <2>1, <3>1, <3>2, Zenon DEF SealInStep
    <3>4. QED  BY <2>1, <2>2, <2>3, <3>3, Zenon DEF CleanInv
  <2>6. CASE ~writer
    <3>1. pc' = "create" /\ ~metaDone
      BY <2>1, <2>4, <2>6, Zenon DEF SealInStep
    <3>2. SealInStep'
      BY <2>1, <3>1, Zenon DEF SealInStep
    <3>3. QED  BY <2>1, <2>2, <2>3, <3>2, Zenon DEF CleanInv
  <2>7. QED  BY <2>5, <2>6
<1>4. CASE CreateFile
  <2>1. /\ Running /\ pc = "create" /\ pc' = "header"
        /\ file' = <<Header>> /\ synced' = 0
        /\ UNCHANGED <<held, writer, metaDone, wroteFirst, phase, outcome>>
    BY <1>4, Zenon DEF CreateFile
  <2>2. Running' /\ phase' # "down" /\ phase' # "closed" /\ phase' # "failed"
    BY <2>1, Zenon DEF Running
  <2>3. Linked(file)'
    <3>1. Linked(<<Header>>)
      BY LinkedHeader
    <3>2. QED  BY <2>1, <3>1, ZenonT(60) DEF Linked
  <2>4. TornAtEnd'
    <3>1. Header.bytes = "whole" /\ Len(<<Header>>) = 1 /\ <<Header>>[1] = Header
      BY DEF Header
    <3>2. QED  BY <2>1, <3>1 DEF TornAtEnd
  <2>5. ~metaDone /\ ~wroteFirst
    BY <2>1, Zenon DEF CleanInv, SealInStep
  <2>6. SealInStep'
    BY <2>1, <2>5, Zenon DEF SealInStep
  <2>7. QED  BY <2>1, <2>2, <2>3, <2>4, <2>5, <2>6, <1>b, Zenon DEF CleanInv
<1>5. CASE SyncHeader
  <2>1. /\ Running /\ pc = "header" /\ pc' = "seal" /\ synced' = 1 /\ writer' = TRUE
        /\ UNCHANGED <<held, metaDone, file, done, wroteFirst, phase, outcome>>
    BY <1>5, Zenon DEF SyncHeader
  <2>2. Running' /\ phase' # "down" /\ phase' # "closed" /\ phase' # "failed"
    BY <2>1, Zenon DEF Running
  <2>3. Linked(file)' /\ TornAtEnd' /\ ReadInv'
    BY <2>1, <2>2, <1>b, <1>e, Zenon
  <2>4. ~metaDone /\ ~wroteFirst /\ file = <<Header>>
    BY <2>1, Zenon DEF CleanInv, SealInStep
  <2>5. done = Nothing
    BY <2>1, Zenon DEF DiskInv
  <2>6. /\ Len(file) >= 1 /\ synced' = Len(file) /\ ~(Len(file) >= 2)
        /\ file[Len(file)].to = done
    BY <2>1, <2>4, <2>5 DEF Header
  <2>7. SealInStep'
    BY <2>1, <2>4, <2>6, Zenon DEF SealInStep
  <2>8. QED  BY <2>1, <2>2, <2>3, <2>4, <2>7, Zenon DEF CleanInv
<1>6. CASE WriteSegment
  <2>1. /\ Running /\ pc = "seal" /\ pc' = "sync"
        /\ UNCHANGED <<held, writer, metaDone, synced, done, wroteFirst, phase, outcome>>
    BY <1>6, Zenon DEF WriteSegment
  <2>2. /\ Running' /\ phase # "down" /\ phase' # "down" /\ phase' # "closed" /\ phase' # "failed"
        /\ ReadInv'
    BY <2>1, <1>b, Zenon DEF Running
  <2>3. PICK seg \in SegmentsNext : file' = Append(Completed(file), seg)
    BY <1>6 DEF WriteSegment
  <2>4. \A k \in Kinds : done[k] <= held[k]
    BY <2>1 DEF DiskInv
  <2>5. /\ seg \in Chunk /\ seg.from = done /\ seg.bytes = "whole"
        /\ \A k \in Kinds : done[k] <= seg.to[k] /\ seg.to[k] <= held[k]
        /\ seg.meta <=> ~metaDone /\ ~wroteFirst
    BY <2>4, SegmentsNextFacts
  <2>6. /\ Len(file) >= 1 /\ synced = Len(file) /\ file[Len(file)].to = done
        /\ (metaDone \/ wroteFirst) <=> Len(file) >= 2
    BY <2>1, Zenon DEF CleanInv, SealInStep
  <2>7. Len(file) \in Nat /\ (Len(file) >= 2 <=> ~(Len(file) = 1))
    BY <2>6, Numbers
  <2>8. /\ file' \in Seq(Chunk) /\ Len(file') = Len(file) + 1
        /\ file'[Len(file) + 1] = seg
        /\ \A i \in 1..Len(file) : file[i].bytes = "whole" => file'[i] = file[i]
    BY <2>3, <2>5, WriteFacts
  <2>9. \A i \in 1..Len(file) : file[i].bytes = "whole" /\ file'[i] = file[i]
    BY <2>2, <2>8 DEF CleanInv, TornAtEnd
  <2>10. seg.meta <=> Len(file) = 1
    BY <2>5, <2>6, <2>7, Zenon
  <2>11. Linked(file)'
    <3>1. Linked(file)
      BY Zenon DEF CleanInv
    <3>2. Linked(file')
      BY <2>5, <2>6, <2>8, <2>9, <2>10, <3>1, LinkOneMore
    <3>3. held' = held
      BY <2>1
    <3>4. QED  BY <3>2, <3>3, Zenon DEF Linked
  <2>12. TornAtEnd'
    <3>1. ASSUME NEW i \in 1..Len(file') PROVE file'[i].bytes = "whole"
      <4>1. i = Len(file) + 1 \/ i \in 1..Len(file)
        BY <2>7, <2>8
      <4>2. QED  BY <4>1, <2>5, <2>8, <2>9
    <3>2. QED  BY <3>1 DEF TornAtEnd
  <2>13. Len(file') >= 2 /\ (Len(file') >= 3 <=> Len(file) >= 2)
    BY <2>6, <2>7, <2>8
  <2>14. SealInStep'
    BY <2>1, <2>6, <2>13, Zenon DEF SealInStep
  <2>15. QED  BY <2>1, <2>2, <2>11, <2>12, <2>14, Zenon DEF CleanInv
<1>7. CASE SyncSegment
  <2>1. /\ Running /\ pc = "sync" /\ pc' = "seal"
        /\ synced' = Len(file) /\ done' = file[Len(file)].to /\ wroteFirst' = TRUE
        /\ UNCHANGED <<held, writer, metaDone, file, phase, outcome>>
    BY <1>7, Zenon DEF SyncSegment
  <2>2. Running' /\ phase' # "down" /\ phase' # "closed" /\ phase' # "failed"
    BY <2>1, Zenon DEF Running
  <2>3. Linked(file)' /\ TornAtEnd' /\ ReadInv'
    BY <2>1, <2>2, <1>b, <1>e, Zenon
  <2>4. Len(file) >= 2
    BY <2>1, Zenon DEF CleanInv, SealInStep
  <2>5. Len(file) >= 1
    BY <2>4, Numbers
  <2>6. SealInStep'
    BY <2>1, <2>4, <2>5, Zenon DEF SealInStep
  <2>7. metaDone' => writer' /\ synced' >= 2
    BY <2>1, <2>4, Zenon DEF CleanInv
  <2>8. QED  BY <2>1, <2>2, <2>3, <2>6, <2>7, Zenon DEF CleanInv
<1>8. CASE EndSeal
  <2>1. /\ Running /\ pc = "seal" /\ pc' = "idle" /\ done = held /\ (metaDone \/ wroteFirst)
        /\ sealed' = held /\ metaDone' = TRUE
        /\ phase' = IF phase = "final" THEN "closed" ELSE phase
        /\ UNCHANGED <<held, writer, file, synced, outcome>>
    BY <1>8, Zenon DEF EndSeal, MoreToSeal
  <2>2. phase' # "down" /\ phase' # "failed"
    BY <2>1, Zenon DEF Running
  <2>3. Linked(file)' /\ TornAtEnd' /\ ReadInv'
    BY <2>1, <2>2, <1>b, <1>e, Zenon
  <2>4. writer
    BY <2>1, Zenon DEF DiskInv
  <2>5. /\ Len(file) >= 2 /\ synced = Len(file) /\ file[Len(file)].to = held
    BY <2>1, Zenon DEF CleanInv, SealInStep
  <2>6. SealInStep'
    BY <2>1, <2>4, <2>5, Zenon DEF SealInStep
  <2>7. metaDone' => writer' /\ synced' >= 2
    BY <2>1, <2>4, <2>5, Zenon
  <2>8. phase' = "closed" => Len(file') >= 2 /\ file'[Len(file')].to = held'
    BY <2>1, <2>5, Zenon
  <2>9. QED  BY <2>2, <2>3, <2>6, <2>7, <2>8, Zenon DEF CleanInv
<1>9. CASE Failure
  BY <1>9, <1>a, Zenon DEF Failure, FailCreate, IgnoreHeaderError, FailWrite, FailSync
<1>10. CASE GoDown
  <2>1. /\ Running \/ phase = "failed"
        /\ phase' = "down" /\ file' \in AfterCrash
        /\ UNCHANGED <<held, sealed, writer, metaDone, synced, outcome>>
    BY <1>10, Zenon DEF GoDown
  <2>2. phase # "down" /\ phase # "failed"
    BY <2>1, Zenon DEF Running, CleanInv
  <2>3. ReadInv' /\ ~Running'
    BY <2>1, <1>b, Zenon DEF Running
  <2>4. synced <= Len(file)
    BY DEF DiskInv
  <2>5. /\ Len(file') \in Nat /\ Len(file') <= Len(file) /\ Len(file) \in Nat
        /\ \A i \in 1..Len(file') : i < Len(file') => file'[i] = Torn(file)[i]
        /\ \A i \in 1..Len(file') : /\ file'[i].from = file[i].from
                                    /\ file'[i].to = file[i].to
                                    /\ file'[i].meta = file[i].meta
    BY <2>1, <2>4, CrashFacts, Numbers, LenProperties
  <2>6. \A i \in 1..Len(file') : i \in 1..Len(file)
    BY <2>5
  <2>7. Linked(file)'
    <3>1. Linked(file)
      BY Zenon DEF CleanInv
    <3>2. Len(file') > 0 => file'[1].to = Nothing
      <4>1. Len(file') > 0 => 1 \in 1..Len(file') /\ Len(file) > 0
        BY <2>5
      <4>2. QED  BY <4>1, <2>5, <3>1, Zenon DEF Linked
    <3>3. \A i \in 2..Len(file') : file'[i].from = file'[i - 1].to
      <4>1. \A i \in 2..Len(file') : i \in 1..Len(file') /\ i - 1 \in 1..Len(file') /\ i \in 2..Len(file)
        BY <2>5
      <4>2. QED  BY <4>1, <2>5, <3>1, Zenon DEF Linked
    <3>4. \A i, j \in 1..Len(file') : i <= j => \A k \in Kinds : file'[i].to[k] <= file'[j].to[k]
      <4>1. \A i, j \in 1..Len(file) : i <= j => \A k \in Kinds : file[i].to[k] <= file[j].to[k]
        BY <3>1, Zenon DEF Linked
      <4>2. ASSUME NEW i \in 1..Len(file'), NEW j \in 1..Len(file'), i <= j, NEW k \in Kinds
            PROVE  file'[i].to[k] <= file'[j].to[k]
        <5>1. file'[i].to = file[i].to /\ file'[j].to = file[j].to
          BY <2>5
        <5>2. i \in 1..Len(file) /\ j \in 1..Len(file)
          BY <2>6
        <5>3. file[i].to[k] <= file[j].to[k]
          BY <5>2, <4>1, <4>2, Zenon
        <5>4. QED  BY <5>1, <5>3
      <4>3. QED  BY <4>2
    <3>5. \A i \in 1..Len(file') : file'[i].meta <=> i = 2
      BY <2>5, <2>6, <3>1, Zenon DEF Linked
    <3>6. \A i \in 1..Len(file') : \A k \in Kinds : file'[i].to[k] <= held'[k]
      BY <2>1, <2>5, <2>6, <3>1, Zenon DEF Linked
    <3>7. QED  BY <3>2, <3>3, <3>4, <3>5, <3>6, Zenon DEF Linked
  <2>8. TornAtEnd'
    <3>1. ASSUME NEW i \in 1..Len(file'), i < Len(file') PROVE file'[i].bytes = "whole"
      <4>1. i \in 1..Len(file)
        BY <2>6
      <4>2. file[i].bytes = "whole"
        BY <4>1, <2>2 DEF CleanInv, TornAtEnd
      <4>3. file \in Seq(Chunk)
        BY Numbers
      <4>4. Torn(file)[i] = file[i]
        BY <4>1, <4>2, <4>3, TornFacts
      <4>5. QED  BY <3>1, <4>2, <4>4, <2>5
    <3>2. QED  BY <3>1, <2>1 DEF TornAtEnd
  <2>9. metaDone' => writer' /\ synced' >= 2
    BY <2>1, Zenon DEF CleanInv
  <2>10. QED  BY <2>1, <2>3, <2>7, <2>8, <2>9, Zenon DEF CleanInv
<1>11. CASE Load
  <2>1. /\ UNCHANGED <<held, writer, metaDone, file, synced, phase>>
        /\ phase \in {"closed", "down"}
    BY <1>11, Zenon DEF Load
  <2>2. ReadInv'
    BY <1>11, LoadClean
  <2>3. ~Running'
    BY <2>1, Zenon DEF Running
  <2>4. Linked(file)' /\ TornAtEnd'
    <3>1. Linked(file) /\ TornAtEnd
      BY Zenon DEF CleanInv
    <3>2. QED  BY <3>1, <2>1, Zenon DEF Linked, TornAtEnd
  <2>5. QED  BY <2>1, <2>2, <2>3, <2>4, Zenon DEF CleanInv
<1>12. CASE UNCHANGED vars
  <2>1. /\ UNCHANGED <<held, sealed, writer, metaDone, file, synced, pc, done, wroteFirst>>
        /\ UNCHANGED <<phase, outcome, loaded>>
    BY <1>12, Zenon DEF vars
  <2>2. Linked(file)' /\ TornAtEnd'
    <3>1. Linked(file) /\ TornAtEnd
      BY Zenon DEF CleanInv
    <3>2. QED  BY <3>1, <2>1, Zenon DEF Linked, TornAtEnd
  <2>3. ReadInv'
    <3>1. ReadInv
      BY Zenon DEF CleanInv
    <3>2. QED  BY <3>1, <2>1, Zenon DEF ReadInv, ReadBackExact, CleanExitKeepsAll, MetaInFirst,
                  Chained, LastOf
  <2>4. (Running => SealInStep)'
    <3>1. Running => SealInStep
      BY Zenon DEF CleanInv
    <3>2. QED  BY <3>1, <2>1, Zenon DEF Running, SealInStep
  <2>5. QED  BY <2>1, <2>2, <2>3, <2>4, Zenon DEF CleanInv
<1>13. QED
  BY <1>1, <1>2, <1>3, <1>4, <1>5, <1>6, <1>7, <1>8, <1>9, <1>10, <1>11, <1>12, Zenon
     DEF Next, InSeal

LEMMA CleanInvariance ==
  ASSUME MaxErrors = 0
  PROVE  Spec => [](TypeOK /\ DiskInv /\ CleanInv)
<1>1. Init => TypeOK /\ DiskInv /\ CleanInv
  BY InitDisk, InitClean
<1>2. TypeOK /\ DiskInv /\ CleanInv /\ [Next]_vars => (TypeOK /\ DiskInv /\ CleanInv)'
  BY TypeStep, DiskStep, CleanStep
<1>3. QED  BY <1>1, <1>2, PTL DEF Spec

\* Whatever instant the crash chooses, opening the recording gives each entry
\* once and in order, and at least every entry a flush had reported as written.
THEOREM CrashReadsBackExact ==
  ASSUME MaxErrors = 0
  PROVE  Spec => []ReadBackExact
<1>1. CleanInv => ReadBackExact
  BY Zenon DEF CleanInv, ReadInv, ReadBackExact
<1>2. QED  BY <1>1, CleanInvariance, PTL

\* After a clean exit the recording holds everything the session saw.
THEOREM NothingLostOnExit ==
  ASSUME MaxErrors = 0
  PROVE  Spec => []CleanExitKeepsAll
<1>1. CleanInv => CleanExitKeepsAll
  BY Zenon DEF CleanInv, ReadInv, CleanExitKeepsAll
<1>2. QED  BY <1>1, CleanInvariance, PTL

\* The meta frame is in the first segment read back and in no other.
THEOREM MetaComesFirst ==
  ASSUME MaxErrors = 0
  PROVE  Spec => []MetaInFirst
<1>1. CleanInv => MetaInFirst
  BY Zenon DEF CleanInv, ReadInv, MetaInFirst
<1>2. QED  BY <1>1, CleanInvariance, PTL

-----------------------------------------------------------------------------
(* The recording implements a durable log. *)

\* Nothing is acknowledged before the first flush, nothing loaded before Load.
FreshInv ==
  /\ ~metaDone => sealed = Nothing
  /\ outcome = "not read" => loaded = << >>

LEMMA FreshStep == MaxErrors = 0 /\ TypeOK /\ FreshInv /\ [Next]_vars => FreshInv'
<1> SUFFICES ASSUME MaxErrors = 0, TypeOK, FreshInv, [Next]_vars PROVE FreshInv'
  OBVIOUS
<1> USE DEF session, seal, disk, reader
<1>1. CASE EndSeal
  BY <1>1, Zenon DEF EndSeal, FreshInv
<1>2. CASE Load
  BY <1>2, Zenon DEF Load, ReadFile, FreshInv
<1>3. CASE UNCHANGED <<sealed, metaDone, outcome, loaded>>
  BY <1>3, Zenon DEF FreshInv
<1>4. ASSUME NEW k \in Kinds, Ingest(k) PROVE FreshInv'
  BY <1>3, <1>4, Zenon DEF Ingest
<1>5. CASE Stop \/ BeginSeal \/ CreateFile \/ SyncHeader \/ WriteSegment \/ SyncSegment
  BY <1>3, <1>5, Zenon DEF Stop, BeginSeal, CreateFile, SyncHeader, WriteSegment, SyncSegment
<1>6. CASE Failure \/ GoDown \/ UNCHANGED vars
  BY <1>3, <1>6, Zenon
     DEF Failure, FailCreate, IgnoreHeaderError, FailWrite, FailSync, GiveUp, GoDown, vars
<1>7. QED  BY <1>1, <1>2, <1>4, <1>5, <1>6, Zenon DEF Next, InSeal

LEMMA LogInit == Init => Log!Init
<1> SUFFICES ASSUME Init PROVE Log!Init
  OBVIOUS
<1>1. LastOf(loaded) = Nothing
  BY DEF Init, LastOf
<1>2. Running \/ phase = "failed"
  BY Zenon DEF Init, Running
<1>3. QED  BY <1>1, <1>2, Zenon DEF Init, Log!Init, Nothing

\* Each step of the recording is a step of the log, or invisible to it.
LEMMA LogStep ==
  ASSUME MaxErrors = 0
  PROVE  TypeOK /\ DiskInv /\ CleanInv /\ CleanInv' /\ FreshInv /\ [Next]_vars
           => [Log!Next]_Log!vars
<1> SUFFICES ASSUME TypeOK, DiskInv, CleanInv, CleanInv', FreshInv, [Next]_vars
             PROVE  [Log!Next]_Log!vars
  OBVIOUS
<1> USE DEF session, seal, disk, reader
<1> DEFINE Up == Running \/ phase = "failed"
           Reading == IF outcome = "not read" THEN "none"
                      ELSE IF Chained(loaded) THEN "intact" ELSE "garbled"
           Seen == LastOf(loaded)
<1>1. ASSUME UNCHANGED reader PROVE Reading' = Reading /\ Seen' = Seen
  BY <1>1, Zenon DEF Chained, LastOf
<1>2. ASSUME NEW k \in Kinds, Ingest(k) PROVE Log!Append
  BY <1>1, <1>2, Zenon DEF Ingest, Log!Append, Running
<1>3. CASE EndSeal
  <2>1. Up /\ Up' \in BOOLEAN
    BY <1>3, Zenon DEF EndSeal, Running
  <2>2. sealed' = held /\ UNCHANGED held
    BY <1>3, Zenon DEF EndSeal
  <2>3. Log!Ack
    BY <1>1, <1>3, <2>1, <2>2, Zenon DEF EndSeal, Log!Ack
  <2>4. QED  BY <2>3, Zenon DEF Log!Next
<1>4. CASE GoDown
  <2>1. Up /\ (Up' = FALSE) /\ UNCHANGED <<held, sealed, reader>>
    BY <1>4, Zenon DEF GoDown, Running
  <2>2. Log!GoDown
    BY <1>1, <2>1, Zenon DEF Log!GoDown
  <2>3. QED  BY <2>2, Zenon DEF Log!Next
<1>5. CASE Load
  <2>1. ~Up /\ (Up' = Up) /\ UNCHANGED <<held, sealed, metaDone>> /\ Reading = "none"
    BY <1>5, Zenon DEF Load, Running
  <2>2. ReadInv' /\ (outcome' = "unreadable" \/ \E i \in 1..Len(file) : LastOf(loaded)' = file[i].to)
    BY <1>5, LoadClean
  <2>3. \A k \in Kinds : Nothing[k] = 0 /\ held[k] \in Nat
    BY Numbers DEF Nothing
  <2>4. CASE outcome' = "unreadable"
    <3>1. ~metaDone
      BY <2>1, <2>2, <2>4, Zenon DEF ReadInv, ReadBackExact
    <3>2. sealed = Nothing /\ loaded' = << >>
      BY <1>5, <2>4, <3>1, Zenon DEF FreshInv, Load, ReadFile
    <3>3. Chained(loaded)' /\ Seen' = Nothing
      BY <3>2 DEF Chained, LastOf
    <3>4. \A k \in Kinds : sealed[k] <= Nothing[k] /\ Nothing[k] <= held[k]
      BY <2>3, <3>2
    <3>5. Reading' = "intact"
      BY <2>4, <3>3
    <3>6. Log!Recover
      BY <2>1, <3>3, <3>4, <3>5, HeaderType, Zenon DEF Log!Recover, Log!AtMost, Log!Counts
    <3>7. QED  BY <3>6, Zenon DEF Log!Next
  <2>5. CASE outcome' = "read"
    <3>1. Chained(loaded)' /\ \A k \in Kinds : sealed[k] <= Seen'[k]
      BY <2>1, <2>2, <2>5, Zenon DEF ReadInv, ReadBackExact
    <3>2. PICK i \in 1..Len(file) : Seen' = file[i].to
      BY <2>2, <2>5
    <3>3. Seen' \in [Kinds -> Nat]
      BY <3>2, Numbers
    <3>4. \A k \in Kinds : Seen'[k] <= held[k]
      BY <3>2, Zenon DEF CleanInv, Linked
    <3>5. Reading' = "intact"
      BY <2>5, <3>1
    <3>6. Log!Recover
      BY <2>1, <3>1, <3>3, <3>4, <3>5, Zenon DEF Log!Recover, Log!AtMost, Log!Counts
    <3>7. QED  BY <3>6, Zenon DEF Log!Next
  <2>6. QED  BY <1>5, <2>4, <2>5, Zenon DEF Load, ReadFile
<1>6. CASE Stop \/ BeginSeal \/ CreateFile \/ SyncHeader \/ WriteSegment \/ SyncSegment \/ UNCHANGED vars
  <2>1. UNCHANGED <<held, sealed, reader>> /\ (Up' = Up)
    BY <1>6, Zenon DEF Stop, BeginSeal, CreateFile, SyncHeader, WriteSegment, SyncSegment, vars, Running
  <2>2. QED  BY <1>1, <2>1, Zenon DEF Log!vars
<1>7. CASE Failure
  <2>1. ~AnError
    <3>1. errors \in Nat
      BY Numbers
    <3>2. QED  BY <3>1 DEF AnError
  <2>2. QED  BY <1>7, <2>1, Zenon DEF Failure, FailCreate, IgnoreHeaderError, FailWrite, FailSync
<1>8. QED
  BY <1>2, <1>3, <1>4, <1>5, <1>6, <1>7, Zenon DEF Next, InSeal, Log!Next

\* The recording implements a durable log: read back after a crash at any
\* instant, it is a prefix of what was appended that holds at least all a flush
\* had acknowledged.
THEOREM ImplementsDurableLog ==
  ASSUME MaxErrors = 0
  PROVE  Spec => LogSpec
<1>1. Init => FreshInv
  BY Zenon DEF Init, FreshInv
<1>2. TypeOK /\ FreshInv /\ [Next]_vars => FreshInv'
  BY FreshStep
<1>3. Spec => []FreshInv
  BY <1>1, <1>2, TypeCorrect, PTL DEF Spec
<1>4. Init => Log!Init
  BY LogInit
<1>5. TypeOK /\ DiskInv /\ CleanInv /\ CleanInv' /\ FreshInv /\ [Next]_vars => [Log!Next]_Log!vars
  BY LogStep
<1>6. QED  BY <1>3, <1>4, <1>5, CleanInvariance, PTL DEF Spec, LogSpec, Log!Spec
=============================================================================
