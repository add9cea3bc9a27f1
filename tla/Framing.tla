------------------------------- MODULE Framing -------------------------------
(***************************************************************************)
(* Bytes, frames and segments: LEB128 and zigzag numbers, the envelope     *)
(* around a frame and the loops that read one out of whatever a read       *)
(* returned (trace_format.rs), the container of a recording and its        *)
(* dispatch on the first bytes (record.rs).                                *)
(*                                                                         *)
(* A byte is a number below 2 * Group; what it carries of a number is a    *)
(* group, seven bits in the code, and a word is FullGroups groups and one  *)
(* bit more.  A magic of four bytes is one, a u32 of the container is one  *)
(* place, and of the frame bodies only those of the string pool have       *)
(* content: the other known tags are read with the same cursor.  What a    *)
(* file gives its reader is cut into pieces as the reads return them.      *)
(*                                                                         *)
(* A loop that ends when the bytes run out is a fold over them, or over as *)
(* many places as it can take turns.                                       *)
(***************************************************************************)
EXTENDS Wire, Sequences, FiniteSetsExt

CONSTANTS
  Group,        \* 128 in the code: the values of seven bits
  FullGroups,   \* 9: 64 bits are nine groups and one bit
  MaxFrameLen,  \* MAX_FRAME_LEN
  MaxSegment,   \* MAX_SEGMENT_LEN
  Letters,      \* what a text is made of, for the checks
  AnyByte       \* the bytes of an arbitrary input, for the checks

\* 1 << (7 * n), and one past the largest u64.
Scale[n \in Nat] == IF n = 0 THEN 1 ELSE Group * Scale[n - 1]
Word == 2 * Scale[FullGroups]
ASSUME FramingAssumption ==
  /\ Group \in Nat \ {0, 1} /\ FullGroups \in Nat
  /\ MaxFrameLen \in 1..(Word - 1) /\ MaxSegment \in Nat
  /\ AnyByte \subseteq 0..(2 * Group - 1) /\ Letters \subseteq AnyByte

Drop(bytes, n) == SubSeq(bytes, n + 1, Len(bytes))
Take(bytes, n) == SubSeq(bytes, 1, n)

-----------------------------------------------------------------------------
(* Numbers. *)

WriteVarint[v \in Nat] ==
  IF v < Group THEN <<v>> ELSE <<Group + (v % Group)>> \o WriteVarint[v \div Group]

\* What the bytes of a number read so far amount to: "more", a "value", or "overlong".
Number(kind, value, bytes) == [kind |-> kind, value |-> value, bytes |-> bytes]

\* Mutant of IsOverlong: the last byte's payload is not looked at.
IsOverlongByLength(n, payload) == n > FullGroups

\* After n bytes: the number runs past the word.
IsOverlong(n, payload) == n > FullGroups \/ (n = FullGroups /\ payload > 1)

\* The next byte; after the last one nothing is read.
TakeByte(num, byte) ==
  LET payload == byte % Group
      value == (num.value + payload * Scale[num.bytes]) % Word
  IN  IF num.kind # "more" THEN num
      ELSE IF IsOverlong(num.bytes, payload) THEN Number("overlong", 0, num.bytes)
      ELSE Number(IF byte < Group THEN "value" ELSE "more", value, num.bytes + 1)

\* peek_varint, at the first of the bytes.
PeekVarint(bytes) == FoldLeft(TakeByte, Number("more", 0, 0), bytes)

\* (v << 1) ^ (v >> 63), and back: the sign moves to the lowest bit.
Zigzag(v) == LET shifted == (2 * v) % Word IN IF v < 0 THEN Word - 1 - shifted ELSE shifted
Unzigzag(u) == IF u % 2 = 0 THEN u \div 2 ELSE -(u \div 2) - 1

-----------------------------------------------------------------------------
(* Frames. *)

Magic == 7
Version == 2
StrPool == 3
Unknown == 0   \* any tag this build does not know

\* istr of a body: its text, or nothing if the body is too short for it.
IStr(body) ==
  LET n == PeekVarint(body)
  IN  IF n.kind = "value" /\ n.bytes + n.value <= Len(body)
      THEN <<SubSeq(body, n.bytes + 1, n.bytes + n.value)>>
      ELSE << >>

Envelope(tag, body) == <<tag>> \o WriteVarint[Len(body)] \o body
TextFrame(text) == Envelope(StrPool, WriteVarint[Len(text)] \o text)
EncodeStream(texts) ==
  <<Magic, Version>> \o FlattenSeq([i \in 1..Len(texts) |-> TextFrame(texts[i])])

More == [kind |-> "more"]
Corrupt == [kind |-> "corrupt"]
Done(n, texts) == [kind |-> "done", n |-> n, texts |-> texts]

\* Decoder::step: the header first, then an envelope and its body. A length no
\* frame has is refused before its bytes are waited for.
StepOf(headerSeen, buf) ==
  IF ~headerSeen
  THEN IF Len(buf) < 2 THEN More
       ELSE IF buf[1] # Magic \/ buf[2] \notin 1..Version THEN Corrupt
       ELSE Done(2, << >>)
  ELSE LET len == PeekVarint(Drop(buf, 1))
           end == 1 + len.bytes + len.value
           body == SubSeq(buf, 2 + len.bytes, end)
       IN  IF buf = << >> \/ len.kind = "more" THEN More
           ELSE IF len.kind = "overlong" \/ len.value > MaxFrameLen THEN Corrupt
           ELSE IF Len(buf) < end THEN More
           ELSE IF buf[1] # StrPool THEN Done(end, << >>)
           ELSE IF IStr(body) = << >> THEN Corrupt
           ELSE Done(end, IStr(body))

-----------------------------------------------------------------------------
(* The loop around it: read_stream, and read_executions of the collector.    *)

FreshReader == [seen |-> FALSE, buf |-> << >>, texts |-> << >>, verdict |-> "ok"]

\* The next frame, if the buffer holds one.
TakeFrame(rd, place) ==
  LET s == StepOf(rd.seen, rd.buf)
  IN  IF rd.verdict # "ok" \/ s.kind = "more" THEN rd
      ELSE IF s.kind = "corrupt" THEN [rd EXCEPT !.verdict = "corrupt"]
      ELSE [seen |-> TRUE, buf |-> Drop(rd.buf, s.n), texts |-> rd.texts \o s.texts, verdict |-> "ok"]

\* Every whole frame of the buffer, which has a byte at least; the rest of it stays.
Drain(rd) == FoldLeft(TakeFrame, rd, rd.buf)

\* Mutant of Feed: a new piece replaces what was left of the one before.
FeedAfresh(rd, piece) ==
  IF rd.verdict # "ok" THEN rd ELSE Drain([rd EXCEPT !.buf = piece])

\* A read has returned a piece. After an error nothing more is read.
Feed(rd, piece) ==
  IF rd.verdict # "ok" THEN rd ELSE Drain([rd EXCEPT !.buf = @ \o piece])

Loaded(texts, verdict) == [texts |-> texts, verdict |-> verdict]

ReadStream(pieces) ==
  LET rd == FoldLeft(Feed, FreshReader, pieces)
  IN  Loaded(rd.texts, IF rd.verdict = "ok" /\ rd.buf # << >> THEN "truncated" ELSE rd.verdict)

-----------------------------------------------------------------------------
(* The container of a recording: a header, then segments of two lengths and  *)
(* a deflated stream.                                                        *)

SegMagic == 6
SegVersion == 1
SigLen == 3      \* the first bytes ingest_file looks at, past a header of two

\* DEFLATE, as far as the reader can tell: some bytes inflate, some do not.
Deflate(raw) == <<Len(raw)>> \o raw
Inflate(comp) == IF comp # << >> /\ comp[1] = Len(comp) - 1 THEN <<Drop(comp, 1)>> ELSE << >>

\* SegmentWriter::create and seal_raw.
Segment(raw) == <<Len(raw), Len(Deflate(raw))>> \o Deflate(raw)
Container(segments) ==
  <<SegMagic, SegVersion>>
    \o FlattenSeq([i \in 1..Len(segments) |-> Segment(EncodeStream(segments[i]))])

\* fill: reads on until the buffer holds `need`, or the file ends.
Fill(buf, pieces, need) ==
  LET Filled(n) == buf \o FlattenSeq(Take(pieces, n))
      enough == {n \in 0..Len(pieces) : Len(Filled(n)) >= need}
      n == IF enough = {} THEN Len(pieces) ELSE Min(enough)
  IN  [ok |-> enough # {}, buf |-> Filled(n), pieces |-> Drop(pieces, n)]

\* decode_segment: the same step, but a frame the segment ends in is corrupt.
\* What came before an error has been taken.
SegmentTexts(raw) ==
  LET rd == Drain([FreshReader EXCEPT !.buf = raw])
  IN  [texts |-> rd.texts, ok |-> rd.verdict = "ok" /\ rd.buf = << >>]
OpenSegment(rawLen, comp) ==
  LET raw == Inflate(comp)
  IN  IF raw # << >> /\ Len(raw[1]) = rawLen THEN SegmentTexts(raw[1])
      ELSE [texts |-> << >>, ok |-> FALSE]

\* A turn of read_segments. A file may end inside a header or a segment, and its
\* last segment may be corrupt: the tail of a hard kill is dropped.
TakeSegment(rd, place) ==
  LET head == Fill(rd.buf, rd.pieces, 2)
      comp == head.buf[2]
      whole == Fill(head.buf, head.pieces, 2 + comp)
      seg == OpenSegment(head.buf[1], SubSeq(whole.buf, 3, 2 + comp))
      rest == Drop(whole.buf, 2 + comp)
  IN  IF rd.verdict # "ok" \/ ~head.ok THEN rd
      ELSE IF head.buf[1] > MaxSegment \/ comp > MaxSegment THEN [rd EXCEPT !.verdict = "corrupt"]
      ELSE IF ~whole.ok THEN rd
      ELSE [buf |-> rest, pieces |-> whole.pieces, texts |-> rd.texts \o seg.texts,
            verdict |-> IF seg.ok \/ ~Fill(rest, whole.pieces, 1).ok THEN "ok" ELSE "corrupt"]

\* A segment has two places at least.
ReadSegments(buf, pieces) ==
  LET start == [buf |-> buf, pieces |-> pieces, texts |-> << >>, verdict |-> "ok"]
      rd == FoldLeft(TakeSegment, start, buf \o FlattenSeq(pieces))
  IN  Loaded(rd.texts, rd.verdict)

\* Mutant of Carried: what was read to tell the format apart is read again.
CarriedNothing(sig) == << >>

\* The bytes read to tell the format apart that belong to the first segment.
Carried(sig) == Drop(sig, 2)

\* ingest_file: sniff, then hand the sniffed bytes on with the rest of the file.
\* (The old text format, with its own magic, is refused like any other.)
IngestFile(pieces) ==
  LET first == Fill(<< >>, pieces, SigLen)
      sig == Take(first.buf, IF first.ok THEN SigLen ELSE Len(first.buf))
      others == <<Drop(first.buf, Len(sig))>> \o first.pieces
  IN  IF Len(sig) >= 2 /\ sig[1] = SegMagic
      THEN IF sig[2] # SegVersion THEN Loaded(<< >>, "refused")
           ELSE ReadSegments(Carried(sig), others)
      ELSE IF sig # << >> /\ sig[1] = Magic THEN ReadStream(<<sig>> \o others)
      ELSE Loaded(<< >>, "refused")

-----------------------------------------------------------------------------
(* Properties: of every value of a few bits, and of all short inputs.        *)

\* The ways three reads may cut the bytes, or fewer.
Pieces(bytes) ==
  LET n == Len(bytes)
      Read(i, j) == SubSeq(bytes, i + 1, j)
  IN  {<<bytes>>} \cup {<<Read(0, i), Read(i, n)>> : i \in 1..(n - 1)}
        \cup UNION {{<<Read(0, i), Read(i, j), Read(j, n)>> : j \in (i + 1)..(n - 1)} : i \in 1..(n - 1)}

\* What the writers never exceed: a frame of its text, a segment deflated.
FitsFrame(text) == Len(WriteVarint[Len(text)] \o text) <= MaxFrameLen
FitsSegment(texts) == Len(Deflate(EncodeStream(texts))) <= MaxSegment

AnyBytes(n) == UNION {[1..k -> AnyByte] : k \in 0..n}
ShortTexts == {text \in UNION {[1..k -> Letters] : k \in 0..2} : FitsFrame(text)}
ShortSegments == {texts \in UNION {[1..k -> ShortTexts] : k \in 0..1} : FitsSegment(texts)}

\* What the groups of some bytes amount to, with no bound.
Sum(bytes) ==
  LET Add(sum, i) == sum + (bytes[i] % Group) * Scale[i - 1]
  IN  FoldLeft(Add, 0, [i \in 1..Len(bytes) |-> i])

\* Every word goes out and comes back, no leading part of it is taken for a
\* number, and what does not fit a word is refused, never wrapped; a signed one
\* comes back from its zigzag.
WordsComeBack(v) ==
  LET bs == WriteVarint[v]
  IN  /\ PeekVarint(bs) = Number("value", v, Len(bs))
      /\ \A k \in 0..(Len(bs) - 1) : PeekVarint(Take(bs, k)).kind = "more"
NeverWraps(bs) ==
  LET r == PeekVarint(bs)
      n == Min({i \in 1..Len(bs) : bs[i] < Group \/ i = Len(bs)})
  IN  /\ r.kind = "overlong" <=> Sum(Take(bs, n)) >= Word \/ n > FullGroups + 1
      /\ r.kind = "value" => r.value = Sum(Take(bs, n)) /\ r.bytes = n
SignsComeBack(v) == Zigzag(v) \in 0..(Word - 1) /\ Unzigzag(Zigzag(v)) = v
NumbersExact ==
  /\ \A v \in 0..(Word - 1) : WordsComeBack(v)
  /\ \A bs \in AnyBytes(FullGroups + 2) \ {<< >>} : NeverWraps(bs)
  /\ \A v \in -(Word \div 2)..(Word \div 2 - 1) : SignsComeBack(v)

\* Of a stream cut off at byte k the reader gets the texts whose frames are whole,
\* and says whether it ended inside one.
StreamSurvives(texts, k, pieces) ==
  LET ends == [i \in 0..Len(texts) |-> Len(EncodeStream(Take(texts, i)))]
      whole == Max({i \in 0..Len(texts) : ends[i] <= k})
  IN  ReadStream(pieces) = Loaded(Take(texts, whole), IF ends[whole] = k THEN "ok" ELSE "truncated")

\* How the reads cut a file does not matter, whatever is in it.
CutsDoNotMatter(pieces) ==
  /\ ReadStream(pieces) = ReadStream(<<FlattenSeq(pieces)>>)
  /\ IngestFile(pieces) = IngestFile(<<FlattenSeq(pieces)>>)

\* A reader that waits for more holds less than a tag, a number and a largest frame.
HoldsOneFrame(buf) ==
  StepOf(TRUE, buf).kind = "more" => Len(buf) < 1 + (FullGroups + 1) + MaxFrameLen

\* Of a recording cut off at byte k the whole segments are loaded, and no other
\* text; a damaged segment is dropped if it is the last, and else an error.
FileEnds(segments) == [i \in 0..Len(segments) |-> Len(Container(Take(segments, i)))]
FileSurvives(segments, k, pieces) ==
  LET whole == Max({i \in 0..Len(segments) : FileEnds(segments)[i] <= k})
  IN  IngestFile(pieces) = Loaded(FlattenSeq(Take(segments, whole)), "ok")
Damaged(segments, i) == [Container(segments) EXCEPT ![FileEnds(segments)[i - 1] + 3] = @ + 1]
DamageIsFound(segments, i, pieces) ==
  IngestFile(pieces) = Loaded(FlattenSeq(Take(segments, i - 1)),
                              IF i = Len(segments) THEN "ok" ELSE "corrupt")

\* Every end of two texts or of two segments, one of them damaged, and any few
\* bytes, in every cut by three reads.
BytesExact ==
  /\ \A texts \in UNION {[1..n -> ShortTexts] : n \in 0..2} :
       \A k \in 2..Len(EncodeStream(texts)) :
         \A pieces \in Pieces(Take(EncodeStream(texts), k)) : StreamSurvives(texts, k, pieces)
  /\ \A bs \in AnyBytes(4) :
       /\ \A pieces \in Pieces(<<Magic, Version>> \o bs) : CutsDoNotMatter(pieces)
       /\ \A n \in 0..MaxFrameLen : HoldsOneFrame(<<StrPool>> \o bs \o [i \in 1..n |-> 0])
  /\ \A segments \in UNION {[1..n -> ShortSegments] : n \in 0..2} :
       /\ \A k \in 2..Len(Container(segments)) :
            \A pieces \in Pieces(Take(Container(segments), k)) : FileSurvives(segments, k, pieces)
       /\ \A i \in 1..Len(segments) :
            \A pieces \in Pieces(Damaged(segments, i)) : DamageIsFound(segments, i, pieces)

\* Both are facts about constants: what TLC looks at in the first state, and in the
\* first step (its statistics of an invariant unfold every definition it rests on).
NumbersRead == Init => NumbersExact
BytesRead == [][Init => BytesExact]_vars
=============================================================================
