------------------------------ MODULE Timeline ------------------------------
(***************************************************************************)
(* The row store kept by the DB thread (struct Timeline of db.rs): the     *)
(* columnar frame `df`, the mirror `starts` of its start column used for   *)
(* binary searches, the `sorted` / `max_end` bookkeeping that decides      *)
(* whether a binary search is allowed, the eviction of the oldest rows     *)
(* past the live cap, and the queries that read all of it.                 *)
(*                                                                         *)
(* A row keeps the fields the properties tell apart: greenlet, start and   *)
(* duration; names, functions, tasks and stacks are left out.  Times are   *)
(* nanoseconds in the code and small naturals here.  Rows lie below 2^63   *)
(* ns (292 years), so their u64 -> i64 casts are exact.  The instants of a *)
(* query come from the viewer and may be any u64: those of a window or a   *)
(* tail are clamped to i64 (ToI64), those of a detail lookup are cast as   *)
(* they are and wrap (AsI64).                                              *)
(***************************************************************************)
EXTENDS Integers, Sequences, FiniteSets

CONSTANTS
  Gids,          \* greenlet identities
  Starts,        \* the start times rows are made of
  Durs,          \* the durations rows are made of
  FlushRows,     \* FLUSH_ROWS: pending rows that force an append
  MaxBatch,      \* bound: rows in one ingested batch
  MaxRows,       \* bound: rows held while the session is uncapped
  Capped,        \* Db::spawn was given a row cap (live view only)
  CapRows,       \* that cap
  AppendMayFail, \* Polars may refuse a batch (build_df or vstack_mut error)
  I64Max,        \* i64::MAX
  Tolerance,     \* the 2 ms by which detail trusts a start it is asked about
  Asked,         \* the instants queries ask about
  Caps           \* the row limits queries carry

ASSUME TimelineAssumption ==
  /\ Starts \subseteq Nat
  /\ Durs \subseteq Nat
  /\ FlushRows \in Nat \ {0}
  /\ MaxBatch \in Nat \ {0}
  /\ MaxRows \in Nat
  /\ Capped \in BOOLEAN
  /\ CapRows \in Nat \ {0}
  /\ AppendMayFail \in BOOLEAN
  /\ I64Max \in Nat
  /\ \A start \in Starts, dur \in Durs : start + dur < I64Max
  /\ Tolerance \in 0..I64Max
  /\ Asked \subseteq 0..(2 * I64Max + 1)   \* any u64
  /\ Caps \subseteq Nat

VARIABLES
  pending,       \* rows received, not yet appended to the frame
  df,            \* the frame, oldest ingested row first
  starts,        \* start of every row of df, 1:1
  sorted,        \* no row so far started before the end of an earlier one
  maxEnd,        \* max row end appended so far (-1 stands for i64::MIN)
  retainedFrom   \* published retention horizon

store == <<df, starts, sorted, maxEnd, retainedFrom>>
vars == <<pending, df, starts, sorted, maxEnd, retainedFrom>>

Row == [gid : Gids, start : Starts, dur : Durs]

EndOf(row) == row.start + row.dur

-----------------------------------------------------------------------------
(* Appending and evicting (flush_pending). *)

\* Rows kept once the cap is enforced: eviction drops from the front.
Newest(s) ==
  IF Capped /\ Len(s) > CapRows
  THEN SubSeq(s, Len(s) - CapRows + 1, Len(s))
  ELSE s

StartsOf(batch) == [i \in 1..Len(batch) |-> batch[i].start]

\* Mutant of InOrder: compares starts with starts, so overlaps pass.
InOrderByStart(batch) ==
  \A i \in 1..Len(batch) :
    /\ starts # << >> => batch[i].start >= starts[Len(starts)]
    /\ \A j \in 1..(i - 1) : batch[i].start >= batch[j].start

\* Mutant of InOrder: max_end is read once per batch.
InOrderAcrossBatches(batch) ==
  \A i \in 1..Len(batch) : batch[i].start >= maxEnd

\* Mutant of InOrder: a row may not begin at the very end of another.
InOrderStrict(batch) ==
  \A i \in 1..Len(batch) :
    /\ maxEnd > 0 => batch[i].start > maxEnd
    /\ \A j \in 1..(i - 1) : batch[i].start > EndOf(batch[j])

\* No row of the batch starts before the end of anything appended before it.
InOrder(batch) ==
  \A i \in 1..Len(batch) :
    /\ batch[i].start >= maxEnd
    /\ \A j \in 1..(i - 1) : batch[i].start >= EndOf(batch[j])

\* The latest end once the batch is in.
Ends(batch) == {maxEnd} \cup {EndOf(batch[i]) : i \in 1..Len(batch)}
MaxEndAfter(batch) == {e \in Ends(batch) : \A f \in Ends(batch) : e >= f}

\* Mutant of HorizonOf: the front row whatever the order.
HorizonAtFront(ss, isSorted) == {ss[1]}

\* The horizon published for a start column: its front when sorted, else its minimum.
HorizonOf(ss, isSorted) ==
  IF isSorted
  THEN {ss[1]}
  ELSE {s \in {ss[i] : i \in 1..Len(ss)} : \A i \in 1..Len(ss) : s <= ss[i]}

\* Mutant of AppendBatch: publishes the horizon before it evicts.
AppendBatchEarlyHorizon(batch) ==
  /\ df' = Newest(df \o batch)
  /\ starts' = Newest(starts \o StartsOf(batch))
  /\ sorted' = (sorted /\ InOrder(batch))
  /\ maxEnd' \in MaxEndAfter(batch)
  /\ IF Capped
     THEN retainedFrom' \in HorizonOf(starts \o StartsOf(batch), sorted')
     ELSE UNCHANGED retainedFrom

\* The batch reaches the frame: extend the mirror and the order bookkeeping,
\* evict past the cap, publish the horizon.
AppendBatch(batch) ==
  /\ df' = Newest(df \o batch)
  /\ starts' = Newest(starts \o StartsOf(batch))
  /\ sorted' = (sorted /\ InOrder(batch))
  /\ maxEnd' \in MaxEndAfter(batch)
  /\ IF Capped
     THEN retainedFrom' \in HorizonOf(starts', sorted')
     ELSE UNCHANGED retainedFrom

\* Polars refuses the batch: it is dropped and nothing else moves.
DropBatch == AppendMayFail /\ UNCHANGED store

\* Mutant of FlushPending: extends the mirror before Polars accepts the batch.
FlushPendingMirrorFirst(rows) ==
  /\ pending' = << >>
  /\ IF rows = << >> THEN UNCHANGED store
     ELSE \/ AppendBatch(rows)
          \/ /\ AppendMayFail
             /\ starts' = starts \o StartsOf(rows)
             /\ UNCHANGED <<df, sorted, maxEnd, retainedFrom>>

\* flush_pending on the given pending rows.
FlushPending(rows) ==
  /\ pending' = << >>
  /\ IF rows = << >> THEN UNCHANGED store
     ELSE AppendBatch(rows) \/ DropBatch

-----------------------------------------------------------------------------
(* Queries. A reply is [rows, capped]; rows keep the frame's order. *)

Reply(rows, capped) == [rows |-> rows, capped |-> capped]
Slice(offset, len) == SubSeq(df, offset + 1, offset + len)
AtLeastZero(n) == IF n < 0 THEN 0 ELSE n
Smaller(a, b) == IF a <= b THEN a ELSE b
Larger(a, b) == IF a >= b THEN a ELSE b

\* partition_point(v < t): the binary search stops at a place where the start
\* before it is below t and the start after it is not.
IsCut(k, t) ==
  /\ k > 0 => starts[k] < t
  /\ k < Len(starts) => starts[k + 1] >= t
CountBefore(t) == CHOOSE k \in 0..Len(starts) : IsCut(k, t)
\* Mutant of CountUpTo: partition_point(v < t) where v <= t is meant.
CountUpToExclusive(t) == CountBefore(t)
CountUpTo(t) == CountBefore(t + 1)

\* What a window means: it is half-open at both ends.
Overlaps(row, t0, t1) == row.start < t1 /\ EndOf(row) > t0

\* A bare `as i64` of a u64: it wraps (also a mutant of ToI64).
AsI64(t) == IF t > I64Max THEN t - 2 * (I64Max + 1) ELSE t
\* The clamping conversion.
ToI64(t) == Smaller(t, I64Max)

\* The predicate the scans evaluate on the i64 columns (overlaps).
OverlapsI64(row, t0, t1) == row.start < ToI64(t1) /\ EndOf(row) > ToI64(t0)

\* The rows at a set of places, in the order of the frame.
Nth(places, k) == CHOOSE p \in places : Cardinality({q \in places : q <= p}) = k
RowsAt(places) == [k \in 1..Cardinality(places) |-> df[Nth(places, k)]]

\* The first matches of a filtered scan; one more than the cap flags truncation.
Scan(Matches(_), cap) ==
  LET found == RowsAt({i \in 1..Len(df) : Matches(df[i])})
  IN  Reply(SubSeq(found, 1, Smaller(Len(found), cap)), Len(found) > cap)

WindowHi(t1) == CountBefore(t1)
\* Mutant of WindowLo: forgets the row straddling t0.
WindowLoNoStraddle(t0, t1) == Smaller(CountUpTo(t0), WindowHi(t1))
WindowLo(t0, t1) == Smaller(AtLeastZero(CountUpTo(t0) - 1), WindowHi(t1))

\* Mutant of WindowContiguous: cuts the centre out without saying so.
WindowContiguousSilent(t0, t1, cap) ==
  LET lo == WindowLo(t0, t1)
      n  == WindowHi(t1) - lo
  IN  IF n > cap THEN Reply(Slice(lo + (n - cap) \div 2, cap), FALSE)
                 ELSE Reply(Slice(lo, n), FALSE)

\* From the row straddling t0 up to the first row starting at or after t1;
\* over the cap, the centre of that range.
WindowContiguous(t0, t1, cap) ==
  LET lo == WindowLo(t0, t1)
      n  == WindowHi(t1) - lo
  IN  IF n > cap THEN Reply(Slice(lo + (n - cap) \div 2, cap), TRUE)
                 ELSE Reply(Slice(lo, n), FALSE)

WindowScan(t0, t1, cap) == Scan(LAMBDA row : OverlapsI64(row, t0, t1), cap)

Window(t0, t1, cap) ==
  IF sorted THEN WindowContiguous(t0, t1, cap) ELSE WindowScan(t0, t1, cap)

\* Rows starting strictly after `from` and before t1, the live-follow tail.
IsTail(row, from, t1) == from < row.start /\ row.start < t1

TailContiguous(from, t1, cap) ==
  LET begin == CountUpTo(from)
      n     == AtLeastZero(CountBefore(t1) - begin)
  IN  Reply(Slice(begin, Smaller(n, cap)), n > cap)

\* Mutant of TailScan: limits to the cap itself, so an exact fit looks truncated.
TailScanWithoutProbe(from, t1, cap) ==
  LET found == RowsAt({i \in 1..Len(df) : IsTail(df[i], ToI64(from), ToI64(t1))})
  IN  Reply(SubSeq(found, 1, Smaller(Len(found), cap)), Len(found) >= cap)

TailScan(from, t1, cap) == Scan(LAMBDA row : IsTail(row, ToI64(from), ToI64(t1)), cap)

TailFrame(from, t1, cap) ==
  IF sorted THEN TailContiguous(from, t1, cap) ELSE TailScan(from, t1, cap)

\* saturating_add and saturating_sub: the result stays an i64.
Saturated(n) == IF n > I64Max THEN I64Max ELSE IF n < -(I64Max + 1) THEN -(I64Max + 1) ELSE n

\* Mutant of Radius: the start is trusted as far as the row is long.
RadiusOfDur(dur) == AsI64(dur)

\* How far from the asked instant a start may lie.
Radius(dur) == AsI64(Larger(dur, Tolerance))
DetailLo(at, dur) == Saturated(AsI64(at) - Radius(dur))
DetailHi(at, dur) == Saturated(AsI64(at) + Radius(dur))

\* The rows of one greenlet that start in a range.
IsNear(row, gid, lo, hi) == row.gid = gid /\ lo <= row.start /\ row.start <= hi

\* The places of the candidates: of a binary-searched range, or of them all.
DetailCandidates(gid, at, dur) ==
  LET lo == DetailLo(at, dur)
      hi == DetailHi(at, dur)
  IN  IF sorted THEN {i \in (CountBefore(lo) + 1)..CountUpTo(hi) : df[i].gid = gid}
                ELSE {i \in 1..Len(df) : IsNear(df[i], gid, lo, hi)}

Distance(a, b) == IF a >= b THEN a - b ELSE b - a

\* The first candidate at the smallest distance; none gives the empty answer.
Detail(gid, at, dur) ==
  LET c == DetailCandidates(gid, at, dur)
      d(i) == Distance(df[i].start, AsI64(at))
  IN  {df[i] : i \in {k \in c : \A j \in c : d(k) <= d(j) /\ (j < k => d(k) < d(j))}}

-----------------------------------------------------------------------------
Init ==
  /\ pending = << >>
  /\ df = << >>
  /\ starts = << >>
  /\ sorted = TRUE
  /\ maxEnd = -1
  /\ retainedFrom = 0

\* Bound: an uncapped session stops growing at MaxRows.
HasRoom(n) == Capped \/ Len(df) + Len(pending) + n <= MaxRows

\* Cmd::Executions: queue the batch, append at once when enough is queued.
Receive(batch) ==
  /\ HasRoom(Len(batch))
  /\ IF Len(pending) + Len(batch) >= FlushRows
     THEN FlushPending(pending \o batch)
     ELSE pending' = pending \o batch /\ UNCHANGED store

Batches == UNION {[1..n -> Row] : n \in 1..MaxBatch}

\* The idle timeout, a query or a recording flush appends what is queued.
Flush == pending # << >> /\ FlushPending(pending)

Next == (\E batch \in Batches : Receive(batch)) \/ Flush

Spec == Init /\ [][Next]_vars

-----------------------------------------------------------------------------
(* Properties. *)

TypeOK ==
  /\ pending \in Seq(Row)
  /\ df \in Seq(Row)
  /\ starts \in Seq(Starts)
  /\ sorted \in BOOLEAN
  /\ maxEnd \in Nat \cup {-1}
  /\ retainedFrom \in Nat

\* The start mirror stays row for row the start column of the frame, through
\* refused batches and evictions ("keeps the 1:1 starts<->rows invariant").
Aligned ==
  /\ Len(starts) = Len(df)
  /\ \A i \in 1..Len(df) : starts[i] = df[i].start

\* While `sorted` is up, no two held rows overlap and the frame is in start
\* order: the contract every binary-searched query path relies on.
SortedContract ==
  sorted => \A i, j \in 1..Len(df) : i < j => EndOf(df[i]) <= df[j].start

\* No held row ends after max_end, so the next out-of-order row is noticed
\* even when the row it conflicts with was appended long ago.
MaxEndCovers == \A i \in 1..Len(df) : EndOf(df[i]) <= maxEnd

\* The horizon shown to the viewer is the start of the oldest row still held,
\* and an uncapped session never publishes one.
HorizonExact ==
  IF Capped
  THEN df # << >> => /\ \E i \in 1..Len(df) : df[i].start = retainedFrom
                     /\ \A i \in 1..Len(df) : retainedFrom <= df[i].start
  ELSE retainedFrom = 0

\* Eviction from a sorted frame only discards what lies behind the horizon the
\* viewer is told about: a row still running at the horizon is never lost.
EvictionBehindHorizon ==
  [][Capped /\ sorted' =>
       \A i \in 1..Len(df) :
         EndOf(df[i]) > retainedFrom' => \E k \in 1..Len(df') : df'[k] = df[i]]_vars

\* A binary-searched window range holds every overlapping row, and only its
\* first row may fail to overlap.
WindowRange ==
  \A t0, t1 \in Asked, i \in 1..Len(df) :
    LET lo == WindowLo(t0, t1)
        hi == WindowHi(t1)
    IN  /\ Overlaps(df[i], t0, t1) => lo < i /\ i <= hi
        /\ lo + 1 < i /\ i <= hi => Overlaps(df[i], t0, t1)

\* A binary-searched tail range is exactly the rows past the frontier.
TailRange ==
  \A from, t1 \in Asked, i \in 1..Len(df) :
    IsTail(df[i], from, t1) <=> CountUpTo(from) < i /\ i <= CountBefore(t1)

\* As long as `sorted` is up, the two binary searches select the right rows:
\* "the execution straddling t0 up to (not incl.) the first execution starting
\* at/after t1", and the rows strictly past the frontier of a tail.
RangesExact == sorted => WindowRange /\ TailRange

\* How many rows truly match: the reference every reply is held against.
Matching(Matches(_)) == Cardinality({i \in 1..Len(df) : Matches(df[i])})

\* On either path a reply is as long as the smaller of the cap and the true
\* number of matches (a sorted window may carry one row more), and `capped` is
\* raised exactly when something was cut off: the viewer never takes a
\* truncated window for a complete one. It holds for any u64 a viewer asks
\* about, "so a u64::MAX sentinel can't wrap negative and exclude everything".
TruncationHonest ==
  \A t0, t1 \in Asked, cap \in Caps :
    LET w  == Window(t0, t1, cap)
        wn == Matching(LAMBDA row : Overlaps(row, t0, t1))
        t  == TailFrame(t0, t1, cap)
        tn == Matching(LAMBDA row : IsTail(row, t0, t1))
    IN  /\ Len(w.rows) <= cap /\ Len(t.rows) <= cap
        /\ wn > cap => w.capped
        /\ w.capped => wn + (IF sorted THEN 1 ELSE 0) > cap
        /\ ~w.capped => Len(w.rows) - wn \in {0, IF sorted THEN 1 ELSE 0}
        /\ t.capped <=> tn > cap
        /\ ~t.capped => Len(t.rows) = tn

\* The viewer asks about a row by its greenlet, its length and a start that is
\* rounded. "the row of `gid` whose start is nearest `start_ns`, within
\* +-max(dur_ns, 2ms)": whichever of the two lookup paths answers, there is an
\* answer when there is such a row, and it is one at the smallest distance. That
\* holds for any start and length below 2^63; a greater length wraps to a
\* negative radius and finds nothing.
DetailFindsRow ==
  \A gid \in Gids, at, dur \in Asked :
    LET found == Detail(gid, at, dur)
        Far(i) == Distance(df[i].start, at)
        near == {i \in 1..Len(df) : df[i].gid = gid /\ Far(i) <= Larger(dur, Tolerance)}
    IN  /\ at <= I64Max /\ dur <= I64Max =>
             /\ near # {} => found # {}
             /\ \A row \in found :
                  \E i \in near : row = df[i] /\ \A j \in near : Far(i) <= Far(j)
        /\ dur > I64Max => found = {}
=============================================================================
