-------------------------- MODULE LiveFollowProofs --------------------------
(***************************************************************************)
(* Machine-checked theorems about LiveFollow: the composition drives the   *)
(* row store only through its own operations, the guard against a second   *)
(* request never outlives the request, a detach is told but for one        *)
(* window, and what the viewer holds has neither duplicates nor holes.     *)
(***************************************************************************)
EXTENDS LiveFollow, TimelineProofs

-----------------------------------------------------------------------------
(* The row store under the viewer is a Timeline. *)

LEMMA FlushOrNot == FlushPending(pending) => [Next]_vars
<1> SUFFICES ASSUME FlushPending(pending) PROVE [Next]_vars
  OBVIOUS
<1>1. CASE pending = << >>
  BY <1>1 DEF FlushPending, store, vars
<1>2. CASE pending # << >>
  BY <1>2 DEF Flush, Next
<1>3. QED  BY <1>1, <1>2

LEMMA LiveStep == [LiveNext]_liveVars => [Next]_vars
<1> SUFFICES ASSUME [LiveNext]_liveVars PROVE [Next]_vars
  OBVIOUS
<1>1. ASSUME NEW row \in Row, Ingest(row) PROVE [Next]_vars
  <2>1. <<row>> \in [1..1 -> Row] /\ 1 \in 1..MaxBatch
    BY TimelineAssumption
  <2>2. <<row>> \in Batches
    BY <2>1 DEF Batches
  <2>3. Receive(<<row>>)
    BY <1>1 DEF Ingest
  <2>4. QED  BY <2>2, <2>3 DEF Next
<1>2. CASE Answer \/ LoseReply \/ ApplyStale
  BY <1>2, FlushOrNot DEF Answer, LoseReply, ApplyStale
<1>3. CASE \/ Request \/ Redraw \/ (\E right \in PanTo : Pan(right)) \/ ToggleFollow
           \/ Tick \/ Monitor \/ Detach \/ Apply \/ PushHead \/ Status
           \/ Drop \/ Open \/ Meta \/ EnterLoop
  BY <1>3 DEF Request, Redraw, Pan, ToggleFollow, Tick, Monitor, Detach, Apply, PushHead,
              Status, Drop, Open, Meta, EnterLoop
<1>4. CASE UNCHANGED liveVars
  BY <1>4 DEF liveVars
<1>5. QED  BY <1>1, <1>2, <1>3, <1>4 DEF LiveNext

\* Whatever the server and the viewer do, the row store takes no step but its
\* own: every theorem about it holds under a live session (flush_pending, which
\* a query runs before it reads).
THEOREM LiveStoreIsTimeline == LiveSpec => Spec
<1>1. LiveInit => Init
  BY DEF LiveInit
<1>2. QED  BY <1>1, LiveStep, PTL DEF LiveSpec, Spec

LEMMA StoreInvariance == LiveSpec => []IInv
  BY LiveStoreIsTimeline, Invariance, PTL

-----------------------------------------------------------------------------
(* The guard against a second request. *)

LEMMA GuardStep == GuardHonest /\ [LiveNext]_liveVars => GuardHonest'
<1> SUFFICES ASSUME GuardHonest, [LiveNext]_liveVars PROVE GuardHonest'
  OBVIOUS
<1> USE DEF GuardHonest, NoFlight
<1>1. CASE Request
  <2>1. CASE socket = "down"
    BY <1>1, <2>1 DEF Request
  <2>2. CASE socket # "down"
    <3>1. \E query : flight' = [stage |-> "asked", query |-> query]
      BY <1>1, <2>2 DEF Request, Send
    <3>2. QED  BY <3>1
  <2>3. QED  BY <2>1, <2>2
<1>2. CASE Answer
  <2>1. PICK query : flight' = Answered(query)'
    BY <1>2 DEF Answer
  <2>2. Answered(query)'.stage = "answered"
    BY DEF Answered
  <2>3. QED  BY <2>1, <2>2
<1>3. CASE LoseReply
  BY <1>3 DEF LoseReply, viewer
<1>4. CASE Apply \/ ApplyStale
  BY <1>4 DEF Apply, ApplyStale
<1>5. CASE Drop \/ Open \/ Meta
  BY <1>5 DEF Drop, Open, Meta
<1>6. CASE EnterLoop
  BY <1>6 DEF EnterLoop, viewer
<1>7. CASE \/ Redraw \/ (\E right \in PanTo : Pan(right)) \/ ToggleFollow
           \/ (\E row \in Row : Ingest(row)) \/ Tick \/ Monitor \/ Detach
           \/ PushHead \/ Status
  BY <1>7 DEF Redraw, Pan, ToggleFollow, Ingest, Tick, Monitor, Detach, PushHead, Status, viewer
<1>8. CASE UNCHANGED liveVars
  BY <1>8 DEF liveVars, viewer
<1>9. QED
  BY <1>1, <1>2, <1>3, <1>4, <1>5, <1>6, <1>7, <1>8 DEF LiveNext

\* Nothing that happens before or during a reconnection leaves the viewer's
\* guard up without a request that is outstanding or lost (vpInFlight).
THEOREM GuardIsHonest == LiveSpec => []GuardHonest
<1>1. LiveInit => GuardHonest
  BY DEF LiveInit, GuardHonest
<1>2. QED  BY <1>1, GuardStep, PTL DEF LiveSpec

-----------------------------------------------------------------------------
(* What the variables range over. *)

Query == [append : BOOLEAN, from : Nat, t0 : Nat, t1 : Nat]
Asks == [stage : {"asked"}, query : Query]
Replies == [stage : {"answered"}, query : Query, rows : Seq(Row), capped : BOOLEAN,
            sorted : BOOLEAN, span : Nat]
Buffer == [rows : Seq(Row), cursor : Nat, lo : Nat, hi : Int, capped : BOOLEAN,
           lastSorted : BOOLEAN]

ServerTypes ==
  /\ now \in Nat
  /\ counters \in [total : Nat, span : Nat, origin : Nat]
  /\ detached \in BOOLEAN /\ tracerQuiet \in BOOLEAN
  /\ pushed \in [head : Nat \X Nat \X BOOLEAN, detached : BOOLEAN]

ViewTypes ==
  /\ known \in [live : BOOLEAN, stalled : BOOLEAN, span : Nat, origin : Nat]
  /\ view \in [follow : BOOLEAN, right : Nat, width : Nat]

FlightTypes == flight \in {NoFlight, [stage |-> "lost"]} \cup Asks \cup Replies

LiveTypes == ServerTypes /\ ViewTypes /\ FlightTypes /\ buf \in Buffer

LEMMA FlightIs ==
  ASSUME FlightTypes
  PROVE  /\ flight.stage = "asked" => flight \in Asks
         /\ flight.stage = "answered" => flight \in Replies
BY DEF FlightTypes, NoFlight, Asks, Replies

LEMMA ViewIs ==
  ASSUME ServerTypes, ViewTypes, buf \in Buffer
  PROVE  Right \in Nat /\ VisT0 \in Nat /\ VisT1 \in Nat /\ NextQuery \in Query
<1>1. /\ now \in Nat /\ known.span \in Nat /\ known.origin \in Nat
      /\ view.right \in Nat /\ view.width \in Nat /\ buf.cursor \in Nat
  BY DEF ServerTypes, ViewTypes, Buffer
<1>2. LiveEdge(known) \in Nat
  BY <1>1 DEF LiveEdge, Larger
<1>3. Right \in Nat
  BY <1>1, <1>2 DEF Right, Smaller
<1>4. VisT0 \in Nat /\ VisT1 \in Nat
  BY <1>1, <1>3 DEF VisT0, VisT1, AtLeastZero
<1>5. TailQuery \in Query
  BY <1>1, <1>4, LiveFollowAssumption DEF TailQuery, Query
<1>6. WindowQuery \in Query
  <2> DEFINE margin == IF buf.capped THEN CappedMargin ELSE Larger(VisT1 - VisT0, 1)
  <2>1. margin \in Nat
    BY <1>4, LiveFollowAssumption DEF Larger
  <2>2. WindowQuery = [append |-> FALSE, from |-> 0, t0 |-> AtLeastZero(VisT0 - margin),
                       t1 |-> VisT1 + margin]
    BY DEF WindowQuery
  <2> HIDE DEF margin
  <2>3. AtLeastZero(VisT0 - margin) \in Nat /\ VisT1 + margin \in Nat
    BY <1>4, <2>1 DEF AtLeastZero
  <2>4. QED  BY <2>2, <2>3 DEF Query
<1>7. QED  BY <1>3, <1>4, <1>5, <1>6 DEF NextQuery

\* The latest of some numbers and a floor, and the earliest of some numbers.
LEMMA LatestIs ==
  ASSUME NEW n \in Nat, NEW f \in [1..n -> Nat], NEW floor \in Nat
  PROVE  LET S == {f[i] : i \in 1..n}
         IN  /\ LatestOf(S, floor) \in S \cup {floor}
             /\ LatestOf(S, floor) \in Nat /\ LatestOf(S, floor) >= floor
             /\ \A i \in 1..n : f[i] <= LatestOf(S, floor)
<1> DEFINE S == {f[i] : i \in 1..n}
           T == S \cup {floor}
<1>1. \A i \in 1..n : f[i] \in Nat
  OBVIOUS
<1>2. T \in SUBSET Nat /\ T # {}
  BY <1>1
<1>3. PICK B \in Nat : \A i \in 1..n : f[i] <= B
  BY BoundOf
<1>4. B + floor \in Nat /\ \A m \in T : m <= B + floor
  BY <1>1, <1>3
<1>5. \E m \in T : \A k \in T : k <= m
  <2> HIDE DEF T
  <2>1. QED  BY <1>2, <1>4, GreatestOf
<1>6. LatestOf(S, floor) \in T /\ \A k \in T : k <= LatestOf(S, floor)
  BY <1>5 DEF LatestOf
<1>7. QED  BY <1>1, <1>2, <1>6

LEMMA StartsAre ==
  ASSUME NEW rows \in Seq(Row), NEW floor \in Nat
  PROVE  /\ LatestOf(StartsIn(rows), floor) \in StartsIn(rows) \cup {floor}
         /\ LatestOf(StartsIn(rows), floor) \in Nat
         /\ LatestOf(StartsIn(rows), floor) >= floor
         /\ \A i \in 1..Len(rows) : rows[i].start <= LatestOf(StartsIn(rows), floor)
<1> DEFINE n == Len(rows)
           f == [i \in 1..n |-> rows[i].start]
<1>1. n \in Nat /\ \A i \in 1..n : rows[i].start \in Nat
  BY LenProperties, ElementOfSeq, RowType
<1>2. f \in [1..n -> Nat] /\ \A i \in 1..n : f[i] = rows[i].start
  BY <1>1
<1> DEFINE S == {f[i] : i \in 1..n}
<1>3. StartsIn(rows) = S
  BY <1>2 DEF StartsIn
<1> HIDE DEF f, n
<1>4. /\ LatestOf(S, floor) \in S \cup {floor}
      /\ LatestOf(S, floor) \in Nat /\ LatestOf(S, floor) >= floor
      /\ \A i \in 1..n : f[i] <= LatestOf(S, floor)
  <2>1. n \in Nat /\ f \in [1..n -> Nat]
    BY <1>1, <1>2
  <2>2. QED  BY <2>1, LatestIs
<1> HIDE DEF S
<1>5. \A i \in 1..n : rows[i].start <= LatestOf(S, floor)
  BY <1>2, <1>4
<1>6. QED  BY <1>3, <1>4, <1>5 DEF n

LEMMA EndsAre ==
  ASSUME NEW rows \in Seq(Row), NEW floor \in Nat
  PROVE  /\ LatestOf(EndsIn(rows), floor) \in EndsIn(rows) \cup {floor}
         /\ LatestOf(EndsIn(rows), floor) \in Nat
         /\ \A i \in 1..Len(rows) : EndOf(rows[i]) <= LatestOf(EndsIn(rows), floor)
<1> DEFINE n == Len(rows)
           f == [i \in 1..n |-> EndOf(rows[i])]
<1>1. n \in Nat /\ \A i \in 1..n : EndOf(rows[i]) \in Nat
  BY LenProperties, ElementOfSeq, RowType
<1>2. f \in [1..n -> Nat] /\ \A i \in 1..n : f[i] = EndOf(rows[i])
  BY <1>1
<1> DEFINE S == {f[i] : i \in 1..n}
<1>3. EndsIn(rows) = S
  BY <1>2 DEF EndsIn
<1> HIDE DEF f, n
<1>4. /\ LatestOf(S, floor) \in S \cup {floor}
      /\ LatestOf(S, floor) \in Nat /\ LatestOf(S, floor) >= floor
      /\ \A i \in 1..n : f[i] <= LatestOf(S, floor)
  <2>1. n \in Nat /\ f \in [1..n -> Nat]
    BY <1>1, <1>2
  <2>2. QED  BY <2>1, LatestIs
<1> HIDE DEF S
<1>5. \A i \in 1..n : EndOf(rows[i]) <= LatestOf(S, floor)
  BY <1>2, <1>4
<1>6. QED  BY <1>3, <1>4, <1>5 DEF n

LEMMA EarliestIs ==
  ASSUME NEW rows \in Seq(Row), rows # << >>
  PROVE  /\ EarliestOf(StartsIn(rows)) \in StartsIn(rows)
         /\ EarliestOf(StartsIn(rows)) \in Nat
<1> DEFINE S == StartsIn(rows)
<1>1. Len(rows) \in Nat /\ Len(rows) # 0 /\ \A i \in 1..Len(rows) : rows[i].start \in Nat
  BY LenProperties, EmptySeq, ElementOfSeq, RowType
<1>2. 1 \in 1..Len(rows)
  BY <1>1
<1>3. S \in SUBSET Nat /\ S # {}
  BY <1>1, <1>2 DEF StartsIn
<1> HIDE DEF S
<1>4. \E m \in S : \A n \in S : m <= n
  BY <1>3, LeastOf
<1>5. EarliestOf(S) \in S
  BY <1>4 DEF EarliestOf
<1>6. QED  BY <1>3, <1>5 DEF S

\* What the server answers, in the state it answers in.
LEMMA AnsweredType == IInv /\ ServerTypes => \A query \in Query : Answered(query) \in Replies
<1> SUFFICES ASSUME IInv, ServerTypes, NEW query \in Query
             PROVE  Answered(query) \in Replies
  OBVIOUS
<1> DEFINE reply == IF query.append THEN TailFrame(query.from, query.t1, WinCap)
                                    ELSE Window(query.t0, query.t1, WinCap)
<1>1. /\ query.append \in BOOLEAN /\ query.from \in Nat /\ query.t0 \in Nat
      /\ query.t1 \in Nat /\ WinCap \in Nat
  BY LiveFollowAssumption DEF Query
<1>2. \E p : From(TailFrame(query.from, query.t1, WinCap), p)
  BY <1>1, TailPlacesOf
<1>3. \E p : From(Window(query.t0, query.t1, WinCap), p)
  BY <1>1, WindowPlacesOf
<1>4. \E p : From(reply, p)
  BY <1>1, <1>2, <1>3
<1>5. reply.rows \in Seq(Row) /\ reply.capped \in BOOLEAN
  BY <1>4 DEF From
<1>6. sorted \in BOOLEAN /\ counters.span \in Nat
  BY DEF IInv, TypeOK, ServerTypes
<1>7. Answered(query) = [stage |-> "answered", query |-> query, rows |-> reply.rows,
                         capped |-> reply.capped, sorted |-> sorted, span |-> counters.span]
  BY DEF Answered
<1> HIDE DEF reply
<1>8. QED  BY <1>5, <1>6, <1>7 DEF Replies

LEMMA AnsweredTypeNext ==
  IInv' /\ ServerTypes' => \A query \in Query : Answered(query)' \in Replies
<1>1. (IInv /\ ServerTypes => \A query \in Query : Answered(query) \in Replies)'
  BY AnsweredType, PTL
<1>2. QED  BY <1>1

LEMMA ReplyFields ==
  ASSUME NEW f \in Replies
  PROVE  /\ f.query \in Query /\ f.query.append \in BOOLEAN /\ f.query.from \in Nat
         /\ f.query.t0 \in Nat /\ f.query.t1 \in Nat
         /\ f.rows \in Seq(Row) /\ f.capped \in BOOLEAN /\ f.sorted \in BOOLEAN
         /\ f.span \in Nat
BY DEF Replies, Query

LEMMA BufferFields ==
  ASSUME buf \in Buffer
  PROVE  /\ buf.rows \in Seq(Row) /\ buf.cursor \in Nat /\ buf.lo \in Nat
         /\ buf.hi \in Int /\ buf.capped \in BOOLEAN /\ buf.lastSorted \in BOOLEAN
BY DEF Buffer

\* What the viewer holds once it has taken a reply.
Landed(f) == IF f.query.append THEN Extended(f) ELSE Loaded(f)

LEMMA LoadedFields ==
  ASSUME NEW f \in Replies
  PROVE  /\ Loaded(f) \in Buffer
         /\ Loaded(f).rows = f.rows
         /\ Loaded(f).cursor = LatestOf(StartsIn(f.rows), 0)
         /\ IF f.capped /\ f.rows # << >>
            THEN /\ Loaded(f).lo = EarliestOf(StartsIn(f.rows))
                 /\ Loaded(f).hi = LatestOf(EndsIn(f.rows), 0)
            ELSE Loaded(f).lo = f.query.t0 /\ Loaded(f).hi = f.query.t1
<1> DEFINE bounded == f.capped /\ f.rows # << >>
           cursor == LatestOf(StartsIn(f.rows), 0)
           lo == IF bounded THEN EarliestOf(StartsIn(f.rows)) ELSE f.query.t0
           hi == IF bounded THEN LatestOf(EndsIn(f.rows), 0) ELSE f.query.t1
<1>1. Loaded(f) = [rows |-> f.rows, cursor |-> cursor, lo |-> lo, hi |-> hi,
                   capped |-> f.capped, lastSorted |-> f.sorted]
  BY DEF Loaded
<1>2. /\ f.rows \in Seq(Row) /\ f.query.t0 \in Nat /\ f.query.t1 \in Nat
      /\ f.capped \in BOOLEAN /\ f.sorted \in BOOLEAN
  BY ReplyFields
<1>3. cursor \in Nat
  BY <1>2, StartsAre
<1>4. lo \in Nat
  BY <1>2, EarliestIs
<1>5. hi \in Int
  BY <1>2, EndsAre
<1>6. \/ bounded /\ lo = EarliestOf(StartsIn(f.rows)) /\ hi = LatestOf(EndsIn(f.rows), 0)
      \/ ~bounded /\ lo = f.query.t0 /\ hi = f.query.t1
  OBVIOUS
<1> HIDE DEF cursor, lo, hi
<1>7. Loaded(f) \in Buffer
  BY <1>1, <1>2, <1>3, <1>4, <1>5 DEF Buffer
<1>8. Loaded(f).rows = f.rows /\ Loaded(f).cursor = cursor /\ Loaded(f).lo = lo /\ Loaded(f).hi = hi
  BY <1>1
<1>9. QED  BY <1>6, <1>7, <1>8 DEF cursor

LEMMA ExtendedFields ==
  ASSUME NEW f \in Replies, buf \in Buffer
  PROVE  /\ Extended(f) \in Buffer
         /\ f.capped => /\ Extended(f).rows = buf.rows /\ Extended(f).cursor = buf.cursor
                        /\ Extended(f).lo = buf.lo /\ Extended(f).hi = buf.hi
         /\ ~f.capped => /\ Extended(f).rows = buf.rows \o f.rows
                         /\ Extended(f).cursor = LatestOf(StartsIn(f.rows), buf.cursor)
                         /\ Extended(f).lo = buf.lo
                         /\ Extended(f).hi = Larger(buf.hi, f.query.t1)
<1> DEFINE rows == buf.rows \o f.rows
           cursor == LatestOf(StartsIn(f.rows), buf.cursor)
           hi == Larger(buf.hi, f.query.t1)
<1>1. /\ f.rows \in Seq(Row) /\ f.query.t1 \in Nat
      /\ f.capped \in BOOLEAN /\ f.sorted \in BOOLEAN
      /\ buf.rows \in Seq(Row) /\ buf.cursor \in Nat /\ buf.hi \in Int
  BY ReplyFields, BufferFields
<1>2. rows \in Seq(Row)
  BY <1>1, ConcatProperties
<1>3. cursor \in Nat
  BY <1>1, StartsAre
<1>4. hi \in Int
  BY <1>1 DEF Larger
<1>5. f.capped => Extended(f) = [buf EXCEPT !.capped = TRUE, !.lastSorted = f.sorted]
  BY DEF Extended
<1>6. ~f.capped => Extended(f) = [buf EXCEPT !.rows = rows, !.cursor = cursor, !.hi = hi,
                                              !.lastSorted = f.sorted]
  BY DEF Extended
<1> HIDE DEF rows, cursor, hi
<1>7. CASE f.capped
  BY <1>1, <1>5, <1>7 DEF Buffer
<1>8. CASE ~f.capped
  <2>1. Extended(f) \in Buffer
    BY <1>1, <1>2, <1>3, <1>4, <1>6, <1>8 DEF Buffer
  <2>2. /\ Extended(f).rows = rows /\ Extended(f).cursor = cursor
        /\ Extended(f).lo = buf.lo /\ Extended(f).hi = hi
    BY <1>6, <1>8 DEF Buffer
  <2>3. QED  BY <1>8, <2>1, <2>2 DEF rows, cursor, hi
<1>9. QED  BY <1>1, <1>7, <1>8

-----------------------------------------------------------------------------
(* Type correctness of the composition. *)

LEMMA SpansTyped ==
  ASSUME IInv, NEW s \in Nat, NEW e \in SpansSince(s)
  PROVE  e \in Nat
<1>1. df \o pending \in Seq(Row)
  BY ConcatProperties DEF IInv, TypeOK
<1> DEFINE rows == df \o pending
<1>2. rows \in Seq(Row)
  BY <1>1
<1> HIDE DEF rows
<1>3. \A i \in 1..Len(rows) : EndOf(rows[i]) \in Nat
  BY <1>2, ElementOfSeq, RowType
<1>4. e \in EndsIn(rows) \cup {s}
  BY DEF SpansSince, rows
<1>5. QED  BY <1>3, <1>4 DEF EndsIn

LEMMA ServerTypesStep ==
  ASSUME LiveTypes, [LiveNext]_liveVars
  PROVE  ServerTypes'
<1> USE DEF LiveTypes, ServerTypes
<1>1. ASSUME NEW row \in Row, Ingest(row) PROVE ServerTypes'
  <2>1. row.start \in Nat /\ EndOf(row) \in Nat
    BY RowType
  <2>2. /\ counters.total + 1 \in Nat /\ Larger(counters.span, EndOf(row)) \in Nat
        /\ (IF counters.total = 0 THEN row.start ELSE counters.origin) \in Nat
    BY <2>1 DEF Larger
  <2>3. counters' \in [total : Nat, span : Nat, origin : Nat]
    BY <1>1, <2>2 DEF Ingest
  <2>4. QED  BY <1>1, <2>3 DEF Ingest
<1>2. CASE Tick
  BY <1>2 DEF Tick, server
<1>3. CASE Monitor \/ Detach
  BY <1>3 DEF Monitor, Detach
<1>4. CASE PushHead
  <2>1. <<counters.span, counters.total, tracerQuiet>> \in Nat \X Nat \X BOOLEAN
    OBVIOUS
  <2>2. pushed' \in [head : Nat \X Nat \X BOOLEAN, detached : BOOLEAN]
    BY <1>4, <2>1 DEF PushHead
  <2>3. QED  BY <1>4, <2>2 DEF PushHead, server
<1>5. CASE Status
  BY <1>5 DEF Status, server
<1>6. CASE EnterLoop
  <2>1. <<0, 0, FALSE>> \in Nat \X Nat \X BOOLEAN
    OBVIOUS
  <2>2. pushed' \in [head : Nat \X Nat \X BOOLEAN, detached : BOOLEAN]
    BY <1>6, <2>1 DEF EnterLoop
  <2>3. QED  BY <1>6, <2>2 DEF EnterLoop, server
<1>7. CASE \/ Request \/ Redraw \/ (\E right \in PanTo : Pan(right)) \/ ToggleFollow
           \/ Answer \/ LoseReply \/ Apply \/ ApplyStale \/ Drop \/ Open \/ Meta
  BY <1>7 DEF Request, Redraw, Pan, ToggleFollow, Answer, LoseReply, Apply, ApplyStale,
              Drop, Open, Meta, server
<1>8. CASE UNCHANGED liveVars
  BY <1>8 DEF liveVars, server
<1>9. QED
  BY <1>1, <1>2, <1>3, <1>4, <1>5, <1>6, <1>7, <1>8 DEF LiveNext

LEMMA ViewTypesStep ==
  ASSUME IInv, LiveTypes, [LiveNext]_liveVars
  PROVE  ViewTypes'
<1> USE DEF LiveTypes, ViewTypes
<1>0. Right \in Nat
  BY ViewIs
<1>1. CASE Request
  BY <1>0, <1>1 DEF Request
<1>2. CASE Redraw
  BY <1>0, <1>2 DEF Redraw
<1>3. ASSUME NEW right \in PanTo, Pan(right) PROVE ViewTypes'
  <2>1. right \in Nat
    BY LiveFollowAssumption
  <2>2. QED  BY <1>3, <2>1 DEF Pan
<1>4. Unfollowed \in [follow : BOOLEAN, right : Nat, width : Nat]
  BY <1>0 DEF Unfollowed
<1>5. CASE ToggleFollow
  BY <1>4, <1>5 DEF ToggleFollow
<1>6. CASE Apply
  <2>1. flight.span \in Nat
    BY <1>6, FlightIs, ReplyFields DEF Apply
  <2>2. PICK span \in SpansSince(flight.span) : known' = [known EXCEPT !.span = span]
    BY <1>6 DEF Apply
  <2>3. span \in Nat
    BY <2>1, <2>2, SpansTyped
  <2>4. QED  BY <1>6, <2>2, <2>3 DEF Apply
<1>7. CASE PushHead
  BY <1>7 DEF PushHead, ServerTypes
<1>8. CASE Status
  BY <1>4, <1>8 DEF Status, ServerTypes
<1>9. CASE Drop
  BY <1>4, <1>9 DEF Drop
<1>10. CASE Meta
  <2>1. known' \in [live : BOOLEAN, stalled : BOOLEAN, span : Nat, origin : Nat]
    BY <1>10 DEF Meta, ServerTypes
  <2>2. Fitted \in [follow : BOOLEAN, right : Nat, width : Nat]
    <3>1. Larger(view.width, counters.span) \in Nat
      BY DEF Larger, ServerTypes
    <3>2. QED  BY <3>1 DEF Fitted
  <2>3. QED  BY <1>10, <2>1, <2>2 DEF Meta
<1>11. CASE \/ (\E row \in Row : Ingest(row)) \/ Tick \/ Monitor \/ Detach
            \/ Answer \/ LoseReply \/ ApplyStale \/ Open \/ EnterLoop
  BY <1>11 DEF Ingest, Tick, Monitor, Detach, Answer, LoseReply, ApplyStale, Open,
               EnterLoop, viewer
<1>12. CASE UNCHANGED liveVars
  BY <1>12 DEF liveVars, viewer
<1>13. QED
  BY <1>1, <1>2, <1>3, <1>5, <1>6, <1>7, <1>8, <1>9, <1>10, <1>11, <1>12 DEF LiveNext

LEMMA FlightTypesStep ==
  ASSUME IInv', LiveTypes, ServerTypes', [LiveNext]_liveVars
  PROVE  FlightTypes' /\ (buf \in Buffer)'
<1> USE DEF LiveTypes, FlightTypes
<1>1. CASE Request
  <2>1. NextQuery \in Query
    BY ViewIs
  <2>2. flight' = flight \/ flight' = [stage |-> "asked", query |-> NextQuery]
    BY <1>1 DEF Request, Send
  <2>3. [stage |-> "asked", query |-> NextQuery] \in Asks
    BY <2>1 DEF Asks
  <2>4. QED  BY <1>1, <2>2, <2>3 DEF Request
<1>2. CASE Answer
  <2>1. flight.stage = "asked"
    BY <1>2 DEF Answer
  <2>2. flight.query \in Query
    BY <2>1, FlightIs DEF Asks
  <2>3. PICK query \in {flight.query} : flight' = Answered(query)'
    BY <1>2 DEF Answer
  <2>4. query \in Query
    BY <2>2
  <2>5. Answered(query)' \in Replies
    BY <2>4, AnsweredTypeNext
  <2>6. QED  BY <1>2, <2>3, <2>5 DEF Answer, viewer
<1>3. CASE LoseReply
  BY <1>3 DEF LoseReply, viewer
<1>4. CASE Apply
  <2>1. flight \in Replies
    BY <1>4, FlightIs DEF Apply
  <2>2. Extended(flight) \in Buffer /\ Loaded(flight) \in Buffer
    BY <2>1, LoadedFields, ExtendedFields
  <2>3. QED  BY <1>4, <2>2 DEF Apply
<1>5. CASE Drop
  BY <1>5 DEF Drop
<1>6. CASE \/ Redraw \/ (\E right \in PanTo : Pan(right)) \/ ToggleFollow
           \/ (\E row \in Row : Ingest(row)) \/ Tick \/ Monitor \/ Detach
           \/ ApplyStale \/ PushHead \/ Status \/ Open \/ Meta \/ EnterLoop
  BY <1>6 DEF Redraw, Pan, ToggleFollow, Ingest, Tick, Monitor, Detach, ApplyStale,
              PushHead, Status, Open, Meta, EnterLoop, viewer
<1>7. CASE UNCHANGED liveVars
  BY <1>7 DEF liveVars, viewer
<1>8. QED
  BY <1>1, <1>2, <1>3, <1>4, <1>5, <1>6, <1>7 DEF LiveNext

LEMMA LiveTypesInit == LiveInit => LiveTypes
<1> SUFFICES ASSUME LiveInit PROVE LiveTypes
  OBVIOUS
<1>1. << >> \in Seq(Row) /\ <<0, 0, FALSE>> \in Nat \X Nat \X BOOLEAN
  BY EmptySeq
<1>2. ServerTypes
  BY <1>1 DEF LiveInit, ServerTypes
<1>3. ViewTypes
  BY LiveFollowAssumption DEF LiveInit, ViewTypes
<1>4. FlightTypes
  BY DEF LiveInit, FlightTypes
<1>5. buf \in Buffer
  BY <1>1 DEF LiveInit, Buffer
<1>6. QED  BY <1>2, <1>3, <1>4, <1>5 DEF LiveTypes

LEMMA LiveTypesStep == IInv /\ IInv' /\ LiveTypes /\ [LiveNext]_liveVars => LiveTypes'
<1> SUFFICES ASSUME IInv, IInv', LiveTypes, [LiveNext]_liveVars PROVE LiveTypes'
  OBVIOUS
<1>1. ServerTypes'
  BY ServerTypesStep
<1>2. ViewTypes'
  BY ViewTypesStep
<1>3. FlightTypes' /\ (buf \in Buffer)'
  BY <1>1, FlightTypesStep
<1>4. QED  BY <1>1, <1>2, <1>3 DEF LiveTypes

LEMMA TypesInvariance == LiveSpec => []LiveTypes
  BY LiveTypesInit, LiveTypesStep, StoreInvariance, PTL DEF LiveSpec

-----------------------------------------------------------------------------
(* A detach is told. *)

\* The connection loop takes no detach for told that did not happen.
ToldIsTrue == pushed.detached => detached

LEMMA ToldStep == LiveTypes /\ ToldIsTrue /\ [LiveNext]_liveVars => ToldIsTrue'
<1> SUFFICES ASSUME LiveTypes, ToldIsTrue, [LiveNext]_liveVars PROVE ToldIsTrue'
  OBVIOUS
<1> USE DEF ToldIsTrue
<1>1. pushed \in [head : Nat \X Nat \X BOOLEAN, detached : BOOLEAN]
  BY DEF LiveTypes, ServerTypes
<1>2. CASE Detach
  BY <1>2 DEF Detach
<1>3. CASE PushHead
  BY <1>1, <1>3 DEF PushHead, server
<1>4. CASE Status
  BY <1>1, <1>4 DEF Status, server
<1>5. CASE EnterLoop
  BY <1>5 DEF EnterLoop, server
<1>6. CASE \/ Request \/ Redraw \/ (\E right \in PanTo : Pan(right)) \/ ToggleFollow
           \/ (\E row \in Row : Ingest(row)) \/ Tick \/ Monitor \/ Answer \/ LoseReply
           \/ Apply \/ ApplyStale \/ Drop \/ Open \/ Meta
  BY <1>6 DEF Request, Redraw, Pan, ToggleFollow, Ingest, Tick, Monitor, Answer, LoseReply,
              Apply, ApplyStale, Drop, Open, Meta, server
<1>7. CASE UNCHANGED liveVars
  BY <1>7 DEF liveVars, server
<1>8. QED  BY <1>2, <1>3, <1>4, <1>5, <1>6, <1>7 DEF LiveNext

LEMMA DetachStep ==
  ASSUME LiveTypes, ToldIsTrue, LiveNext, Untold'
  PROVE  Untold \/ (socket = "met" /\ ~detached)
<1> USE DEF Untold
<1>1. /\ pushed \in [head : Nat \X Nat \X BOOLEAN, detached : BOOLEAN]
      /\ known \in [live : BOOLEAN, stalled : BOOLEAN, span : Nat, origin : Nat]
      /\ detached \in BOOLEAN
  BY DEF LiveTypes, ServerTypes, ViewTypes
<1>2. CASE Detach
  BY <1>2 DEF Detach, ToldIsTrue, viewer
<1>3. CASE Status
  BY <1>1, <1>3 DEF Status, server
<1>4. CASE PushHead
  BY <1>1, <1>4 DEF PushHead, server
<1>5. CASE Meta
  BY <1>1, <1>5 DEF Meta, server
<1>6. CASE EnterLoop
  BY <1>1, <1>6 DEF EnterLoop, server, viewer
<1>7. CASE Apply
  BY <1>1, <1>7 DEF Apply, server
<1>8. CASE Drop \/ Open
  BY <1>8 DEF Drop, Open, server
<1>9. CASE Request \/ Redraw \/ (\E right \in PanTo : Pan(right)) \/ ToggleFollow
  BY <1>9 DEF Request, Redraw, Pan, ToggleFollow, server
<1>10. CASE \/ (\E row \in Row : Ingest(row)) \/ Tick \/ Monitor \/ Answer \/ LoseReply
            \/ ApplyStale
  BY <1>10 DEF Ingest, Tick, Monitor, Answer, LoseReply, ApplyStale, server, viewer
<1>11. QED
  BY <1>2, <1>3, <1>4, <1>5, <1>6, <1>7, <1>8, <1>9, <1>10 DEF LiveNext

\* Only a detach that falls between a connection's `meta` and its entering the
\* loop can go untold for the rest of the connection (client).
THEOREM DetachTold == LiveSpec => DetachIsTold
<1>1. LiveInit => ToldIsTrue
  BY DEF LiveInit, ToldIsTrue
<1>2. LiveSpec => []ToldIsTrue
  BY <1>1, TypesInvariance, ToldStep, PTL DEF LiveSpec
<1>3. LiveTypes /\ ToldIsTrue /\ [LiveNext]_liveVars
        => [Untold' => Untold \/ (socket = "met" /\ ~detached)]_liveVars
  BY DetachStep
<1>4. QED  BY <1>2, <1>3, TypesInvariance, PTL DEF LiveSpec, DetachIsTold

-----------------------------------------------------------------------------
(* No row is stored twice. *)

Distinct(s) == \A i, j \in 1..Len(s) : s[i] = s[j] => i = j
Apart(s, t) == \A i \in 1..Len(s), j \in 1..Len(t) : s[i] # t[j]

LEMMA JoinDistinct ==
  ASSUME NEW S, NEW s \in Seq(S), NEW t \in Seq(S), Distinct(s), Distinct(t), Apart(s, t)
  PROVE  Distinct(s \o t)
<1> DEFINE c == s \o t
<1>1. /\ Len(s) \in Nat /\ Len(t) \in Nat /\ Len(c) = Len(s) + Len(t)
      /\ \A i \in 1..(Len(s) + Len(t)) : c[i] = IF i <= Len(s) THEN s[i] ELSE t[i - Len(s)]
  BY ConcatProperties, LenProperties
<1> HIDE DEF c
<1>2. ASSUME NEW i \in 1..Len(c), NEW j \in 1..Len(c), c[i] = c[j] PROVE i = j
  <2>1. CASE i <= Len(s) /\ j <= Len(s)
    <3>1. i \in 1..Len(s) /\ j \in 1..Len(s) /\ s[i] = s[j]
      BY <1>1, <1>2, <2>1
    <3>2. QED  BY <3>1 DEF Distinct
  <2>2. CASE i > Len(s) /\ j > Len(s)
    <3>1. /\ i - Len(s) \in 1..Len(t) /\ j - Len(s) \in 1..Len(t)
          /\ t[i - Len(s)] = t[j - Len(s)]
      BY <1>1, <1>2, <2>2
    <3>2. i - Len(s) = j - Len(s)
      BY <3>1 DEF Distinct
    <3>3. QED  BY <1>1, <3>2
  <2>3. CASE i <= Len(s) /\ j > Len(s)
    <3>1. i \in 1..Len(s) /\ j - Len(s) \in 1..Len(t) /\ s[i] = t[j - Len(s)]
      BY <1>1, <1>2, <2>3
    <3>2. QED  BY <3>1 DEF Apart
  <2>4. CASE i > Len(s) /\ j <= Len(s)
    <3>1. j \in 1..Len(s) /\ i - Len(s) \in 1..Len(t) /\ s[j] = t[i - Len(s)]
      BY <1>1, <1>2, <2>4
    <3>2. QED  BY <3>1 DEF Apart
  <2>5. QED  BY <1>1, <2>1, <2>2, <2>3, <2>4
<1>3. QED  BY <1>2 DEF Distinct, c

\* The rows stored and queued are pairwise distinct.
Fresh == Distinct(df) /\ Distinct(pending) /\ Apart(df, pending)

LEMMA FlushFresh ==
  ASSUME IInv, NEW rows \in Seq(Row), Distinct(df), Distinct(rows), Apart(df, rows),
         FlushPending(rows)
  PROVE  Fresh'
<1>1. Distinct(<< >>) /\ \A s : Apart(s, << >>)
  BY DEF Distinct, Apart
<1>2. pending' = << >>
  BY DEF FlushPending
<1>3. Distinct(df)'
  <2>1. CASE UNCHANGED store
    BY <2>1 DEF store, Distinct
  <2>2. CASE AppendBatch(rows)
    <3>1. df \in Seq(Row)
      BY DEF IInv, TypeOK
    <3>2. Distinct(df \o rows)
      BY <3>1, JoinDistinct
    <3>3. PICK cut \in 0..(Len(df) + Len(rows)) :
             /\ Len(df') = Len(df) + Len(rows) - cut
             /\ \A i \in 1..Len(df') :
                  /\ cut + i \in 1..(Len(df) + Len(rows))
                  /\ df'[i] = (df \o rows)[cut + i]
      BY <2>2, AppendSuffix DEF IInv
    <3>4. Len(df \o rows) = Len(df) + Len(rows) /\ Len(df) \in Nat /\ Len(rows) \in Nat
      BY ConcatRows DEF IInv
    <3> DEFINE c == df \o rows
    <3>5. ASSUME NEW i \in 1..Len(df'), NEW j \in 1..Len(df'), df'[i] = df'[j]
          PROVE  i = j
      <4>1. /\ cut + i \in 1..Len(c) /\ cut + j \in 1..Len(c)
            /\ c[cut + i] = c[cut + j]
        BY <3>3, <3>4, <3>5
      <4>2. cut + i = cut + j
        <5> HIDE DEF c
        <5>1. Distinct(c)
          BY <3>2 DEF c
        <5>2. QED  BY <4>1, <5>1 DEF Distinct
      <4>3. QED  BY <3>3, <3>4, <4>2
    <3>6. QED  BY <3>5 DEF Distinct
  <2>3. QED  BY <2>1, <2>2 DEF FlushPending, DropBatch
<1>4. QED  BY <1>1, <1>2, <1>3 DEF Fresh

LEMMA FreshStep == IInv /\ Fresh /\ [LiveNext]_liveVars => Fresh'
<1> SUFFICES ASSUME IInv, Fresh, [LiveNext]_liveVars PROVE Fresh'
  OBVIOUS
<1>0. pending \in Seq(Row) /\ df \in Seq(Row)
  BY DEF IInv, TypeOK
<1>1. ASSUME NEW row \in Row, Ingest(row) PROVE Fresh'
  <2> DEFINE one == <<row>>
             rows == pending \o one
  <2>1. one \in Seq(Row) /\ Len(one) = 1 /\ one[1] = row
    OBVIOUS
  <2>2. /\ \A i \in 1..Len(df) : df[i] # row
        /\ \A i \in 1..Len(pending) : pending[i] # row
        /\ Receive(one)
    BY <1>1 DEF Ingest
  <2> HIDE DEF one
  <2>3. Distinct(one) /\ Apart(pending, one) /\ Apart(df, one)
    BY <2>1, <2>2 DEF Distinct, Apart
  <2>4. rows \in Seq(Row) /\ Distinct(rows)
    BY <1>0, <2>1, <2>3, JoinDistinct, ConcatProperties DEF Fresh
  <2>5. Apart(df, rows)
    <3>1. /\ Len(pending) \in Nat /\ Len(rows) = Len(pending) + 1
          /\ \A i \in 1..(Len(pending) + 1) :
               rows[i] = IF i <= Len(pending) THEN pending[i] ELSE one[i - Len(pending)]
      <4>1. pending \in Seq(Row) /\ one \in Seq(Row)
        BY <1>0, <2>1
      <4>2. /\ Len(pending) \in Nat /\ Len(rows) = Len(pending) + Len(one)
            /\ \A i \in 1..(Len(pending) + Len(one)) :
                 rows[i] = IF i <= Len(pending) THEN pending[i] ELSE one[i - Len(pending)]
        BY ONLY <4>1, ConcatProperties, LenProperties
      <4>3. QED  BY <2>1, <4>2
    <3> HIDE DEF rows
    <3>2. ASSUME NEW i \in 1..Len(df), NEW j \in 1..Len(rows) PROVE df[i] # rows[j]
      <4>1. CASE j <= Len(pending)
        <5>1. j \in 1..Len(pending) /\ rows[j] = pending[j]
          BY <3>1, <4>1
        <5>2. QED  BY <5>1 DEF Fresh, Apart
      <4>2. CASE ~(j <= Len(pending))
        <5>1. rows[j] = row
          <6>1. j - Len(pending) = 1
            BY <3>1, <4>2
          <6>2. QED  BY <2>1, <3>1, <4>2, <6>1
        <5>2. QED  BY <2>2, <5>1
      <4>3. QED  BY <4>1, <4>2
    <3>3. QED  BY <3>2 DEF Apart
  <2>6. CASE FlushPending(rows)
    <3> HIDE DEF rows
    <3>1. QED  BY <2>4, <2>5, <2>6, FlushFresh DEF Fresh
  <2>7. CASE pending' = rows /\ UNCHANGED store
    <3> HIDE DEF rows
    <3>1. QED  BY <2>4, <2>5, <2>7 DEF Fresh, Distinct, Apart, store
  <2>8. QED  BY <2>2, <2>6, <2>7 DEF Receive
<1>2. CASE Answer \/ LoseReply \/ ApplyStale
  <2>1. FlushPending(pending)
    BY <1>2 DEF Answer, LoseReply, ApplyStale
  <2>2. QED  BY <1>0, <2>1, FlushFresh DEF Fresh
<1>3. CASE UNCHANGED vars
  BY <1>3 DEF vars, Fresh, Distinct, Apart
<1>4. CASE \/ Request \/ Redraw \/ (\E right \in PanTo : Pan(right)) \/ ToggleFollow
           \/ Tick \/ Monitor \/ Detach \/ Apply \/ PushHead \/ Status
           \/ Drop \/ Open \/ Meta \/ EnterLoop
  BY <1>3, <1>4 DEF Request, Redraw, Pan, ToggleFollow, Tick, Monitor, Detach, Apply,
              PushHead, Status, Drop, Open, Meta, EnterLoop
<1>5. CASE UNCHANGED liveVars
  BY <1>3, <1>5 DEF liveVars
<1>6. QED  BY <1>1, <1>2, <1>4, <1>5 DEF LiveNext

-----------------------------------------------------------------------------
(* No hole. That later rows start behind the frontier needs the frontier to *)
(* lie below maxEnd, and a tail closes up with what was held only because   *)
(* the frontier lies inside the loaded range.                               *)

HeldBy(b) == {b.rows[i] : i \in 1..Len(b.rows)}

\* A buffer misses no stored row of its range up to its frontier.
Whole(b) ==
  b.rows # << >> =>
    /\ b.cursor < b.hi /\ b.cursor < maxEnd
    /\ \A row \in Stored :
         row.start <= b.cursor /\ Overlaps(row, b.lo, b.hi) => row \in HeldBy(b)

\* A run interval lasts, and ends no later than the greatest end.
LEMMA RowLasts ==
  ASSUME IInv, NEW i \in 1..Len(df)
  PROVE  df[i].start < EndOf(df[i]) /\ df[i].start < maxEnd /\ maxEnd \in Int
<1>1. df[i] \in Row /\ df[i].start \in Nat /\ EndOf(df[i]) \in Nat
  BY RowsTyped
<1>2. df[i].dur \in Nat /\ df[i].dur # 0
  BY <1>1, TimelineAssumption, LiveFollowAssumption DEF Row
<1>3. df[i].start < EndOf(df[i])
  BY <1>1, <1>2 DEF EndOf
<1>4. EndOf(df[i]) <= maxEnd /\ maxEnd \in Int
  BY DEF IInv, MaxEndCovers, TypeOK
<1>5. QED  BY <1>1, <1>3, <1>4

LEMMA FlushWhole ==
  ASSUME IInv, NEW rows \in Seq(Row), FlushPending(rows),
         NEW b \in Buffer, sorted => Whole(b), sorted'
  PROVE  Whole(b)'
<1>1. CASE UNCHANGED store
  BY <1>1 DEF store, Whole, Stored
<1>2. CASE AppendBatch(rows) /\ rows # << >>
  <2> SUFFICES ASSUME b.rows # << >>
               PROVE  /\ b.cursor < b.hi /\ b.cursor < maxEnd'
                      /\ \A row \in Stored' :
                           row.start <= b.cursor /\ Overlaps(row, b.lo, b.hi)
                             => row \in HeldBy(b)
    BY DEF Whole
  <2>1. sorted /\ InOrder(rows)
    BY <1>2 DEF AppendBatch
  <2>2. /\ b.cursor < b.hi /\ b.cursor < maxEnd
        /\ \A row \in Stored :
             row.start <= b.cursor /\ Overlaps(row, b.lo, b.hi) => row \in HeldBy(b)
    BY <2>1 DEF Whole
  <2>3. b.cursor \in Nat /\ maxEnd \in Int
    BY DEF Buffer, IInv, TypeOK
  <2>4. maxEnd' \in Nat /\ maxEnd' >= maxEnd
    BY <1>2, AppendTypes DEF IInv, Ends
  <2>5. b.cursor < maxEnd'
    BY <2>2, <2>3, <2>4
  <2>6. PICK cut \in 0..(Len(df) + Len(rows)) :
           /\ Len(df') = Len(df) + Len(rows) - cut
           /\ \A i \in 1..Len(df') :
                /\ cut + i \in 1..(Len(df) + Len(rows))
                /\ df'[i] = (df \o rows)[cut + i]
    BY <1>2, AppendSuffix DEF IInv
  <2>7. ASSUME NEW k \in 1..(Len(df) + Len(rows))
        PROVE  \/ (df \o rows)[k] \in Stored
               \/ ~((df \o rows)[k].start <= b.cursor)
    <3>1. Len(df) \in Nat /\ Len(rows) \in Nat
      BY ConcatRows DEF IInv
    <3>2. CASE k <= Len(df)
      <4>1. k \in 1..Len(df)
        BY <3>1, <3>2
      <4>2. (df \o rows)[k] = df[k]
        BY <4>1, ConcatRows DEF IInv
      <4>3. QED  BY <4>1, <4>2 DEF Stored
    <3>3. CASE k > Len(df)
      <4>1. k - Len(df) \in 1..Len(rows) /\ (df \o rows)[k] = rows[k - Len(df)]
        BY <3>3, ConcatRows DEF IInv
      <4>2. rows[k - Len(df)].start >= maxEnd /\ rows[k - Len(df)].start \in Nat
        BY <2>1, <4>1, ElementOfSeq, RowType DEF InOrder
      <4>3. QED  BY <2>2, <2>3, <4>1, <4>2
    <3>4. QED  BY <3>1, <3>2, <3>3
  <2>8. ASSUME NEW row \in Stored', row.start <= b.cursor, Overlaps(row, b.lo, b.hi)
        PROVE  row \in HeldBy(b)
    <3>1. PICK i \in 1..Len(df') : row = df'[i]
      BY DEF Stored
    <3>2. cut + i \in 1..(Len(df) + Len(rows)) /\ row = (df \o rows)[cut + i]
      BY <2>6, <3>1
    <3>3. row \in Stored
      BY <2>7, <2>8, <3>2
    <3>4. QED  BY <2>2, <2>8, <3>3
  <2>9. QED  BY <2>2, <2>5, <2>8
<1>3. QED  BY <1>1, <1>2 DEF FlushPending, DropBatch

LEMMA StepWhole ==
  ASSUME IInv, [Next]_vars, NEW b \in Buffer, sorted => Whole(b), sorted'
  PROVE  Whole(b)'
<1>1. pending \in Seq(Row)
  BY DEF IInv, TypeOK
<1>2. CASE UNCHANGED store
  BY <1>2 DEF store, Whole, Stored
<1>3. ASSUME NEW batch \in Batches, Receive(batch) PROVE Whole(b)'
  <2>1. pending \o batch \in Seq(Row)
    BY <1>1, BatchType, ConcatProperties
  <2>2. QED  BY <1>2, <1>3, <2>1, FlushWhole DEF Receive
<1>4. CASE Flush
  BY <1>1, <1>4, FlushWhole DEF Flush
<1>5. CASE UNCHANGED vars
  BY <1>2, <1>5 DEF vars, store
<1>6. QED  BY <1>3, <1>4, <1>5 DEF Next

-----------------------------------------------------------------------------
(* What an answer is worth when it lands. *)

\* The rows of a reply are new to the viewer and leave it without a hole.
AnswerGood(f) ==
  /\ Distinct(f.rows)
  /\ f.query.append => \A i \in 1..Len(f.rows) : f.query.from < f.rows[i].start
  /\ sorted => Whole(Landed(f))

\* A tail is asked for from the frontier of what is held.
AsksOn(query) == query.append => query.from = buf.cursor /\ buf.rows # << >>

LEMMA FromDistinct ==
  ASSUME NEW reply, NEW p, From(reply, p), Distinct(df)
  PROVE  Distinct(reply.rows)
<1>1. ASSUME NEW i \in 1..Len(reply.rows), NEW j \in 1..Len(reply.rows),
             reply.rows[i] = reply.rows[j]
      PROVE  i = j
  <2>1. /\ p[i] \in 1..Len(df) /\ p[j] \in 1..Len(df) /\ df[p[i]] = df[p[j]]
        /\ p[i] = p[j] => i = j
    BY <1>1 DEF From
  <2>2. QED  BY <2>1 DEF Distinct
<1>2. QED  BY <1>1 DEF Distinct

\* The frontier a window leaves is the start of one of its rows.
LEMMA CursorOfWindow ==
  ASSUME NEW rows \in Seq(Row), rows # << >>
  PROVE  \E k \in 1..Len(rows) : LatestOf(StartsIn(rows), 0) = rows[k].start
<1> DEFINE cursor == LatestOf(StartsIn(rows), 0)
<1>1. /\ cursor \in StartsIn(rows) \cup {0} /\ cursor \in Nat
      /\ \A i \in 1..Len(rows) : rows[i].start <= cursor
  BY StartsAre
<1>2. 1 \in 1..Len(rows) /\ rows[1].start \in Nat
  BY LenProperties, EmptySeq, ElementOfSeq, RowType
<1> HIDE DEF cursor
<1>3. CASE cursor \in StartsIn(rows)
  BY <1>3 DEF StartsIn, cursor
<1>4. CASE cursor = 0
  <2>1. rows[1].start = cursor
    BY <1>1, <1>2, <1>4
  <2>2. QED  BY <1>2, <2>1 DEF cursor
<1>5. QED  BY <1>1, <1>3, <1>4

LEMMA WindowWhole ==
  ASSUME IInv, sorted, NEW f \in Replies, f.rows # << >>,
         f.rows = Window(f.query.t0, f.query.t1, WinCap).rows,
         f.capped = Window(f.query.t0, f.query.t1, WinCap).capped
  PROVE  Whole(Loaded(f))
<1> DEFINE t0 == f.query.t0
           t1 == f.query.t1
           b == Loaded(f)
<1>1. /\ t0 \in Nat /\ t1 \in Nat /\ WinCap \in Nat
      /\ f.rows \in Seq(Row) /\ f.capped \in BOOLEAN
  BY ReplyFields, LiveFollowAssumption
<1>2. PICK offset \in Nat, n \in Nat :
         /\ offset + n <= Len(df) /\ n <= WinCap
         /\ \/ Window(t0, t1, WinCap) = Reply(Slice(offset, n), TRUE) /\ n = WinCap
            \/ /\ Window(t0, t1, WinCap) = Reply(Slice(offset, n), FALSE)
               /\ offset = WindowLo(t0, t1) /\ offset + n = WindowHi(t1)
  BY <1>1, WindowIsSlice
<1>3. Len(Slice(offset, n)) = n
      /\ \A k \in 1..n : offset + k \in 1..Len(df) /\ Slice(offset, n)[k] = df[offset + k]
  BY <1>2, SliceIs
<1>4. /\ f.rows = Slice(offset, n)
      /\ ~f.capped => offset = WindowLo(t0, t1) /\ offset + n = WindowHi(t1)
  <2>1. f.rows = Window(t0, t1, WinCap).rows /\ f.capped = Window(t0, t1, WinCap).capped
    OBVIOUS
  <2>2. CASE Window(t0, t1, WinCap) = Reply(Slice(offset, n), TRUE)
    <3>1. f.rows = Slice(offset, n) /\ f.capped = TRUE
      <4> DEFINE w == Window(t0, t1, WinCap)
                 r == Slice(offset, n)
      <4>1. f.rows = w.rows /\ f.capped = w.capped /\ w = Reply(r, TRUE)
        BY <2>1, <2>2
      <4> HIDE DEF w, r
      <4>2. f.rows = r /\ f.capped = TRUE
        BY ONLY <4>1, ReplyIs
      <4>3. QED  BY <4>2 DEF r
    <3>2. QED  BY <3>1
  <2>3. CASE /\ Window(t0, t1, WinCap) = Reply(Slice(offset, n), FALSE)
             /\ offset = WindowLo(t0, t1) /\ offset + n = WindowHi(t1)
    <3>1. f.rows = Slice(offset, n)
      <4> DEFINE w == Window(t0, t1, WinCap)
                 r == Slice(offset, n)
      <4>1. f.rows = w.rows /\ w = Reply(r, FALSE)
        BY <2>1, <2>3
      <4> HIDE DEF w, r
      <4>2. f.rows = r
        BY ONLY <4>1, ReplyIs
      <4>3. QED  BY <4>2 DEF r
    <3>2. QED  BY <2>3, <3>1
  <2>4. QED  BY <1>2, <2>2, <2>3
<1>5. Len(f.rows) = n /\ \A k \in 1..n : offset + k \in 1..Len(df) /\ f.rows[k] = df[offset + k]
  BY <1>3, <1>4
<1>6. /\ b \in Buffer /\ b.rows = f.rows /\ b.cursor = LatestOf(StartsIn(f.rows), 0)
      /\ IF f.capped /\ f.rows # << >>
         THEN /\ b.lo = EarliestOf(StartsIn(f.rows)) /\ b.hi = LatestOf(EndsIn(f.rows), 0)
         ELSE b.lo = t0 /\ b.hi = t1
  BY LoadedFields
<1> HIDE DEF b, t0, t1
<1>7. PICK last \in 1..n : b.cursor = f.rows[last].start
  BY <1>1, <1>5, <1>6, CursorOfWindow
<1>8. offset + last \in 1..Len(df) /\ b.cursor = df[offset + last].start
  BY <1>5, <1>7
<1>9. Len(df) \in Nat
  BY LenProperties DEF IInv, TypeOK
<1>10. \A i \in 1..Len(df) : offset < i /\ i <= offset + n => df[i] \in HeldBy(b)
  <2>1. ASSUME NEW i \in 1..Len(df), offset < i, i <= offset + n PROVE df[i] \in HeldBy(b)
    <3>1. i - offset \in 1..n /\ offset + (i - offset) = i
      BY <1>9, <2>1
    <3>2. f.rows[i - offset] = df[i]
      BY <1>5, <3>1
    <3>3. QED  BY <1>5, <1>6, <3>1, <3>2 DEF HeldBy
  <2>2. QED  BY <2>1
<1>11. /\ df[offset + last].start < EndOf(df[offset + last])
       /\ df[offset + last].start < maxEnd
       /\ df[offset + last].start \in Nat /\ EndOf(df[offset + last]) \in Nat
  BY <1>8, RowLasts, RowsTyped
<1>12. CASE ~f.capped
  <2>1. b.lo = t0 /\ b.hi = t1 /\ offset = WindowLo(t0, t1) /\ offset + n = WindowHi(t1)
    BY <1>4, <1>6, <1>12
  <2>2. b.cursor < b.hi
    <3>1. offset + last <= CountBefore(t1)
      BY <1>7, <2>1 DEF WindowHi
    <3>2. t1 \in Int
      BY <1>1
    <3>3. df[offset + last].start < t1
      BY <1>8, <3>1, <3>2, CutSplits
    <3>4. QED  BY <1>8, <2>1, <3>3
  <2>3. ASSUME NEW row \in Stored, Overlaps(row, b.lo, b.hi) PROVE row \in HeldBy(b)
    <3>1. PICK i \in 1..Len(df) : row = df[i]
      BY DEF Stored
    <3>2. offset < i /\ i <= offset + n
      <4>1. Overlaps(df[i], t0, t1)
        BY <2>1, <2>3, <3>1
      <4>2. WindowLo(t0, t1) < i /\ i <= WindowHi(t1)
        BY <1>1, <4>1, WindowRangeHolds
      <4>3. QED  BY <2>1, <4>2
    <3>3. QED  BY <1>10, <3>1, <3>2
  <2>4. b.cursor < maxEnd
    BY <1>8, <1>11
  <2>5. Whole(b)
    BY <2>2, <2>3, <2>4 DEF Whole
  <2>6. QED  BY <2>5 DEF b
<1>13. CASE f.capped
  <2>1. b.lo = EarliestOf(StartsIn(f.rows)) /\ b.hi = LatestOf(EndsIn(f.rows), 0)
    BY <1>6, <1>13
  <2>2. b.hi \in Nat /\ EndOf(f.rows[last]) <= b.hi
    BY <1>1, <1>5, <2>1, EndsAre, ZenonT(60)
  <2>3. b.cursor < b.hi
    BY <1>5, <1>8, <1>11, <2>2
  <2>4. PICK first \in 1..n : b.lo = f.rows[first].start
    BY <1>1, <1>5, <2>1, EarliestIs DEF StartsIn
  <2>5. offset + first \in 1..Len(df) /\ b.lo = df[offset + first].start
    BY <1>5, <2>4
  <2>6. ASSUME NEW row \in Stored, row.start <= b.cursor, Overlaps(row, b.lo, b.hi)
        PROVE  row \in HeldBy(b)
    <3>1. PICK i \in 1..Len(df) : row = df[i]
      BY DEF Stored
    <3>2. /\ df[i].start \in Nat /\ EndOf(df[i]) \in Nat
          /\ df[offset + first].start \in Nat
      BY <2>5, RowsTyped
    <3>3. i <= offset + n
      <4>1. SUFFICES ASSUME i > offset + n PROVE FALSE
        BY <1>9
      <4>2. offset + last < i
        BY <1>7, <1>9, <4>1
      <4>3. EndOf(df[offset + last]) <= df[i].start
        BY <1>8, <4>2 DEF IInv, SortedContract
      <4>4. QED  BY <1>8, <1>11, <2>6, <3>1, <3>2, <4>3, SMTT(60)
    <3>4. offset < i
      <4>1. SUFFICES ASSUME i <= offset PROVE FALSE
        BY <1>9
      <4>2. i < offset + first
        BY <1>9, <2>4, <4>1
      <4>3. EndOf(df[i]) <= df[offset + first].start
        BY <2>5, <4>2 DEF IInv, SortedContract
      <4>4. EndOf(df[i]) > b.lo
        BY <2>6, <3>1 DEF Overlaps
      <4>5. QED  BY <2>5, <3>2, <4>3, <4>4
    <3>5. QED  BY <1>10, <3>1, <3>3, <3>4
  <2>7. b.cursor < maxEnd
    BY <1>8, <1>11
  <2>8. Whole(b)
    BY <2>3, <2>6, <2>7 DEF Whole
  <2>9. QED  BY <2>8 DEF b
<1>14. QED  BY <1>1, <1>12, <1>13

\* Where the elements of two sequences are once they are put together.
LEMMA Joined ==
  ASSUME NEW S, NEW s \in Seq(S), NEW t \in Seq(S)
  PROVE  /\ \A i \in 1..Len(s) : i \in 1..Len(s \o t) /\ (s \o t)[i] = s[i]
         /\ \A i \in 1..Len(t) : /\ Len(s) + i \in 1..Len(s \o t)
                                /\ (s \o t)[Len(s) + i] = t[i]
<1> DEFINE c == s \o t
<1>1. /\ Len(s) \in Nat /\ Len(t) \in Nat /\ Len(c) = Len(s) + Len(t)
      /\ \A i \in 1..(Len(s) + Len(t)) : c[i] = IF i <= Len(s) THEN s[i] ELSE t[i - Len(s)]
  BY ConcatProperties, LenProperties
<1> HIDE DEF c
<1>2. \A i \in 1..Len(s) : i \in 1..Len(c) /\ c[i] = s[i]
  BY <1>1
<1>3. ASSUME NEW i \in 1..Len(t)
      PROVE  Len(s) + i \in 1..Len(c) /\ c[Len(s) + i] = t[i]
  <2>1. /\ Len(s) + i \in 1..Len(c) /\ ~(Len(s) + i <= Len(s)) /\ (Len(s) + i) - Len(s) = i
    BY <1>1
  <2>2. QED  BY <1>1, <2>1
<1>4. QED  BY <1>2, <1>3 DEF c

\* A tail of a buffer without a hole leaves none.
LEMMA TailWhole ==
  ASSUME IInv, sorted, NEW f \in Replies, buf \in Buffer, Whole(buf), buf.rows # << >>,
         f.query.from = buf.cursor,
         f.rows = TailFrame(f.query.from, f.query.t1, WinCap).rows,
         f.capped = TailFrame(f.query.from, f.query.t1, WinCap).capped
  PROVE  Whole(Extended(f))
<1> DEFINE from == f.query.from
           t1 == f.query.t1
           b == Extended(f)
<1>1. /\ from \in Nat /\ t1 \in Nat /\ WinCap \in Nat
      /\ f.rows \in Seq(Row) /\ f.capped \in BOOLEAN
  BY ReplyFields, LiveFollowAssumption
<1>2. /\ b \in Buffer
      /\ f.capped => /\ b.rows = buf.rows /\ b.cursor = buf.cursor
                     /\ b.lo = buf.lo /\ b.hi = buf.hi
      /\ ~f.capped => /\ b.rows = buf.rows \o f.rows
                      /\ b.cursor = LatestOf(StartsIn(f.rows), buf.cursor)
                      /\ b.lo = buf.lo /\ b.hi = Larger(buf.hi, t1)
  BY ExtendedFields
<1>3. PICK offset \in Nat, n \in Nat, flag \in BOOLEAN :
         /\ offset + n <= Len(df)
         /\ TailFrame(from, t1, WinCap) = Reply(Slice(offset, n), flag)
         /\ offset = CountUpTo(from)
         /\ n > 0 => offset + n <= CountBefore(t1)
         /\ ~flag => n = AtLeastZero(CountBefore(t1) - offset)
  BY <1>1, TailIsSlice
<1>4. f.rows = Slice(offset, n) /\ f.capped = flag
  <2> DEFINE w == TailFrame(from, t1, WinCap)
             r == Slice(offset, n)
  <2>1. f.rows = w.rows /\ f.capped = w.capped /\ w = Reply(r, flag)
    BY <1>3
  <2> HIDE DEF w, r
  <2>2. f.rows = r /\ f.capped = flag
    BY ONLY <2>1, ReplyIs
  <2>3. QED  BY <2>2 DEF r
<1>5. /\ Len(f.rows) = n
      /\ \A k \in 1..n : offset + k \in 1..Len(df) /\ f.rows[k] = df[offset + k]
  <2>1. /\ Len(Slice(offset, n)) = n
        /\ \A k \in 1..n : /\ offset + k \in 1..Len(df)
                           /\ Slice(offset, n)[k] = df[offset + k]
    BY <1>3, SliceIs
  <2>2. QED  BY <1>4, <2>1
<1>6. /\ buf.rows \in Seq(Row) /\ buf.cursor \in Nat /\ buf.lo \in Nat /\ buf.hi \in Int
      /\ Len(buf.rows) \in Nat
  BY BufferFields, LenProperties
<1> HIDE DEF b, from, t1
<1>7. /\ \A i \in 1..Len(buf.rows) : /\ i \in 1..Len(buf.rows \o f.rows)
                                    /\ (buf.rows \o f.rows)[i] = buf.rows[i]
      /\ \A i \in 1..Len(f.rows) : /\ Len(buf.rows) + i \in 1..Len(buf.rows \o f.rows)
                                  /\ (buf.rows \o f.rows)[Len(buf.rows) + i] = f.rows[i]
  <2>1. buf.rows \in Seq(Row) /\ f.rows \in Seq(Row)
    BY <1>1, <1>6
  <2> DEFINE s == buf.rows
             t == f.rows
  <2>2. s \in Seq(Row) /\ t \in Seq(Row)
    BY <2>1
  <2> HIDE DEF s, t
  <2>3. /\ \A i \in 1..Len(s) : i \in 1..Len(s \o t) /\ (s \o t)[i] = s[i]
        /\ \A i \in 1..Len(t) : /\ Len(s) + i \in 1..Len(s \o t)
                               /\ (s \o t)[Len(s) + i] = t[i]
    BY ONLY <2>2, Joined
  <2>4. QED  BY <2>3 DEF s, t
<1>8. CASE f.capped
  <2>1. Whole(b)
    BY <1>2, <1>8 DEF Whole, HeldBy
  <2>2. QED  BY <2>1 DEF b
<1>9. CASE ~f.capped
  <2>1. /\ b.rows = buf.rows \o f.rows
        /\ b.cursor = LatestOf(StartsIn(f.rows), buf.cursor)
        /\ b.lo = buf.lo /\ b.hi = Larger(buf.hi, t1)
    BY <1>2, <1>9
  <2>2. /\ buf.cursor < buf.hi /\ buf.cursor < maxEnd
        /\ \A row \in Stored :
             row.start <= buf.cursor /\ Overlaps(row, buf.lo, buf.hi) => row \in HeldBy(buf)
    BY DEF Whole
  <2>3. /\ b.cursor \in StartsIn(f.rows) \cup {buf.cursor}
        /\ b.cursor \in Nat /\ b.cursor >= buf.cursor
    BY <1>1, <1>6, <2>1, StartsAre
  <2>4. b.hi \in Int /\ b.hi >= buf.hi /\ b.hi >= t1
    BY <1>1, <1>6, <2>1 DEF Larger
  <2>5. b.cursor < b.hi /\ b.cursor < maxEnd
    <3>1. CASE b.cursor = buf.cursor
      BY <1>6, <2>2, <2>4, <3>1
    <3>2. CASE b.cursor \in StartsIn(f.rows)
      <4>1. PICK k \in 1..n : b.cursor = df[offset + k].start /\ offset + k \in 1..Len(df)
        BY <1>5, <3>2 DEF StartsIn
      <4>2. df[offset + k].start < maxEnd
        BY <4>1, RowLasts
      <4>3. offset + k <= CountBefore(t1)
        <5>1. n > 0 /\ k <= n /\ offset + n <= CountBefore(t1)
          BY <1>3, <4>1
        <5>2. CountBefore(t1) \in 0..Len(df)
          BY <1>1, <4>1, CutSplits
        <5>3. Len(df) \in Nat
          BY LenProperties DEF IInv, TypeOK
        <5>4. QED  BY <5>1, <5>2, <5>3
      <4>4. t1 \in Int
        BY <1>1
      <4>5. df[offset + k].start < t1
        BY <4>1, <4>3, <4>4, CutSplits
      <4>6. df[offset + k].start \in Nat
        BY <4>1, RowsTyped
      <4>7. b.cursor < b.hi
        BY <1>1, <2>4, <4>1, <4>5, <4>6
      <4>8. QED  BY <4>1, <4>2, <4>7
    <3>3. QED  BY <2>3, <3>1, <3>2
  <2>6. \A i \in 1..Len(buf.rows) : buf.rows[i] \in HeldBy(b)
    <3>1. ASSUME NEW i \in 1..Len(buf.rows) PROVE buf.rows[i] \in HeldBy(b)
      <4>1. i \in 1..Len(b.rows) /\ b.rows[i] = buf.rows[i]
        BY <1>7, <2>1
      <4>2. QED  BY <4>1 DEF HeldBy
    <3>2. QED  BY <3>1
  <2>7. \A i \in 1..n : f.rows[i] \in HeldBy(b)
    <3>1. ASSUME NEW i \in 1..n PROVE f.rows[i] \in HeldBy(b)
      <4>1. i \in 1..Len(f.rows)
        BY <1>5
      <4>2. /\ Len(buf.rows) + i \in 1..Len(b.rows)
            /\ b.rows[Len(buf.rows) + i] = f.rows[i]
        BY <1>7, <2>1, <4>1
      <4>3. QED  BY <4>2 DEF HeldBy
    <3>2. QED  BY <3>1
  <2>8. ASSUME NEW row \in Stored, row.start <= b.cursor, Overlaps(row, b.lo, b.hi)
        PROVE  row \in HeldBy(b)
    <3>1. PICK i \in 1..Len(df) : row = df[i]
      BY DEF Stored
    <3>2. df[i].start \in Nat /\ EndOf(df[i]) \in Nat /\ Len(df) \in Nat
      BY RowsTyped, LenProperties DEF IInv, TypeOK
    <3>3. CASE df[i].start <= buf.cursor
      <4>1. Overlaps(row, buf.lo, buf.hi)
        BY <1>6, <2>1, <2>2, <2>8, <3>1, <3>2, <3>3 DEF Overlaps
      <4>2. row \in HeldBy(buf)
        BY <2>2, <3>1, <3>3, <4>1
      <4>3. QED  BY <2>6, <4>2 DEF HeldBy
    <3>4. CASE df[i].start > buf.cursor
      <4>1. /\ b.cursor \in StartsIn(f.rows)
        BY <1>6, <2>3, <2>8, <3>1, <3>2, <3>4
      <4>2. PICK k \in 1..n : b.cursor = df[offset + k].start /\ offset + k \in 1..Len(df)
        BY <1>5, <4>1 DEF StartsIn
      <4>3. i <= offset + n
        <5>1. SUFFICES ASSUME i > offset + n PROVE FALSE
          BY <3>2
        <5>2. offset + k < i
          BY <3>2, <4>2, <5>1
        <5>3. EndOf(df[offset + k]) <= df[i].start
          BY <4>2, <5>2 DEF IInv, SortedContract
        <5>4. /\ df[offset + k].start < EndOf(df[offset + k])
              /\ df[offset + k].start \in Nat /\ EndOf(df[offset + k]) \in Nat
          BY <4>2, RowLasts, RowsTyped
        <5>5. QED  BY <2>8, <3>1, <3>2, <4>2, <5>3, <5>4
      <4>4. offset < i
        <5>1. from = buf.cursor /\ from + 1 \in Int
          BY <1>1 DEF from
        <5>2. i <= CountBefore(from + 1) <=> df[i].start < from + 1
          BY <5>1, CutSplits
        <5>3. CountBefore(from + 1) = offset
          BY <1>3 DEF CountUpTo
        <5>4. QED  BY <1>6, <3>2, <3>4, <5>1, <5>2, <5>3
      <4>5. i - offset \in 1..n /\ f.rows[i - offset] = df[i]
        <5>1. i - offset \in 1..n /\ offset + (i - offset) = i
          BY <3>2, <4>3, <4>4
        <5>2. QED  BY <1>5, <5>1
      <4>6. QED  BY <2>7, <3>1, <4>5
    <3>5. QED  BY <1>6, <3>2, <3>3, <3>4
  <2>9. Whole(b)
    BY <2>5, <2>8 DEF Whole
  <2>10. QED  BY <2>9 DEF b
<1>10. QED  BY <1>1, <1>8, <1>9

\* What is answered to a request that goes on from what is held.
LEMMA AnsweredGood ==
  IInv /\ LiveTypes /\ Distinct(df) /\ (sorted => Whole(buf))
    => \A query \in Query : AsksOn(query) => AnswerGood(Answered(query))
<1> SUFFICES ASSUME IInv, LiveTypes, Distinct(df), sorted => Whole(buf),
                    NEW query \in Query, AsksOn(query)
             PROVE  AnswerGood(Answered(query))
  OBVIOUS
<1> DEFINE reply == IF query.append THEN TailFrame(query.from, query.t1, WinCap)
                                    ELSE Window(query.t0, query.t1, WinCap)
           f == Answered(query)
<1>1. /\ query.append \in BOOLEAN /\ query.from \in Nat /\ query.t0 \in Nat
      /\ query.t1 \in Nat /\ WinCap \in Nat
  BY LiveFollowAssumption DEF Query
<1>2. f \in Replies
  BY AnsweredType DEF LiveTypes
<1>3. f.query = query /\ f.rows = reply.rows /\ f.capped = reply.capped
  BY DEF Answered
<1> HIDE DEF f
<1>4. CASE query.append
  <2>1. reply = TailFrame(query.from, query.t1, WinCap)
    BY <1>4
  <2> HIDE DEF reply
  <2>2. PICK p : /\ From(reply, p)
                 /\ \A k \in 1..Len(reply.rows) : IsTail(df[p[k]], query.from, query.t1)
    BY <1>1, <2>1, TailPlacesOf
  <2>3. Distinct(f.rows)
    BY <1>3, <2>2, FromDistinct
  <2>4. \A k \in 1..Len(f.rows) : query.from < f.rows[k].start
    BY <1>3, <2>2 DEF From, IsTail
  <2>5. ASSUME sorted PROVE Whole(Extended(f))
    <3>1. /\ Whole(buf) /\ buf \in Buffer /\ buf.rows # << >>
          /\ f.query.from = buf.cursor
          /\ f.rows = TailFrame(f.query.from, f.query.t1, WinCap).rows
          /\ f.capped = TailFrame(f.query.from, f.query.t1, WinCap).capped
      BY <1>3, <1>4, <2>1, <2>5 DEF AsksOn, LiveTypes
    <3>2. QED  BY <1>2, <2>5, <3>1, TailWhole
  <2>6. QED
    BY <1>3, <1>4, <2>3, <2>4, <2>5 DEF AnswerGood, Landed, f
<1>5. CASE ~query.append
  <2>1. reply = Window(query.t0, query.t1, WinCap)
    BY <1>5
  <2> HIDE DEF reply
  <2>2. PICK p : From(reply, p)
    BY <1>1, <2>1, WindowPlacesOf
  <2>3. Distinct(f.rows)
    BY <1>3, <2>2, FromDistinct
  <2>4. ASSUME sorted PROVE Whole(Loaded(f))
    <3>1. CASE f.rows = << >>
      BY <1>2, <3>1, LoadedFields DEF Whole
    <3>2. CASE f.rows # << >>
      <4>1. /\ f.rows = Window(f.query.t0, f.query.t1, WinCap).rows
            /\ f.capped = Window(f.query.t0, f.query.t1, WinCap).capped
        BY <1>3, <2>1
      <4>2. QED  BY <1>2, <2>4, <3>2, <4>1, WindowWhole
    <3>3. QED  BY <3>1, <3>2
  <2>5. QED  BY <1>3, <1>5, <2>3, <2>4 DEF AnswerGood, Landed, f
<1>6. QED  BY <1>1, <1>4, <1>5

LEMMA AnsweredGoodNext ==
  IInv' /\ LiveTypes' /\ Distinct(df)' /\ (sorted' => Whole(buf)')
    => \A query \in Query : AsksOn(query)' => AnswerGood(Answered(query))'
<1>1. (IInv /\ LiveTypes /\ Distinct(df) /\ (sorted => Whole(buf))
         => \A query \in Query : AsksOn(query) => AnswerGood(Answered(query)))'
  BY AnsweredGood, PTL
<1>2. QED  BY <1>1

-----------------------------------------------------------------------------
(* The invariant behind HeldOnce and NoGap. *)

\* The rows held are distinct and none starts after the frontier.
Tidy(b) == Distinct(b.rows) /\ \A i \in 1..Len(b.rows) : b.rows[i].start <= b.cursor

\* What is asked for, or has been answered, goes on from what is held.
Continues == flight.stage \in {"asked", "answered"} => AsksOn(flight.query)

\* The answer on its way is one the viewer can take.
Answers == flight.stage = "answered" => AnswerGood(flight)

BufferGood == Tidy(buf) /\ (sorted => Whole(buf))

LiveInv == Fresh /\ BufferGood /\ Continues /\ Answers

\* What a step does to the request and to what is held.
LEMMA Moves ==
  ASSUME [LiveNext]_liveVars
  PROVE  \/ Answer \/ Apply
         \/ /\ buf' = buf
            /\ \/ flight' = flight
               \/ flight' = [stage |-> "asked", query |-> NextQuery]
               \/ flight' = NoFlight \/ flight' = [stage |-> "lost"]
<1>1. CASE Request
  BY <1>1 DEF Request, Send
<1>2. CASE \/ Redraw \/ (\E right \in PanTo : Pan(right)) \/ ToggleFollow
           \/ (\E row \in Row : Ingest(row)) \/ Tick \/ Monitor \/ Detach
  BY <1>2 DEF Redraw, Pan, ToggleFollow, Ingest, Tick, Monitor, Detach, viewer
<1>3. CASE LoseReply \/ ApplyStale
  BY <1>3 DEF LoseReply, ApplyStale, viewer
<1>4. CASE PushHead \/ Status \/ Drop \/ Open \/ Meta \/ EnterLoop
  BY <1>4 DEF PushHead, Status, Drop, Open, Meta, EnterLoop, viewer
<1>5. CASE UNCHANGED liveVars
  BY <1>5 DEF liveVars, viewer
<1>6. QED  BY <1>1, <1>2, <1>3, <1>4, <1>5 DEF LiveNext

\* Taking a good answer leaves the buffer tidy.
LEMMA LandedTidy ==
  ASSUME LiveTypes, Tidy(buf), NEW f \in Replies, AsksOn(f.query), AnswerGood(f)
  PROVE  Tidy(Landed(f))
<1>1. /\ buf \in Buffer /\ buf.rows \in Seq(Row) /\ buf.cursor \in Nat
      /\ f.rows \in Seq(Row) /\ f.query.append \in BOOLEAN /\ f.capped \in BOOLEAN
  BY ReplyFields, BufferFields DEF LiveTypes
<1>2. Distinct(f.rows) /\ Distinct(buf.rows)
  BY DEF AnswerGood, Tidy
<1>3. /\ \A i \in 1..Len(f.rows) : f.rows[i].start \in Nat
      /\ \A i \in 1..Len(buf.rows) : buf.rows[i].start \in Nat
  BY <1>1, ElementOfSeq, RowType
<1>4. CASE ~f.query.append
  <2>1. Loaded(f).rows = f.rows /\ Loaded(f).cursor = LatestOf(StartsIn(f.rows), 0)
    BY LoadedFields
  <2>2. \A i \in 1..Len(f.rows) : f.rows[i].start <= LatestOf(StartsIn(f.rows), 0)
    BY <1>1, StartsAre
  <2>3. Tidy(Loaded(f))
    BY <1>2, <2>1, <2>2 DEF Tidy
  <2>4. QED  BY <1>4, <2>3 DEF Landed
<1>5. CASE f.query.append /\ f.capped
  <2>1. Extended(f).rows = buf.rows /\ Extended(f).cursor = buf.cursor
    BY <1>1, <1>5, ExtendedFields
  <2>2. Tidy(Extended(f))
    BY <2>1 DEF Tidy
  <2>3. QED  BY <1>5, <2>2 DEF Landed
<1>6. CASE f.query.append /\ ~f.capped
  <2> DEFINE s == buf.rows
             t == f.rows
             cursor == LatestOf(StartsIn(t), buf.cursor)
  <2>1. Extended(f).rows = s \o t /\ Extended(f).cursor = cursor
    BY <1>1, <1>6, ExtendedFields
  <2>2. /\ cursor \in Nat /\ cursor >= buf.cursor
        /\ \A i \in 1..Len(t) : t[i].start <= cursor
    BY <1>1, StartsAre
  <2>3. \A i \in 1..Len(t) : buf.cursor < t[i].start
    BY <1>6 DEF AsksOn, AnswerGood
  <2>4. \A i \in 1..Len(s) : s[i].start <= buf.cursor
    BY DEF Tidy
  <2>5. /\ s \in Seq(Row) /\ t \in Seq(Row) /\ Distinct(s) /\ Distinct(t)
    BY <1>1, <1>2
  <2>6. /\ \A i \in 1..Len(s) : s[i].start \in Nat
        /\ \A i \in 1..Len(t) : t[i].start \in Nat
    BY <1>3
  <2> HIDE DEF s, t, cursor
  <2>7. Apart(s, t)
    <3>1. ASSUME NEW i \in 1..Len(s), NEW j \in 1..Len(t), s[i] = t[j] PROVE FALSE
      <4>1. s[i].start <= buf.cursor /\ buf.cursor < t[j].start /\ s[i].start = t[j].start
        BY <2>3, <2>4, <3>1
      <4>2. QED  BY <1>1, <2>6, <4>1
    <3>2. QED  BY <3>1 DEF Apart
  <2>8. Distinct(s \o t)
    BY ONLY <2>5, <2>7, JoinDistinct
  <2>9. \A i \in 1..Len(s \o t) : (s \o t)[i].start <= cursor
    <3> DEFINE c == s \o t
    <3>1. /\ Len(s) \in Nat /\ Len(t) \in Nat /\ Len(c) = Len(s) + Len(t)
          /\ \A i \in 1..(Len(s) + Len(t)) :
               c[i] = IF i <= Len(s) THEN s[i] ELSE t[i - Len(s)]
      BY ONLY <2>5, ConcatProperties, LenProperties
    <3> HIDE DEF c
    <3>2. ASSUME NEW i \in 1..Len(c) PROVE c[i].start <= cursor
      <4>1. CASE i <= Len(s)
        <5>1. i \in 1..Len(s) /\ c[i] = s[i]
          BY <3>1, <4>1
        <5>2. QED  BY <1>1, <2>2, <2>4, <2>6, <5>1
      <4>2. CASE ~(i <= Len(s))
        <5>1. i - Len(s) \in 1..Len(t) /\ c[i] = t[i - Len(s)]
          BY <3>1, <4>2
        <5>2. QED  BY <2>2, <5>1
      <4>3. QED  BY <4>1, <4>2
    <3>3. QED  BY <3>2 DEF c
  <2>10. Tidy(Extended(f))
    BY <2>1, <2>8, <2>9 DEF Tidy
  <2>11. QED  BY <1>6, <2>10 DEF Landed
<1>7. QED  BY <1>1, <1>4, <1>5, <1>6

LEMMA BufferStep ==
  ASSUME IInv, LiveTypes, LiveInv, [LiveNext]_liveVars
  PROVE  BufferGood'
<1>1. [Next]_vars /\ buf \in Buffer
  BY LiveStep DEF LiveTypes
<1>2. Tidy(buf) /\ (sorted => Whole(buf))
  BY DEF LiveInv, BufferGood
<1>3. CASE buf' = buf
  <2>1. PICK b \in {buf} : TRUE
    OBVIOUS
  <2>2. b \in Buffer /\ Tidy(b) /\ (sorted => Whole(b)) /\ buf' = b
    BY <1>1, <1>2, <1>3, <2>1
  <2>3. sorted' => Whole(b)'
    BY <1>1, <2>2, StepWhole
  <2>4. QED  BY <2>2, <2>3 DEF BufferGood, Tidy, Distinct, Whole, HeldBy
<1>4. CASE Apply
  <2>1. flight.stage = "answered" /\ flight \in Replies
    BY <1>4, FlightIs DEF Apply, LiveTypes
  <2>2. AsksOn(flight.query) /\ AnswerGood(flight)
    BY <2>1 DEF LiveInv, Continues, Answers
  <2>3. buf' = Landed(flight) /\ UNCHANGED vars
    BY <1>4 DEF Apply, Landed
  <2>4. PICK b \in {Landed(flight)} : TRUE
    OBVIOUS
  <2>5. Tidy(b) /\ (sorted => Whole(b)) /\ buf' = b
    BY <1>2, <2>1, <2>2, <2>3, <2>4, LandedTidy DEF AnswerGood
  <2>6. sorted' => Whole(b)'
    BY <2>3, <2>5 DEF vars, store, Whole, Stored
  <2>7. QED  BY <2>5, <2>6 DEF BufferGood, Tidy, Distinct, Whole, HeldBy
<1>5. CASE Answer
  BY <1>3, <1>5 DEF Answer, viewer
<1>6. QED  BY <1>3, <1>4, <1>5, Moves

LEMMA FlightStep ==
  ASSUME IInv, IInv', LiveTypes, LiveTypes', LiveInv, Fresh', BufferGood',
         [LiveNext]_liveVars
  PROVE  Continues' /\ Answers'
<1>1. CASE buf' = buf /\ flight' = flight
  <2>1. Continues'
    BY <1>1 DEF LiveInv, Continues, AsksOn
  <2>2. ASSUME flight'.stage = "answered" PROVE AnswerGood(flight)'
    <3>1. flight.stage = "answered" /\ flight \in Replies /\ AnswerGood(flight)
      BY <1>1, <2>2, FlightIs DEF LiveInv, Answers, LiveTypes
    <3>2. Extended(flight) \in Buffer /\ Loaded(flight) \in Buffer
      BY <3>1, LoadedFields, ExtendedFields DEF LiveTypes
    <3>3. PICK b \in {Landed(flight)} : TRUE
      OBVIOUS
    <3>4. b \in Buffer /\ (sorted => Whole(b)) /\ b = Landed(flight)
      BY <3>1, <3>2, <3>3 DEF Landed, AnswerGood
    <3>5. sorted' => Whole(b)'
      BY <3>4, LiveStep, StepWhole
    <3>6. Landed(flight)' = b
      BY <1>1, <3>4 DEF Landed, Extended, Loaded
    <3>7. (sorted => Whole(Landed(flight)))'
      BY <3>5, <3>6 DEF Whole, HeldBy
    <3>8. QED  BY <1>1, <3>1, <3>7 DEF AnswerGood, Distinct
  <2>3. QED  BY <2>1, <2>2 DEF Answers
<1>2. CASE buf' = buf /\ flight' = [stage |-> "asked", query |-> NextQuery]
  <2>1. flight'.stage = "asked" /\ flight'.query = NextQuery
    BY <1>2
  <2>2. AsksOn(NextQuery)
    <3>1. CASE CanAppend
      BY <3>1 DEF NextQuery, TailQuery, AsksOn, CanAppend
    <3>2. CASE ~CanAppend
      BY <3>2 DEF NextQuery, WindowQuery, AsksOn
    <3>3. QED  BY <3>1, <3>2
  <2>3. AsksOn(flight.query)'
    BY <1>2, <2>1, <2>2 DEF AsksOn
  <2>4. QED  BY <2>1, <2>3 DEF Continues, Answers
<1>3. CASE Apply \/ (flight' = NoFlight \/ flight' = [stage |-> "lost"])
  <2>1. flight'.stage \in {"none", "lost"}
    BY <1>3 DEF Apply, NoFlight
  <2>2. QED  BY <2>1 DEF Continues, Answers
<1>4. CASE Answer
  <2>1. flight.stage = "asked" /\ flight.query \in Query /\ AsksOn(flight.query)
    BY <1>4, FlightIs DEF Answer, LiveTypes, Asks, LiveInv, Continues
  <2>2. PICK query \in {flight.query} : flight' = Answered(query)'
    BY <1>4 DEF Answer
  <2>3. query \in Query /\ query = flight.query /\ buf' = buf
    BY <1>4, <2>1, <2>2 DEF Answer, viewer
  <2>4. AsksOn(query)'
    BY <2>1, <2>3 DEF AsksOn
  <2>5. AnswerGood(Answered(query))'
    BY <2>3, <2>4, AnsweredGoodNext DEF Fresh, BufferGood
  <2>6. flight'.query = query
    BY <2>2 DEF Answered
  <2>7. Continues'
    BY <2>4, <2>6 DEF Continues, AsksOn
  <2>8. AnswerGood(flight)'
    BY <2>2, <2>5 DEF AnswerGood, Landed, Extended, Loaded
  <2>9. QED  BY <2>7, <2>8 DEF Answers
<1>5. QED  BY <1>1, <1>2, <1>3, <1>4, Moves

LEMMA LiveInvStep ==
  IInv /\ IInv' /\ LiveTypes /\ LiveTypes' /\ LiveInv /\ [LiveNext]_liveVars => LiveInv'
<1> SUFFICES ASSUME IInv, IInv', LiveTypes, LiveTypes', LiveInv, [LiveNext]_liveVars
             PROVE  LiveInv'
  OBVIOUS
<1>1. Fresh'
  BY FreshStep DEF LiveInv
<1>2. BufferGood'
  BY BufferStep
<1>3. Continues' /\ Answers'
  BY <1>1, <1>2, FlightStep
<1>4. QED  BY <1>1, <1>2, <1>3 DEF LiveInv

LEMMA LiveInvInit == LiveInit => LiveInv
<1> SUFFICES ASSUME LiveInit PROVE LiveInv
  OBVIOUS
<1>1. df = << >> /\ pending = << >> /\ buf.rows = << >> /\ flight.stage = "none"
  BY DEF LiveInit, Init, NoFlight
<1>2. Fresh
  BY <1>1 DEF Fresh, Distinct, Apart
<1>3. BufferGood
  BY <1>1 DEF BufferGood, Tidy, Distinct, Whole
<1>4. QED  BY <1>1, <1>2, <1>3 DEF LiveInv, Continues, Answers

LEMMA LiveInvariance == LiveSpec => []LiveInv
  BY LiveInvInit, LiveInvStep, TypesInvariance, StoreInvariance, PTL DEF LiveSpec

\* As many rows are held as there are places for them.
LEMMA DistinctCount ==
  ASSUME NEW S, NEW s \in Seq(S), Distinct(s)
  PROVE  Cardinality({s[i] : i \in 1..Len(s)}) = Len(s)
<1> DEFINE n == Len(s)
           T == {s[i] : i \in 1..n}
           f == [i \in 1..n |-> s[i]]
<1>1. n \in Nat
  BY LenProperties
<1>2. f \in Bijection(1..n, T)
  <2>1. f \in [1..n -> T]
    OBVIOUS
  <2>2. \A i, j \in 1..n : f[i] = f[j] => i = j
    BY DEF Distinct
  <2>3. \A t \in T : \E i \in 1..n : f[i] = t
    OBVIOUS
  <2> HIDE DEF f, T
  <2>4. QED  BY <2>1, <2>2, <2>3, Fun_IsBij
<1>3. IsFiniteSet(1..n) /\ Cardinality(1..n) = n
  BY <1>1, FS_Interval
<1> HIDE DEF f, T, n
<1>4. Cardinality(T) = Cardinality(1..n)
  <2>1. ExistsBijection(1..n, T)
    BY <1>2, Fun_ExistsBij
  <2>2. QED  BY <1>3, <2>1, FS_Bijection
<1>5. QED  BY <1>3, <1>4 DEF T, n

\* However windows, tails, reconnections and late replies follow on one
\* another, no row is held twice (loadWindowAppend).
THEOREM HeldOnceHolds == LiveSpec => []HeldOnce
<1>1. LiveTypes /\ LiveInv => HeldOnce
  <2> SUFFICES ASSUME LiveTypes, LiveInv PROVE HeldOnce
    OBVIOUS
  <2>1. buf.rows \in Seq(Row) /\ Distinct(buf.rows)
    BY BufferFields DEF LiveTypes, LiveInv, BufferGood, Tidy
  <2>2. QED  BY <2>1, DistinctCount DEF HeldOnce, Held
<1>2. QED  BY <1>1, LiveInvariance, TypesInvariance, PTL

\* No tail, truncated window or change between the two leaves a hole behind
\* the viewer's frontier while the timeline is in start order (setLoadedRange,
\* loadWindowAppend, tail_frame, window_frame).
THEOREM NoGapHolds == LiveSpec => []NoGap
<1>1. LiveInv => NoGap
  BY DEF LiveInv, BufferGood, Whole, NoGap, HeldBy, Held
<1>2. QED  BY <1>1, LiveInvariance, PTL
=============================================================================
