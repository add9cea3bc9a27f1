----------------------------- MODULE LiveFollow -----------------------------
(***************************************************************************)
(* One viewer on one live session: the server's per-connection loop and    *)
(* request handlers (server.rs) over the row store of Timeline, and the    *)
(* viewer's side of the socket (main.tsx) with the part of its renderer    *)
(* that decides what to fetch (timeline.ts): the view, the rows held, the  *)
(* live-follow frontier and the guard against a second request in flight.  *)
(*                                                                         *)
(* The socket is first-in first-out, so `meta`, `head` and `status` are    *)
(* taken in the step that sends them.  Requests are served by tasks of     *)
(* their own and may be answered late and in any order.  A request that a  *)
(* later one has superseded keeps only its place in `superseded`: its      *)
(* reply is dropped whatever it carries.                                   *)
(*                                                                         *)
(* Timers say when a frame is due; here it may be due at any time.  Left   *)
(* out: GC pauses and samples, slow log and detail requests, a viewer on a *)
(* recording, a server that restarts with another capture.                 *)
(***************************************************************************)
EXTENDS Timeline

CONSTANTS
  WinCap,       \* WINDOW_CAP: rows in one reply
  AppendMax,    \* APPEND_MAX_ROWS: rows held beyond which a tail is not asked for
  Width,        \* width of the view in time at the first zoom
  CappedMargin, \* margin of a window request after a truncated window
  TailMargin,   \* margin of a tail request
  MaxTime,      \* bound: the wall clock
  PanTo,        \* right edges a user moves the view to
  MaxFaults,    \* bound: lost connections, lost replies and tracer stalls
  MaxSuperseded \* bound: superseded requests not answered yet

ASSUME LiveFollowAssumption ==
  /\ WinCap \in Nat \ {0} /\ AppendMax \in Nat \ {0} /\ Width \in Nat \ {0}
  /\ CappedMargin \in Nat \ {0} /\ TailMargin \in Nat \ {0}
  /\ MaxTime \in Nat /\ PanTo \subseteq Nat /\ MaxFaults \in Nat /\ MaxSuperseded \in Nat
  /\ 0 \notin Durs  \* a run interval lasts: two switches have two time stamps

VARIABLES
  now,        \* wall clock, in trace time (since the hook was installed)
  counters,   \* Db's atomics: total, span and origin of what was ingested
  detached,   \* the session was detached
  tracerQuiet,\* tracer_stalled, set by the stats monitor
  pushed,     \* the connection loop's last_head, last_stalled and was_detached
  socket,     \* "down", "open", "met" (meta is out) or "up" (the loop runs)
  flight,     \* the latest viewport request and what became of it
  superseded, \* older viewport requests that are still to be answered
  known,      \* what the viewer was told: live, stalled, span, origin
  view,       \* follow, right edge and width of the view, from the origin
  buf,        \* rows held, loaded range, frontier, capped, lastSorted
  vpInFlight, \* the viewer's guard: a request is taken to be outstanding
  faults      \* connections and replies lost and tracer stalls so far

server == <<counters, detached, tracerQuiet>>
viewer == <<known, view, buf, vpInFlight>>
liveVars == <<vars, now, server, pushed, socket, flight, superseded, viewer, faults>>

NoFlight == [stage |-> "none"]

-----------------------------------------------------------------------------
(* The view and what a frame of the viewer asks for. *)

\* liveEdgeMs: the wall clock while live and flowing, else the end of the data.
LiveEdge(k) == IF k.live /\ ~k.stalled THEN Larger(now, k.span) ELSE k.span

\* The right edge of the view on the next frame: pinned while following.
Right == IF view.follow THEN LiveEdge(known) ELSE Smaller(view.right, LiveEdge(known))

\* The visible range in trace time.
VisT0 == known.origin + AtLeastZero(Right - view.width)
VisT1 == known.origin + Right

Inside == VisT0 >= buf.lo /\ VisT1 <= buf.hi
NearLive == known.live /\ Right >= known.span - view.width
\* Mutant of Due: a loaded view stays quiet, near the live edge as well.
DueOutside == ~Inside

Due == view.follow \/ ~Inside \/ NearLive

\* canAppendNow: the next follow request may be for the tail alone.
CanAppend ==
  /\ view.follow /\ known.live /\ ~known.stalled
  /\ buf.lastSorted /\ buf.rows # << >> /\ ~buf.capped /\ Len(buf.rows) < AppendMax
  /\ buf.hi > buf.lo /\ VisT0 >= buf.lo

\* Mutant of TailQuery: asks for the row at the frontier again.
TailQueryInclusive == [append |-> TRUE, from |-> buf.cursor - 1, t0 |-> buf.cursor,
                       t1 |-> VisT1 + TailMargin]

TailQuery == [append |-> TRUE, from |-> buf.cursor, t0 |-> buf.cursor,
              t1 |-> VisT1 + TailMargin]

WindowQuery ==
  LET width  == VisT1 - VisT0
      margin == IF buf.capped THEN CappedMargin ELSE Larger(width, 1)
  IN  [append |-> FALSE, from |-> 0, t0 |-> AtLeastZero(VisT0 - margin),
       t1 |-> VisT1 + margin]

NextQuery == IF CanAppend THEN TailQuery ELSE WindowQuery

\* The request is sent if the socket is open; what it supersedes stays with the
\* server until it is answered.
Send(query) ==
  IF socket = "down" THEN UNCHANGED <<flight, superseded>>
  ELSE /\ flight' = [stage |-> "asked", query |-> query]
       /\ IF flight.stage \in {"none", "lost"} THEN UNCHANGED superseded
          ELSE /\ superseded < MaxSuperseded
               /\ superseded' = superseded + 1

\* VP_TIMEOUT is longer than any reply that does arrive ("it MUST exceed a
\* slow-but-working round-trip"): it passes only when nothing is to come.
TimedOut == socket = "down" \/ flight.stage = "lost"

\* A frame that asks for rows.
Request ==
  /\ Due
  /\ ~vpInFlight \/ TimedOut
  /\ NextQuery.append => NextQuery.t1 > NextQuery.from
  /\ vpInFlight' = TRUE
  /\ view' = [view EXCEPT !.right = IF view.follow THEN 0 ELSE Right]
  /\ Send(NextQuery)
  /\ UNCHANGED <<vars, now, server, pushed, socket, known, buf, faults>>

\* A frame that only pulls the view back to the live edge.
Redraw ==
  /\ ~view.follow /\ Right # view.right
  /\ view' = [view EXCEPT !.right = Right]
  /\ UNCHANGED <<vars, now, server, pushed, socket, flight, superseded, known, buf,
                 vpInFlight, faults>>

\* The user drags, scrolls or seeks: the view stops following.
Pan(right) ==
  /\ view' = [view EXCEPT !.follow = FALSE, !.right = right]
  /\ UNCHANGED <<vars, now, server, pushed, socket, flight, superseded, known, buf,
                 vpInFlight, faults>>

\* The follow button, which is there while connected to a live session.
Unfollowed == [view EXCEPT !.follow = FALSE, !.right = Right]
ToggleFollow ==
  /\ socket # "down" /\ known.live
  /\ view' = IF view.follow THEN Unfollowed
             ELSE [view EXCEPT !.follow = TRUE, !.right = 0]
  /\ UNCHANGED <<vars, now, server, pushed, socket, flight, superseded, known, buf,
                 vpInFlight, faults>>

\* fit() on a session that is not live: the whole span, from its beginning.
Fitted ==
  LET width == Larger(view.width, counters.span)
  IN  [view EXCEPT !.follow = FALSE, !.width = width, !.right = width]

-----------------------------------------------------------------------------
(* The server: ingest, the stats monitor, detach, and the answer to a request. *)

\* A row that has ended is handed to the DB; the counters move first.  When the
\* DB appends what it has queued does not show: every query appends it first.
Ingest(row) ==
  /\ EndOf(row) <= now
  /\ \A i \in 1..Len(df) : df[i] # row
  /\ \A i \in 1..Len(pending) : pending[i] # row
  /\ counters' = [total  |-> counters.total + 1,
                  span   |-> Larger(counters.span, EndOf(row)),
                  origin |-> IF counters.total = 0 THEN row.start ELSE counters.origin]
  /\ Receive(<<row>>)
  /\ UNCHANGED <<now, detached, tracerQuiet, pushed, socket, flight, superseded, viewer,
                 faults>>

Tick ==
  /\ now < MaxTime
  /\ now' = now + 1
  /\ UNCHANGED <<vars, server, pushed, socket, flight, superseded, viewer, faults>>

\* The stats monitor sets and clears tracer_stalled.
Monitor ==
  /\ ~detached /\ counters.total > 0
  /\ tracerQuiet' = ~tracerQuiet
  /\ IF tracerQuiet THEN UNCHANGED faults ELSE faults < MaxFaults /\ faults' = faults + 1
  /\ UNCHANGED <<vars, now, counters, detached, pushed, socket, flight, superseded, viewer>>

Detach ==
  /\ ~detached
  /\ detached' = TRUE
  /\ UNCHANGED <<vars, now, counters, tracerQuiet, pushed, socket, flight, superseded,
                 viewer, faults>>

\* What the DB thread returns, read after it has appended what was queued.
Answered(query) ==
  LET reply == IF query.append THEN TailFrame(query.from, query.t1, WinCap)
                               ELSE Window(query.t0, query.t1, WinCap)
  IN  [stage |-> "answered", query |-> query, rows |-> reply.rows,
       capped |-> reply.capped, sorted |-> sorted, span |-> counters.span]

\* Cmd::Query on the DB thread, for the latest request.
Answer ==
  /\ socket = "up" /\ flight.stage = "asked"
  /\ FlushPending(pending)
  /\ UNCHANGED <<now, server, pushed, socket, superseded, viewer, faults>>
  /\ \E query \in {flight.query} : flight' = Answered(query)'

\* A query fails: the handler logs it and sends no reply.
LoseReply ==
  /\ socket = "up" /\ faults < MaxFaults
  /\ \/ flight.stage = "asked" /\ flight' = [stage |-> "lost"] /\ UNCHANGED superseded
     \/ superseded > 0 /\ superseded' = superseded - 1 /\ UNCHANGED flight
  /\ FlushPending(pending)
  /\ faults' = faults + 1
  /\ UNCHANGED <<now, server, pushed, socket, viewer>>

-----------------------------------------------------------------------------
(* The viewer reads the socket. *)

StartsIn(rows) == {rows[i].start : i \in 1..Len(rows)}
EndsIn(rows) == {EndOf(rows[i]) : i \in 1..Len(rows)}
LatestOf(S, floor) == CHOOSE m \in S \cup {floor} : \A n \in S \cup {floor} : n <= m
EarliestOf(S) == CHOOSE m \in S : \A n \in S : m <= n

\* loadWindowColumnar, setLoadedRange: the window replaces what was held; of a
\* truncated one only the rows' own range counts as loaded.
Loaded(f) ==
  LET bounded == f.capped /\ f.rows # << >>
  IN  [rows |-> f.rows, cursor |-> LatestOf(StartsIn(f.rows), 0),
       lo |-> IF bounded THEN EarliestOf(StartsIn(f.rows)) ELSE f.query.t0,
       hi |-> IF bounded THEN LatestOf(EndsIn(f.rows), 0) ELSE f.query.t1,
       capped |-> f.capped, lastSorted |-> f.sorted]

\* Mutant of Extended: advances the frontier to the edge asked for.
ExtendedToEdge(f) ==
  IF f.capped
  THEN [buf EXCEPT !.capped = TRUE, !.lastSorted = f.sorted]
  ELSE [buf EXCEPT !.rows = @ \o f.rows, !.cursor = Larger(@, f.query.t1),
                   !.hi = Larger(@, f.query.t1), !.lastSorted = f.sorted]

\* loadWindowAppend: the tail goes behind what is held; a truncated tail is not
\* used and forces a window instead.
Extended(f) ==
  IF f.capped
  THEN [buf EXCEPT !.capped = TRUE, !.lastSorted = f.sorted]
  ELSE [buf EXCEPT !.rows = @ \o f.rows, !.cursor = LatestOf(StartsIn(f.rows), @),
                   !.hi = Larger(@, f.query.t1), !.lastSorted = f.sorted]

\* encode_window reads the span between the answer and the sending of it.
SpansSince(s) ==
  {e \in EndsIn(df \o pending) \cup {s} : s <= e /\ e <= counters.span}

\* The reply to the latest request; `meta` comes before any reply.
Apply ==
  /\ socket = "up" /\ flight.stage = "answered"
  /\ vpInFlight' = FALSE
  /\ \E span \in SpansSince(flight.span) : known' = [known EXCEPT !.span = span]
  /\ buf' = IF flight.query.append THEN Extended(flight) ELSE Loaded(flight)
  /\ flight' = NoFlight
  /\ UNCHANGED <<vars, now, server, pushed, socket, superseded, view, faults>>

\* The reply to a superseded request: dropped, but it clears the guard.
ApplyStale ==
  /\ socket = "up" /\ superseded > 0
  /\ FlushPending(pending)
  /\ superseded' = superseded - 1
  /\ vpInFlight' = FALSE
  /\ UNCHANGED <<now, server, pushed, socket, flight, known, view, buf, faults>>

\* The connection loop's tick: a head when something moved, none once detached.
PushHead ==
  /\ socket = "up" /\ ~detached
  /\ <<counters.span, counters.total, tracerQuiet>> # pushed.head
  /\ pushed' = [pushed EXCEPT !.head = <<counters.span, counters.total, tracerQuiet>>]
  /\ known' = [known EXCEPT !.span = counters.span, !.stalled = tracerQuiet]
  /\ UNCHANGED <<vars, now, server, socket, flight, superseded, view, buf, vpInFlight,
                 faults>>

\* The tick after a detach tells the viewer, which freezes.
Status ==
  /\ socket = "up" /\ detached # pushed.detached
  /\ pushed' = [pushed EXCEPT !.detached = detached]
  /\ known' = [known EXCEPT !.live = ~detached]
  /\ view' = Unfollowed
  /\ UNCHANGED <<vars, now, server, socket, flight, superseded, buf, vpInFlight, faults>>

\* The connection dies with everything that was outstanding on it.
Drop ==
  /\ faults < MaxFaults /\ socket # "down"
  /\ faults' = faults + 1
  /\ socket' = "down"
  /\ flight' = NoFlight /\ superseded' = 0
  /\ view' = Unfollowed
  /\ vpInFlight' = FALSE
  /\ UNCHANGED <<vars, now, server, pushed, known, buf>>

\* A second later it is made again.
Open ==
  /\ socket = "down"
  /\ socket' = "open"
  /\ UNCHANGED <<vars, now, server, pushed, flight, superseded, viewer, faults>>

\* Mutants of Meta: a new connection is always told the session is live; the
\* guard stays as it is.
MetaAlwaysLive ==
  /\ socket = "open"
  /\ socket' = "met"
  /\ vpInFlight' = FALSE
  /\ known' = [known EXCEPT !.live = TRUE, !.span = counters.span,
                            !.origin = counters.origin]
  /\ UNCHANGED <<vars, now, server, pushed, flight, superseded, view, buf, faults>>

MetaKeepsGuard ==
  /\ socket = "open"
  /\ socket' = "met"
  /\ known' = [known EXCEPT !.live = ~detached, !.span = counters.span,
                            !.origin = counters.origin]
  /\ view' = IF detached THEN Fitted ELSE view
  /\ UNCHANGED <<vars, now, server, pushed, flight, superseded, buf, vpInFlight, faults>>

\* The first message of a connection, with the state of the session as it is.
Meta ==
  /\ socket = "open"
  /\ socket' = "met"
  /\ vpInFlight' = FALSE
  /\ known' = [known EXCEPT !.live = ~detached, !.span = counters.span,
                            !.origin = counters.origin]
  /\ view' = IF detached THEN Fitted ELSE view
  /\ UNCHANGED <<vars, now, server, pushed, flight, superseded, buf, faults>>

\* Once `meta` is sent the connection notes where it starts and enters its loop.
EnterLoop ==
  /\ socket = "met"
  /\ socket' = "up"
  /\ pushed' = [head |-> <<0, 0, FALSE>>, detached |-> detached]
  /\ UNCHANGED <<vars, now, server, flight, superseded, viewer, faults>>

-----------------------------------------------------------------------------
LiveInit ==
  /\ Init
  /\ now = 0
  /\ counters = [total |-> 0, span |-> 0, origin |-> 0]
  /\ detached = FALSE /\ tracerQuiet = FALSE
  /\ pushed = [head |-> <<0, 0, FALSE>>, detached |-> FALSE]
  /\ socket = "down"
  /\ flight = NoFlight /\ superseded = 0
  /\ known = [live |-> FALSE, stalled |-> FALSE, span |-> 0, origin |-> 0]
  /\ view = [follow |-> TRUE, right |-> 0, width |-> Width]
  /\ buf = [rows |-> << >>, cursor |-> 0, lo |-> 0, hi |-> -1, capped |-> FALSE,
            lastSorted |-> TRUE]
  /\ vpInFlight = FALSE
  /\ faults = 0

LiveNext ==
  \/ Request \/ Redraw \/ (\E right \in PanTo : Pan(right)) \/ ToggleFollow
  \/ (\E row \in Row : Ingest(row)) \/ Tick \/ Monitor \/ Detach
  \/ Answer \/ LoseReply
  \/ Apply \/ ApplyStale \/ PushHead \/ Status
  \/ Drop \/ Open \/ Meta \/ EnterLoop

\* Frames run, tasks and the DB thread answer, the connection loop ticks, and a
\* lost connection is retried.
LiveFairness ==
  /\ WF_liveVars(Request) /\ WF_liveVars(Answer) /\ WF_liveVars(Apply)
  /\ WF_liveVars(ApplyStale) /\ WF_liveVars(PushHead)
  /\ WF_liveVars(Open) /\ WF_liveVars(Meta) /\ WF_liveVars(EnterLoop)

LiveSpec == LiveInit /\ [][LiveNext]_liveVars /\ LiveFairness

-----------------------------------------------------------------------------
(* Properties. *)

Held == {buf.rows[i] : i \in 1..Len(buf.rows)}
Stored == {df[i] : i \in 1..Len(df)}

\* No row is drawn twice, however windows, tails, reconnections and replies
\* that come too late follow on one another ("only strictly-later rows are new
\* (no dup)").
HeldOnce == Cardinality(Held) = Len(buf.rows)

\* Of a timeline in start order the viewer holds every row that reaches into
\* its loaded range and starts no later than its frontier: no tail, truncated
\* window or change from one to the other leaves a hole behind it.
NoGap ==
  sorted /\ buf.rows # << >> => \A row \in Stored :
    row.start <= buf.cursor /\ Overlaps(row, buf.lo, buf.hi) => row \in Held

\* On a connection the guard is up only while a request really is outstanding
\* or was lost, so nothing that happened before or during a reconnection can
\* keep the viewer from asking.
GuardHonest == socket \in {"met", "up"} /\ vpInFlight => flight.stage # "none"

\* The connection takes a detach for told although the viewer was told otherwise.
Untold == socket \in {"met", "up"} /\ detached /\ known.live /\ (socket = "up" => pushed.detached)

\* A viewer goes untold of a detach for the rest of its connection only if the
\* detach falls between the connection's `meta` and the second look it takes at
\* `detached`: one that comes before, or at any time after, is told.
DetachIsTold == [][Untold' => Untold \/ (socket = "met" /\ ~detached)]_liveVars

\* All that the view shows was asked for and has come.
Complete == \A row \in Stored : Overlaps(row, VisT0, VisT1) => row \in Held

\* A viewer that goes on following a live session whose tracer keeps running,
\* and whose requests do not overtake each other, sees again and again every
\* row of its view or is told the view is truncated.
FollowCatchesUp ==
  <>[](socket = "up" /\ known.live /\ view.follow /\ ~tracerQuiet /\ superseded = 0)
    => []<>(Complete \/ buf.capped)

\* What the documentation says of a live session: the viewer "follows the
\* leading edge as it grows".  So while it follows, a row that has just ended is
\* not left of the whole view.
LeadingEdgeInView ==
  socket = "up" /\ known.live /\ view.follow /\ counters.span = now => VisT0 <= now

\* What the comments say of a paused viewer: near the live edge the view is
\* kept refreshing, "inspecting older (immutable) data -> quiet", and inside
\* the loaded range "empty margins are genuinely empty".  So a viewer that has
\* no reason to ask again shows every row of its view.
QuietIsComplete ==
  socket = "up" /\ known.live /\ ~Due /\ flight.stage = "none" /\ ~buf.capped
    => Complete
=============================================================================
