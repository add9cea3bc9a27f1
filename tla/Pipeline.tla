------------------------------ MODULE Pipeline -------------------------------
(***************************************************************************)
(* The way of a row from the socket to an answer: the collector thread     *)
(* (module Collector), the DB handle it calls (ingest_executions and       *)
(* ingest_gc of Db, db.rs), the channel, the DB thread with its row store  *)
(* (module Timeline) and the viewer tasks that put queries into the same   *)
(* channel.                                                                *)
(*                                                                         *)
(* toDb of Collector is the list of calls made on the handle.  A call      *)
(* raises the counters one after the other and only then sends; the        *)
(* collector does nothing else meanwhile, everyone else does.  A batch in  *)
(* the channel is the DB thread's to take whenever it is scheduled.        *)
(***************************************************************************)
EXTENDS Collector, FiniteSetsExt

CONSTANTS
  FlushRows,   \* FLUSH_ROWS of the DB thread
  MaxQueries   \* bound: queries asked

ASSUME PipelineAssumption ==
  /\ FlushRows \in Nat \ {0}
  /\ MaxQueries \in Nat

VARIABLES
  given,       \* calls on the handle that have returned
  at,          \* what the call under way does next: "total", "origin", "span", "send"
  total, origin, span,  \* the counters of the handle; no origin yet is -1
  channel,     \* commands sent, not yet taken
  queued,      \* pending of the DB thread
  df, starts, sorted, maxEnd, retainedFrom,   \* its row store
  gcs,         \* its GC pauses
  query,       \* the query under way: where it is and the rows sent before it
  asked        \* queries asked so far

counters == <<total, origin, span>>
frame == <<df, starts, sorted, maxEnd, retainedFrom>>
dbThread == <<channel, queued, frame, gcs>>
viewer == <<query, asked>>
pipeVars == <<vars, given, at, counters, dbThread, viewer>>

\* Times never pass MaxTime here: every switch adds at most 1.
MaxTime == MaxFrames

T == INSTANCE Timeline WITH
  Gids <- 1..MaxFrames, Starts <- 0..MaxTime, Durs <- 0..MaxTime,
  MaxBatch <- Batch, MaxRows <- MaxFrames, Capped <- FALSE, CapRows <- 1,
  AppendMayFail <- FALSE, I64Max <- 2 * MaxTime + 1, Tolerance <- 0, Asked <- {}, Caps <- {},
  pending <- queued

-----------------------------------------------------------------------------
(* The handle. *)

Calling == given < Len(toDb)
Call == toDb[given + 1]
Ends(rows) == {rows[i].start + rows[i].dur : i \in 1..Len(rows)}

\* Mutant of AddTotal: the batch is sent before the counters move.
SendFirst ==
  /\ Calling /\ at = "total"
  /\ channel' = Append(channel, Call)
  /\ given' = given + 1
  /\ UNCHANGED <<vars, at, counters, queued, frame, gcs, viewer>>

\* The counters take only executions into account.
AddTotal ==
  /\ Calling /\ at = "total"
  /\ IF Call.kind = "gc" THEN at' = "send" /\ UNCHANGED total
     ELSE at' = "origin" /\ total' = total + Len(Call.items)
  /\ UNCHANGED <<vars, given, origin, span, dbThread, viewer>>

\* Set once, by the first batch there is.
SetOrigin ==
  /\ at = "origin" /\ at' = "span"
  /\ origin' = IF origin = -1 THEN Call.items[1].start ELSE origin
  /\ UNCHANGED <<vars, given, total, span, dbThread, viewer>>

RaiseSpan ==
  /\ at = "span" /\ at' = "send"
  /\ span' = Max({span} \cup Ends(Call.items))
  /\ UNCHANGED <<vars, given, total, origin, dbThread, viewer>>

SendCall ==
  /\ at = "send" /\ at' = "total"
  /\ channel' = Append(channel, Call)
  /\ given' = given + 1
  /\ UNCHANGED <<vars, counters, queued, frame, gcs, viewer>>

HandleStep == AddTotal \/ SetOrigin \/ RaiseSpan \/ SendCall

\* The collector runs between its calls; the target and the user at any time.
CollectorRuns == ~Calling /\ Step /\ UNCHANGED <<given, at, counters, dbThread, viewer>>
OutsideMoves == (Send \/ Close \/ AskStop) /\ UNCHANGED <<given, at, counters, dbThread, viewer>>

-----------------------------------------------------------------------------
(* Queries: they share the channel with the batches. *)

NoQuery == [stage |-> "none", expects |-> 0, rows |-> 0]
ItemsOf(cmds, kind) ==
  FlattenSeq([i \in 1..Len(cmds) |-> IF cmds[i].kind = kind THEN cmds[i].items ELSE << >>])
RowsOf(cmds) == ItemsOf(cmds, "executions")
GcsOf(cmds) == ItemsOf(cmds, "gc")

Query == [kind |-> "query", items |-> << >>]

\* A viewer task asks; what it may expect are the rows sent so far.
Ask ==
  /\ query.stage \in {"none", "answered"} /\ asked < MaxQueries
  /\ channel' = Append(channel, Query)
  /\ query' = [stage |-> "queued", expects |-> Len(RowsOf(SubSeq(toDb, 1, given))), rows |-> 0]
  /\ asked' = asked + 1
  /\ UNCHANGED <<vars, given, at, counters, queued, frame, gcs>>

-----------------------------------------------------------------------------
(* The DB thread. *)

Takes(kind) == channel # << >> /\ channel[1].kind = kind /\ channel' = Tail(channel)

TakeRows ==
  /\ Takes("executions")
  /\ T!Receive(channel[1].items)
  /\ UNCHANGED <<vars, given, at, counters, gcs, viewer>>

TakeGc ==
  /\ Takes("gc")
  /\ gcs' = gcs \o channel[1].items
  /\ UNCHANGED <<vars, given, at, counters, queued, frame, viewer>>

\* Mutant of TakeQuery: what is queued is not appended first.
TakeQueryUnflushed ==
  /\ Takes("query")
  /\ query' = [query EXCEPT !.stage = "answered", !.rows = Len(df)]
  /\ UNCHANGED <<vars, given, at, counters, queued, frame, gcs, asked>>

\* Every query appends what is queued, then answers inline, or takes a snapshot
\* of the frame for a thread of the read pool (slow log, statistics).
TakeQuery ==
  /\ Takes("query")
  /\ T!FlushPending(queued)
  /\ \E stage \in {"answered", "snapshot"} : query' = [query EXCEPT !.stage = stage, !.rows = Len(df')]
  /\ UNCHANGED <<vars, given, at, counters, gcs, asked>>

PoolAnswers ==
  /\ query.stage = "snapshot"
  /\ query' = [query EXCEPT !.stage = "answered"]
  /\ UNCHANGED <<vars, given, at, counters, dbThread, asked>>

\* Mutant of IdleFlush: the rows wait for a full batch or a query.
IdleFlushNever == FALSE /\ UNCHANGED pipeVars

\* Nothing in the channel for FLUSH_IDLE.
IdleFlush ==
  /\ channel = << >>
  /\ T!Flush
  /\ UNCHANGED <<vars, given, at, counters, channel, gcs, viewer>>

DbStep == TakeRows \/ TakeGc \/ TakeQuery \/ IdleFlush

-----------------------------------------------------------------------------
PipeInit ==
  /\ Init
  /\ given = 0 /\ at = "total"
  /\ total = 0 /\ origin = -1 /\ span = 0
  /\ channel = << >> /\ T!Init /\ gcs = << >>
  /\ query = NoQuery /\ asked = 0

PipeNext == HandleStep \/ CollectorRuns \/ OutsideMoves \/ Ask \/ DbStep \/ PoolAnswers

\* The collector gets to the end of its buffer when FLUSH_INTERVAL has passed.
FlushFallsDue == CollectorRuns /\ TimedFlush /\ FlushBoth

\* The collector and the DB thread are scheduled and their waits time out.  A
\* collector that drains its buffer again and again does so, again and again,
\* after FLUSH_INTERVAL: rounds take time.
PipeSpec ==
  /\ PipeInit /\ [][PipeNext]_pipeVars
  /\ WF_pipeVars(CollectorRuns \/ HandleStep) /\ WF_pipeVars(DbStep)
  /\ SF_pipeVars(FlushFallsDue)

-----------------------------------------------------------------------------
(* Properties. *)

\* Whatever the batches, the flushes and the way the session ends, the rows of
\* the frame, those queued, in the channel, in a call and waiting in the
\* collector are, in this order, one per interval between two switches of a
\* thread, each attributed to the greenlet switched in at its start, none
\* inflated by another thread, none lost, repeated or out of order; and so are
\* the GC pauses.
PipeExact ==
  LET calls == SubSeq(toDb, given + 1, Len(toDb))
      rows == df \o queued \o RowsOf(channel \o calls) \o pending
      pauses == gcs \o GcsOf(channel \o calls) \o pendingGc
  IN  /\ InPlace(rows, Closers, RowOf)
      /\ InPlace(pauses, GcPlaces, LAMBDA j : j)

\* The counters a viewer reads from the head are never behind the rows it can
\* get: each row in the channel or in the frame is counted in `total` and ends
\* by `span`, and `origin` is the start of the very first one.
CountersLead ==
  LET reachable == df \o queued \o RowsOf(channel)
  IN  /\ Len(reachable) <= total
      /\ \A e \in Ends(reachable) : e <= span
      /\ reachable # << >> => origin = reachable[1].start

\* An answer holds every row that was in the channel before the question,
\* whether it is given inline or from a snapshot on the read pool.
AnswersFresh == query.stage = "answered" => query.rows >= query.expects

\* "A single cooperative runtime thread closes executions in start order": while
\* one hub thread only has switched, the fast path stays available.
OneHubSorted ==
  (\A i, j \in 1..decoded :
     stream[i].kind = "switch" /\ stream[j].kind = "switch" => stream[i].thread = stream[j].thread)
  => sorted

OnItsWay ==
  pending # << >> \/ pendingGc # << >> \/ Calling \/ channel # << >> \/ queued # << >>

\* What was decoded, rows and pauses, gets into the DB thread's store before
\* long: no full batch, no query, no end of the session and no pause of the
\* target, which may trickle bytes for ever, is needed. (That it gets there and
\* nowhere else is PipeExact.)
EventuallyInFrame == OnItsWay ~> ~OnItsWay
=============================================================================
