# greenlane: specifications, model checking and proofs

greenlane attaches to a running Python process, injects a hook that reports
every greenlet switch and GC pause over a Unix socket, keeps the resulting
*executions* (one per interval between two switches of a thread) in a columnar
store, serves them to a browser, and can record them to a `.glr` file.

This directory holds TLA+ modules of the parts whose correctness is hard to
test, TLC configurations that check them on small instances, and TLAPS proofs of
the properties that matter most for every value of the constants.  Paths below
are relative to the repository (`src/` is its Rust crate, `web/` its viewer).

## 1. Inventory

| Component | State it keeps | Operations | Modules |
|---|---|---|---|
| Injected hook, `src/bootstrap.py`, `src/glr.py` | byte buffer, queue of GC events, string and stack pools, time base | switch callback, GC callback, flush (50 ms or 16 KiB), teardown | `Hook` |
| Wire format, `src/trace_format.rs`, `src/glr.py` | pools and time base on both sides | frame encode, frame decode, reset of the time base, numbers, reading from pieces | `Wire`, `Framing` |
| Collector thread, `src/main.rs` `read_executions` | read buffer, running greenlet and last time per thread, two pending batches | read, decode, hand over, end of session | `Collector`, `Pipeline` |
| DB handle, `src/db.rs` `Db` | counters (rows, origin, last end), a channel | ingest, query | `Pipeline` |
| DB thread and timeline, `src/db.rs` | pending rows, frame, start mirror, order flag, max end, GC and sample lists, recording cursors | append, evict, window, tail, detail, seal | `Timeline`, `Pipeline` |
| Reports, `src/db.rs`, `analyze` of `src/main.rs` | none | slow log, statistics, per-greenlet totals, summary | `Reports` |
| Recording, `src/record.rs` | file, meta flag, fsynced length | create, seal a segment, read segments, ingest a file | `Recording`, `DurableLog`, `Framing` |
| Attach session, `attach` of `src/main.rs` | `running`, `detached`, thread handles, private directory | inject, accept, serve, record, join, clean up, last flush | `Session` |
| Sampler, `src/sysinfo.rs` | thread id, started flag | one sample per interval | `Session` |
| Server, `src/server.rs` | connected clients, stall level | heads, requests, detach | `LiveFollow`, `Session` |
| Viewer, `web/src/` | loaded range, held rows, frontiers, request in flight | load window, append tail, follow, reconnect | `LiveFollow` |
| Command line, installer, build, bench, packaging | none | | not modelled |

### How they interact

    hook --bytes--> collector --Cmd::Executions, Cmd::Gc--> DB thread --segments--> .glr file
                        |                                      ^   |
                        +--counters--> Db handle --queries-----+   |
                                          ^                        |
                     viewer <--heads, windows-- server <--replies--+

* The hook runs inside the target and may not block it for long: it gives up on
  the socket after 5 s.  GC callbacks fire on any thread and only queue.
* The collector never returns an error once it reads: corrupt streams and reset
  sockets end the session but keep what was decoded.
* The DB handle's counters are atomics updated *before* the batch is in the
  channel; the channel is FIFO, so a query sees the rows sent before it.
* Every recording flush and every windowed query run on the DB thread, one at a
  time, and first append the rows that are still pending.
* `serve_mode` and `record_to_file` join the collector (and the recorder) before
  the last flush: this order is what makes a recording complete.

### What is hard, and what makes each part correct

* **Timeline.**  Two query paths answer the same questions, one by binary search
  over the start mirror, the other by scanning.  The first may be used only while
  rows are in order and do not overlap, and this is decided incrementally, batch by
  batch, across refused batches and eviction.  Correct means: mirror and frame agree
  row by row; the order flag is never up when it should not be; a reply is complete
  or says it was cut; the horizon shown to the viewer is the oldest row held.
* **Reports.**  Six data-frame queries, each with a filter of its own, whose figures
  end up side by side.  Correct means that they do not contradict one another.
* **Recording.**  Delta flushes over an append-only file with a process that may die
  at any instant and a disk that may refuse.  Correct means: what was reported as
  written can be read back, once and in order, and the cursors never pass the disk.
* **Collector and handle.**  Several hub threads share a socket, four things end a
  session, three places hand batches over, and counters, channel and row store are
  three threads' business.  Correct means: one row per interval, with the right
  greenlet, exactly once and promptly, from the socket to an answer; counters never
  behind what a viewer can get; a thread that always ends.
* **Session.**  Five kinds of threads, a command that may fail at any of a dozen
  places, Ctrl-C at any instant.  Correct means: it ends, what was decoded is in the
  file, nothing stays in `/tmp`.
* **Hook.**  A partial send, the last flush of a teardown, a bounded GC queue,
  two sessions stacked on one thread.
* **Wire.**  Both sides' pools and time base must stay in step although a full pool
  degrades and a long pause resets the base; bytes come in arbitrary pieces and a file
  may end anywhere.
* **Server and viewer.**  One request in flight, a 30 s timeout, late replies,
  appending at a frontier while heads keep arriving, a detach between two awaits.

The full list, each at its source line and with the properties that cover it, is
`hazards` in `PROJECT.json`.

## 2. Plan

Done, the most important state first:

1. `Timeline` and `TimelineProofs`: the row store and the windowed queries.
2. `DurableLog`, `Recording` and `RecordingProofs`: the recording and the abstract
   log it implements.
3. `Collector`: from frames to rows (its theorems are the first part of
   `PipelineProofs`).
4. `Hook` and `HookProofs`: the trace function, its buffer and GC queue, stacked
   sessions.
5. `Wire` and `WireProofs`: the encoders and the decoder of the stream and of the recording.
6. `LiveFollow` and `LiveFollowProofs`: a viewer's connection over the row store of
   `Timeline`.
7. `Pipeline` and `PipelineProofs`: `Collector`, the handle, the channel and `Timeline`
   composed, with a query under way.
8. `Session` and `SessionProofs`: an attach session with its error paths and threads.
9. `Reports`: the aggregates over the frame of `Timeline` (its theorems are
   in `TimelineProofs`).
10. `Framing`: bytes, frames and the container of a recording, below the frames of `Wire`
    (its theorems are the last part of `WireProofs`).

`SequenceLemmas` holds what the proofs of several modules need to know of sequences, of
folds, of recursive functions, of sets of numbers and of sums over sets.

Next:

11. The frontiers of GC pauses and samples: the samples query, the GC part of a window,
    and the viewer's two further frontiers, in `Timeline` and `LiveFollow`.
12. Several viewers on one server, and a server restarted with another capture (the
    viewer's `reset`).
13. `Framing` with the fields of an event, so that the frames of `Wire` refine to bytes and
    its theorems and those of `Framing` join into one.

Runs keep to two or three actors, a handful of frames or rows, and every boundary
(the cap, the batch size, the size of a segment) within reach of that handful.

## 3. The modules

### Timeline

`df`, `starts`, `sorted`, `maxEnd` and `retainedFrom` are the fields of `struct
Timeline`; `pending` is the local of `db_thread`.  `Receive(batch)` is the arm
`Cmd::Executions`; `Flush` is `flush_pending` as called by the idle timeout, by every
query and by a recording flush.  `AppendBatch` does what `flush_pending` does when Polars
accepts the batch (extend the frame, mirror and bookkeeping, evict past the cap,
publish the horizon) and `DropBatch` what it does when Polars refuses it.  Queries are
operators over the state, since they change nothing: `Window`, `TailFrame` and `Detail`
each choose between a contiguous and a scanning path by `sorted`, as the code does.
The scans of `Window` and `TailFrame` compare in `i64`: `ToI64` is the clamp of a `u64`
instant, with `I64Max` the largest.  `Detail` has no clamp: its start and its length are cast
bare (`AsI64`, which wraps past `I64Max`), the radius is the length but at least the 2 ms of
`Tolerance`, and the bounds around the start saturate (`Saturated`).  A length past `I64Max`
makes the radius negative and the lookup finds nothing.

The scanning queries, `TailFrame` on either path and the candidates of `Detail` are first
taken as sets of places in the frame (`Scan`, `RowsAt`, `DetailCandidates`): the rows of
a reply are those at the first of these places (`Nth`), which is what a filter with a
limit does.

A row keeps greenlet, start and duration.  `partition_point` is modelled by what it
promises on a sorted slice (`IsCut`), not by its loop.

### Reports

`Reports` extends `Timeline`, so that every report is made of every frame the row store
can hold.  `SlowPages` and `Total` are the slow log's page and its count per tier,
`Quantile` the linear percentile of `stats` (times 100, to stay with integers),
`TrackRuns` the totals per greenlet, `Summary` and `Analyze` what `greenlane analyze`
prints.  A report is made of the places of the frame that pass its filter: a percentile
interpolates between two order statistics (`Shortest(places, k)`, the `k`-th shortest
duration), a total (`RunOf`) is a sum over places.  A sort of the code is not stable, so
`SlowPages` and `TopGreenlets` are sets: a page for every order the durations, the starts or the
run times allow.  The totals per function are those per greenlet under another key and are left
out.

### DurableLog and Recording

`DurableLog` promises, with no file in sight: entries are appended, a flush
acknowledges all of them, the process may go down, and what is then read back is a
prefix that holds all that was acknowledged.

`Recording` is the code.  The timeline is two counters of entries, executions and GC
pauses (samples share the segment and the cursor logic of the pauses).  A flush is a
sequence of steps of the DB thread: `BeginSeal`, `CreateFile` and `SyncHeader` the first
time, then `WriteSegment` and `SyncSegment` per sub-segment, then `EndSeal`, which
advances the cursors `sealed`.  `SegmentsNext` chooses where the size cap cuts.  Each
step has its failure: `FailCreate`, `IgnoreHeaderError` (the code drops that error with
`.ok()`), `FailWrite`, `FailSync`.  `GoDown` is a crash between any two steps: it keeps
the fsynced chunks and some leading part of the rest.  `Load` is `read_segments`: it drops
a torn chunk at the very end and rejects one in the middle, except that a torn length
field can swallow everything behind it.

`Log` is the refinement mapping to `DurableLog`: `sealed` is what was acknowledged, the
`to` field of the last segment loaded is what was recovered.

### Collector

`stream` is what the target has put into the socket, frame by frame; `arrived` and
`decoded` say how far the read buffer and the decoder are; `cur`, `lastTs`, `pending` and
`pendingGc` are the locals of `read_executions`; `toDb` is the list of the calls it has
made on the handle.  `pc` follows the loop: `Top` (the loop's condition), `Decode` (one
frame), `TimedFlush` (the 50 ms flush after the buffer is drained), `ReadSome` (whole frames,
or only a piece of the next), `ReadIdle`, `ReadEnd` (the three outcomes of the read) and `Finish` (closing what is open,
last flush).  `Send`, `Close` and `AskStop` are the environment: a target that sends
`meta` first, then switches, GC events or a frame that does not decode, and goes away
cleanly or with a reset; Ctrl-C or a detach.  `TimedFlush` may or may not find its 50 ms
elapsed.  An `ended = "reset"` may hide bytes that were still in the socket.

The hook of today stamps one thread per session; the format and the collector are
written for several hub threads per socket, and the run has two.

### Pipeline

`Pipeline` extends `Collector` and holds an instance of `Timeline`.  What it adds:

* **The handle.**  A call of the collector is carried out store by store: `AddTotal`,
  `SetOrigin`, `RaiseSpan`, `SendCall` are the four statements of `ingest_executions`
  (`ingest_gc` has the last only), and `given` counts the calls that have returned.  The
  collector waits for its own call (`CollectorRuns`); every other thread may come in
  between.
* **The DB thread.**  `TakeRows`, `TakeGc`, `TakeQuery` are the arms of its loop over
  `channel`, `IdleFlush` the receive that times out.  `queued` is its `pending`.
* **A viewer's task.**  `Ask` puts a query into the same channel and remembers how many
  rows had been sent before; it is answered inline, or from a snapshot by the read pool
  (`PoolAnswers`).

### Session

One `greenlane attach`, from the first check to the exit.  `pc` is the main thread in
`attach`, `serve_mode` and `record_to_file`; each early return is a disjunct (`Fail` for
every `?` of the set-up, `AcceptAborted`, the error of `ServeBind`, which leaves
`serve_mode` with the threads running and `running` up, `Conclude` for `result?`,
`LastFlush`).  `mode` is the command line: `--serve`, `--out`, both or neither (then
the output file has a default name).  With it go the collector reduced to its hand-over (a corrupt
frame may end it at any time, the end of the stream once the target has gone),
the recorder thread of `--serve --out` (`RecorderTop`, `RecorderFlush`, `RecorderIdles`),
the flush of `record_to_file`'s own loop (`WatchFlush`), and the sampler: `SetTid` starts
it at the first `meta` frame with a thread id, `SamplerReads` takes the span of the moment
as the tag of a sample and `SamplerSends` sends it, in two steps.  `CtrlC`, `Detach`,
`Kill` and the target are the environment.

A row is a number here: what the collector does with frames is `Collector`'s matter, what
a flush does to the file is `Recording`'s.  A round trip to the DB thread is one step.
The HTTP server is external (axum): it serves until its shutdown future returns, which is
when `running` is down.  That the removal of the directory itself may fail is ignored, as
it is in the code.

### Hook

One state machine for all the sessions that attach to one process, since greenlet has one
trace function per thread and each session chains to the one it finds (`prev`).  `buf`,
`gcq` are the closures `_buf`, `_gcq`; `tracer` is what `greenlet.settrace` last got; `running`
is the session whose `_cb` the hub thread is in and `phase` where in it: at the event, in the
`sendall` of `_flush`, at the `except` that leads to `_teardown`, in the last `sendall`.  Between two of
these a pause may fire on any thread, the collector may leave and another script may be injected.
`TraceEvent` is `_cb` on a switch that succeeds: drain the pauses, encode, begin a flush if it
is time (by size, or, at any time, by the 50 ms).  `Flush` is the end of that send: `SendAll` and
`SendFails` are its outcomes; a failed `sendall` has passed on some of the frames and perhaps a
piece of the next, because the collector went away or because it did not read for 5 s
(`stalled`).  `SkipEvent` is the `except` of `_cb`, for an event that raises an `Exception`; anything
else that is raised leaves `_cb`, and greenlet drops the hook, which is not modelled.  `Teardown`
takes out the GC callback, drains once more and begins the last flush; `Uninstall` closes the
socket and puts `prev` back, however that flush went.  `Pause` is `_gc_cb` on whatever thread,
`Install` the injected script, `Leave` a collector that closes its end.  The pauses' queue is
emptied in one step, a pause that fires while it is being drained being one that fires just
before.  `told`, `wire` and `skips` are histories: what was encoded, what the socket carried, and
how many events have been skipped in a row.  `MCHook` adds the symmetry of the sessions: no
action and no property tells one from another.

### Wire

Frames are records here; what is below a frame is in `Framing`.  `hub` is the encoder of
`glr.py` with its bounded pools, `dec` the decoder of the collector.  `Intern`,
`InternStack`, `Stamp` and `Put` are `str_id`, `stack_id`, `_ts_delta` and the event of `glr.py`
and, unbounded, `intern_str`, `intern_stack`, `ts_delta` and the events of the Rust encoder,
which agree line by line.  `DecodeFrame`, `Decoded` are `Decoder::step`; an undefined string,
stack or schema is an error for good.  `Switch`, `SkipSwitch` and `Pause` are what the hook
encodes; `Receive` is the collector's loop up to the next item.  `Seal` is a recording flush:
what was made of the items since the last flush is encoded by `Segments`, with a fresh
encoder for every segment, and `DecodeSegment` reads a segment back with a fresh decoder.
Unlike `Recording`, which knows nothing of the contents, no step here can fail.

### Framing

Pure functions over sequences of bytes: `WriteVarint` and `PeekVarint` (LEB128), `Zigzag`,
`StepOf` (`Decoder::step`: header, envelope, body), the loop around it (`TakeFrame`, `Drain`,
`Feed`, `ReadStream`), the container (`Segment`, `Container`), and its reader (`Fill`,
`TakeSegment`, `ReadSegments`, `IngestFile`).  What a read returned is a *piece*, and a file is
a sequence of pieces.  A loop that ends when the bytes run out is a fold: of `TakeByte` over the
bytes of a number, of `TakeFrame` and `TakeSegment` over as many places as there are bytes, which
is as many turns as the loop can take, since a frame and a segment have a byte at least; turns
past the last change nothing.  The writer of a number and the scale of a byte are recursive
functions.

The seven bits of a byte that carry a number are `Group` values, and a word is `FullGroups`
groups and one bit more, as 64 bits are nine groups and one.  A magic of four bytes is one, a
`u32` of the container is one place, and of the frame bodies only those of the string pool have
content.  DEFLATE is a function that some bytes inflate under and some do not.  `Framing`
extends `Wire` because one run looks at both: its properties are about constants.

### LiveFollow

`LiveFollow` extends `Timeline`: the answers a viewer gets are `Window` and `TailFrame` of
the row store as it is when the DB thread serves the request.  Around it there is one
viewer on one connection.

* **Server.**  `counters` are the atomics of `Db`; `pushed` the locals `last_head`,
  `last_stalled` and `was_detached` of `client`.  `Meta` and `EnterLoop` are the two halves of
  `client` before its loop, on either side of the `await` that sends `meta`.  `PushHead` and
  `Status` are the loop's tick, `Answer` and `LoseReply` the task of a request (which may fail
  and then says nothing), `Monitor` the stats monitor, `Detach` the HTTP handler.
* **Viewer.**  `known` is what messages told it, `view` is follow, position and width, `buf`
  the rows held with `loadedT0`, `loadedT1`, `dataCursorNs`, `lastWindowCapped` and `lastSorted`.
  `Request` is a frame that asks for rows: `Due`, the guard `vpInFlight`, then `CanAppend`
  chooses between `TailQuery` and `WindowQuery`.  `Apply` is a reply to the latest request
  (`Loaded` for a window, `Extended` for a tail), `ApplyStale` one to an earlier request: it is
  dropped, yet clears the guard.  `Redraw`, `Pan`, `ToggleFollow` move the view; `Drop` and
  `Open` are the socket's `onclose` and the reconnection a second later.
* **Socket.**  It is first-in first-out, and `meta`, `head` and `status` change nothing a
  message before them in the queue reads, so they are taken when they are sent.  A request
  is answered by a task of its own and its reply may come at any time after.  Of requests
  that were superseded only their number (`superseded`) matters.
* **Time.**  Intervals between frames are left open: a frame may come at any time.  The one
  time-out that matters, `VP_TIMEOUT`, passes only when no reply is to come, as its comment
  requires (`TimedOut`).

A row comes to the DB in the step that counts it, and never before it has ended; that the
counters in truth run ahead of the rows is `Pipeline`'s subject.

## 4. Runs

| Run | Question | Outcome |
|---|---|---|
| `Queries` | The row store with a row cap, refused batches and eviction, and every query and report on every frame | all hold |
| `Pipeline` | Two threads, a trickling target, all batch boundaries, all ways to end, a query at any moment | all hold |
| `Session` | Every command line, every early return, Ctrl-C, detach, kill and a target that leaves | all hold |
| `RecordingCrash` | A crash at every step, no I/O error | all hold, refines `DurableLog` |
| `RecordingErrors` | I/O errors, retried, and crashes | all hold |
| `RecordingTorn` | Does a sealed segment always stay readable? | violated |
| `Hook` | Two stacked sessions, partial sends, pauses at any step, collectors that leave | all hold |
| `HookStacked` | Does a session that ends leave the others' hooks alone? | violated |
| `LiveFollow` | Tails, windows, pans, lost replies and connections, a stall, a detach | all hold |
| `PausedView` | Does a viewer with no reason to ask again show everything? | violated |
| `OriginShift` | Does a following viewer look at what has just ended? | violated |
| `Wire` | A pool that fills up, skipped events, long steps, several segments; every number, every cut of a stream or of a recording | all hold |

**What the passing runs show.**

*`Queries`.*  `SortedContract` is the contract of the binary searches; `RangesExact` says the
two ranges they give are those the query means, `TruncationHonest` and `DetailFindsRow` what
a reply then is on either path.  Windows and tails are right for any `u64`; a detail lookup, by a
rounded start, finds a row at the smallest distance within the tolerance for any start and length
below 2^63, and nothing for a greater length (the viewer's are milliseconds).  `EvictionBehindHorizon` says that a row
still running at the published horizon is not evicted.  `SlowLogHonest` says that a tier's
total and page are right whatever the page's limit and order and whichever tier dominates;
`ReportAgrees` that the figures of a report, each from a query of its own, do not contradict
one another: the percentiles rise up to the longest, which is the first of the slowest and
the length of a row that is counted; a 99th percentile past a threshold has a row on the
slow log; the totals per greenlet add up to the total.  A page of no rows (`--top 0`) shows
no slowest, and of an empty frame the percentiles are 0, which is no row's.  Both are stated for
`LongNs <= BlockedNs`; nothing in the command line forces that order, and without it the total of
"all" counts rows its page cannot show.

*`Pipeline`.*  `PipeExact` compares what is in the frame, queued, in the channel, in a call
and waiting in the collector with a reference computed from the decoded frames alone: one
row per interval, nothing lost, repeated or out of order.  `CountersLead` is what the viewer
relies on when it asks up to `span`; `AnswersFresh` says an answer holds the rows sent before
the question, on the read pool too.  `OneHubSorted` is the comment that a single hub thread
closes its executions in start order.  `StopKeepsDecoded` says nothing decoded is lost at the
end.  `StopIsHonoured` and `EventuallyInFrame` say that the thread ends and that rows and pauses
get into the store without a full batch or a query.  The latter is stated as "something is on
its way leads to nothing is": a target that sent without pause could keep something on its
way for ever, and the whole frames of the run are bounded.  What is not bounded is how often a
read brings a piece of a frame: such a trickle keeps the read from ever timing out, and only
the timed flush (`src/main.rs:1015`) gets the rows out.

*`Session`.*  `CleanExitComplete` says a recorded session that ends well has every decoded row in
its file, and every sample but the one the unjoined sampler may hold; `DirRemoved` that once
the session has started only a kill leaves the private directory behind, and that no good exit
does before; `SamplesInOrder` that there is one sampler and its samples arrive in time order.
`SessionEnds` says that Ctrl-C ends a session wherever it stands, and that the end of the stream
ends one that serves nobody.  `SealsCatchUp` says that what was decoded gets into the file without
waiting for the end, after a detach too.

*`RecordingCrash`, `RecordingErrors`.*  `ReadBackExact` and `CleanExitKeepsAll` say what a reader finds,
`LogSpec` that the recording implements the abstract log.  `CursorsBehindDisk` says that a delta
may safely start at the cursor under any errors, `EventuallySealed` that a retry gets there.  It
does not say that the retry writes once: a segment whose fsync alone failed is written again by
the next flush, and its rows are read back twice.

*`Hook`.*  `StreamExact` says the socket carries a leading part of what was encoded, whatever went
wrong, up to a timeout on a collector that is still there.  Then the teardown starts over
at the front of its buffer, so that such a collector gets bytes twice and most likely
stops with a decode error; `StreamExact` says that this is all the repeat there is: up to the
timeout what was encoded, cut anywhere, and then, once the hook is out, a part of that same
buffer.  A pause may fire between any two steps, a send in particular: an encoder touched by
`_gc_cb` would put frames behind the hook's back into a buffer that a send then empties.
`GcExact` says a pause is encoded once, in order, and lost only behind `GcqLen` later ones.
`BufferBounded` counts every frame the hook holds: less than a flush's worth, plus a queue
of pauses for each event skipped in a row (`except` drains the queue and flushes nothing, so a
target whose every event raises does grow by a queue each time), plus two queues in the last
flush.  `LeftAsFound` says what the hook leaves in the target.

*`Wire`.*  `PoolsInStep` is what keeps a stream without a resynchronisation marker readable;
`EventsExact` and `SegmentsExact` are its consequences for the collector and for a reader of the
recording.  `NumbersRead` and `BytesRead` are facts about the functions of `Framing`, looked at
in the first state and in the first step: every number and every text comes back, what does not
fit is refused and never wrapped, how the reads cut the bytes does not matter, a reader that waits
holds less than one frame, a cut stream says it was cut, a recording cut at any byte opens with
the segments that are whole, and a damaged one is never loaded past the damage.

*`LiveFollow`.*  `HeldOnce` and `NoGap` are the two sides of the viewer's frontier: nothing is drawn
twice and nothing behind the frontier is missing, across tails, truncated replies, windows that
replace the buffer, reconnections and replies that come too late.  `NoGap` is about a
timeline in start order: out of it the viewer never appends (`lastSorted`), which
`FollowCatchesUp` needs.  `GuardHonest` says that the guard never outlives its request.
`DetachIsTold` says that a viewer misses a detach in one place only: between the `meta` it was
sent and the loop (`src/server.rs:470`).  `FollowCatchesUp` says that a viewer that goes on
following a live and running target sees every row of its view again and again; it is stated
for a viewer with no superseded request outstanding, because with one the code does not
guarantee it: the superseded reply clears the guard and lets the next request out before the
current one is answered, which is then superseded in its turn.

**A fact that no property states.**  An open interval begins at its thread's last switch, so the
loop that ends a session never yields a row and the last execution of each thread is not
recorded, however long it blocks.  It is the theorem `LastExecutionUnrecorded`.

**What the violated runs show.**
* `RecordingTorn`: a failed write may leave part of a segment in the file (or in the
  `BufWriter`, which sends it later).  The session goes on, the next flush appends behind
  it, and `read_segments` then rejects the file, the segments sealed before included.
  The comment on `SegmentWriter` (`src/record.rs:84`) says they stay readable.
* `HookStacked`: `settrace(prev)` restores what the ending session found, which also takes
  out a hook installed later on top of it.  It takes a greenlane that was killed while the
  target idled, and a second attach before the first hook noticed: at the next switch the
  old hook fails its flush, tears down, and the new session hears of no further switch.
  The comment on `_teardown` (`src/bootstrap.py:208`) promises to remove "ourselves".
* `PausedView`: a paused view asks again when it leaves the loaded range or is near the live
  edge (`web/src/timeline.ts:1548`, `1553`); the comments there take anything older for
  immutable.  An execution reaches the store when it ends.  One that started inside the
  loaded range and blocks for longer than a view's width comes when the view is no longer
  near the edge, and is not fetched until the user moves.
* `OriginShift`: positions in the view count from the first execution's start (`originNs`), the
  live edge and the span from the hook's installation.  The followed view is ahead by the
  difference.  If that is more than its width (a target that idled after the attach, a viewer
  that connected later), it stays empty while rows keep coming.

**Bounds, and why they are enough.**
* `Queries`: cap 3, starts 0 to 2, durations 0 and 2, batches of one (`MaxBatch`) queued up to two
  (`FlushRows`), two greenlets, one of them a hub.  Since eviction keeps the frame at three
  rows the run is complete for histories of any length; order broken within what is appended
  together and across appends, zero-length rows, overlaps with the last and with an earlier row,
  two greenlets that start together, and eviction on both sides of the order flag occur.
  Instants asked about (`Asked`) reach past the last end and past `I64Max` (7, with 15 the largest
  `u64`); reply caps lie below the number of rows.  A zero-length row is short, one of two units
  blocked (`LongNs` 0, `BlockedNs` 2): both tiers have rows.  `MaxRows` bounds uncapped sessions
  only, which `LiveFollow` has.
* `Pipeline`: four frames (`MaxFrames`) of two threads, batches of 2 (`BATCH` is 2048),
  `FLUSH_ROWS` 2, clock advances of 0 and 1, one query: a full batch, a partial one, an empty
  interval, an end in the middle, a call overtaken by a query and rows out of order all occur
  (half a million states).
* `Session`: two rows (`MaxRows`) and two samples (`MaxSamples`), two sampler threads to be had: rows
  before and after a flush, a sample on either side of the last flush, and a second sampler if
  the code started one.
* `RecordingCrash`: three executions and two pauses (`Held`): up to three flushes with
  something new and up to three sub-segments in one.  `RecordingErrors` and `RecordingTorn`:
  two executions, one pause, two errors or one (`MaxErrors`).
* `Hook`: two sessions, two switches, two pauses, a flush at two frames and a GC queue of
  one: a session installed in the middle of another's callback or send, a flush by size and by
  time, a pause during a send, a full queue, and a teardown of either session first all occur
  (a million and a half states, up to the symmetry of the sessions).
* `Wire`: room for three strings (`MaxPool` 4) of the four that occur, steps of 1 and 2 for a
  largest step of 1, three switches, one skipped, one pause, one sample, two flushes and
  segments of up to eight frames (`SegSoft`): a string that no longer fits, a stack that came
  before and one that came after the pool was full, a step too long, a step back (samples before
  executions) and a flush cut into several segments all occur.  For `Framing`: two bits of
  payload per byte (`Group` 4) and words of five (`FullGroups` 2), that is numbers of up to three
  bytes and every string of up to four; two texts of up to two letters, two segments of up to one
  text, frames of up to 4 (`MaxFrameLen`) and segments of up to 9 places (`MaxSegment`), cut into
  up to three pieces in every way; arbitrary inputs of up to four bytes.
* `LiveFollow`: a clock of 0 to 2 (`MaxTime`), rows starting at 0 or 1 for 1 or 2 units, two rows
  (`MaxRows`), replies of one row (`WinCap`), so that a second row truncates a window or a tail,
  an append budget of two rows, a view and margins of 1, one place to pan to, one fault
  (`MaxFaults`: a lost reply, a lost connection or a stall) and one superseded request
  (`MaxSuperseded`).  Rows in order and out of it, a row that ends after a later one started,
  an origin other than 0, appended tails, truncated ones and late replies all occur.  The two
  violated runs take no fault, and rows longer or later than the width of the view, so that it can
  lie away from the data.

`CHECK_DEADLOCK FALSE` stands where a session ends (a loaded recording, a stopped
collector, an exited process) or a bound stops it (`MaxRows`, `MaxTime`, `MaxSwitches`,
`MaxPauses`, `MaxSeals`).

**Fairness.**
* `Recording`: `WF(BeginSeal)`, for the recorder thread that asks for a flush every ten
  seconds, and `WF(InSeal \/ Failure)`, for a DB thread that finishes what it started, whether
  the step succeeds or fails; `MaxErrors` bounds how often it fails.  Stopping, crashing and
  loading are owed by nobody.
* `Pipeline`: `WF(CollectorRuns \/ HandleStep)` and `WF(DbStep)`: both threads are scheduled, no
  read blocks for more than 50 ms and no receive for longer than `FLUSH_IDLE`.
  `SF(FlushFallsDue)`: each round of the collector's loop takes time, so that of infinitely many
  ends of the buffer infinitely many come after `FLUSH_INTERVAL`.  The target, the socket's end, the stop request, queries and the read pool are owed by nobody.
* `Session`: `WF` of the main thread (the helper interpreter returns, polls time out), of the
  collector's steps, of the recorder's loop and of `WatchFlush`; `SF` of `RecorderFlush`: the recorder
  wakes every 200 ms and is due every ten seconds, so a flush is due again and again, and again
  and again one succeeds.  Nothing is assumed of target, user and sampler.
* `LiveFollow`: `WF` of `Request` (frames are drawn), `Answer`, `Apply` and `ApplyStale` (tasks and the
  DB thread run, the socket delivers while it is open), `PushHead` (the 100 ms tick), `Open`, `Meta`
  and `EnterLoop` (a lost connection is made again every second); rows, faults, the user, the
  monitor and a detach are owed by nobody.
* `Timeline`, `Hook` and `Wire` have no liveness property: a hook flushes only when the target
  switches, which nobody owes it.

## 5. Proofs

All theorems hold for every value of the constants that the modules' named assumptions
allow.  Where a module has proofs, its type invariant is a theorem and no run repeats it.

* **`TimelineProofs`.**  The inductive invariant is `IInv`: types, `Aligned`,
  `SortedContract`, `MaxEndCovers` and `HorizonExact` together.  None but the types is
  inductive alone: `SortedContract` survives an append only because `max_end` covers every
  held row and is compared with the whole batch; the horizon is read off the mirror and is
  exact only if the mirror is aligned.  Appending and evicting are split into lemmas: a
  batch in order keeps order (`ConcatInOrder`), a suffix keeps everything (`AppendSuffix`).
  `RangesAreExact` then shows that a cut point exists and splits the sorted mirror
  (`CutExists`, `CutSplits`), and that the ranges between two cuts are those the window and
  the tail mean.  `TruncationIsHonest` counts places: the first so many members of a set of
  places exist and are its lowest (`RankOnto`), on either path.  `DetailFinds` shows that both
  paths have the same candidates (`CandidatesInRange`), that below 2^63 neither the casts nor the
  saturation moves them (`CandidatesMeant`), and that a nearest one exists.
  `EvictionIsSafe` is an action property proved from the same invariant.
* **`RecordingProofs`.**  `DiskInv` relates the cursors and the progress of the running
  flush to whole, fsynced chunks; it needs the bookkeeping of where the flush stands
  (a header chunk alone while creating, the chunk just written at the end while syncing).
  `TypeCorrect` and `CursorsAreSafe` follow with any number of errors.  `CleanInv` adds, for
  `MaxErrors = 0`, that the chunks are linked end to start, that only the last one may be
  torn and only after a crash, and that the running flush is in step with the end of the
  file.  `CrashReadsBackExact`, `NothingLostOnExit` and `MetaComesFirst` follow, and with
  `FreshInv` (nothing is acknowledged before the first flush, nothing is loaded before the
  file is opened) so does `ImplementsDurableLog`: initial states map to initial states and
  each step to a step of `DurableLog` or a stutter.  These theorems carry the assumption
  `MaxErrors = 0` in their statement, because they fail without it: a torn write makes the
  file unreadable (`RecordingTorn`), a retry after a failed fsync repeats rows.
* **`PipelineProofs`, the collector.**  `IInv` is the types, `EndClosesNothing` and
  `StopKeepsDecoded`.  That a thread's open interval starts at its last switch is kept by
  the one action that writes both; from it the closing loop finds nothing (`NoneOpen`), so
  the last hand-over is what was pending.
* **`PipelineProofs`, the pipeline.**  `PipelineImplementsCollector`: every step of the pipeline
  is a step of `Collector` or leaves its variables alone, so the collector's theorems hold of
  the composition as well (`PipelineStopHoldsNothingBack`, `PipelineTypeCorrect`).  The four
  properties of the whole follow the rows.  `AllRows` is the rows of the frame, of the DB
  thread's batch, of the channel, of the calls still to be made and of the collector's pending
  batch, in this order.  A decoded switch puts the row it closes at its end and every other
  step leaves it as it is (`Delivers`, `CollectorMoves`, `DbMoves`).  `PipeInv` says it holds
  one row per closed interval of the frames decoded, in the order of the switches that close
  them (`ExactRows`, and `ExactGcs` for pauses); it needs `Stamped` and `CurIsLast`, that
  what runs on a thread is what its last decoded switch said.  `PipelineIsExact` is the case
  where nothing is under way.  For `PipelineCountersLead`, `CountInv` splits the rows at the
  call under way: what is in front of it is counted by all three counters, the call itself by
  those whose store is done.  For `PipelineAnswersFresh`, `QueryInv` says the rows sent before
  the question are those ahead of it in the channel or held already.  For
  `PipelineOneHubSorted`, `OrderInv` says that with one thread `AllRows` is in order and what
  runs started after all of it, whence each batch the DB thread appends is in order.
* **`HookProofs`.**  `HookInv` is the types, `StreamExact`, and what the other properties need:
  `ChainInv` (the hooks a switch calls belong to installed sessions, and each chains to one
  installed before it), `Fresh` (a session that has not come has left nothing), `PausesInv`
  (what is told and what is queued hold no pause to come, and a queued pause is followed by as
  many as the queue holds behind it), `StreamInv` and `BoundInv`.  `StreamInv` follows a session
  through a timeout: before it the socket carries a leading part of what was encoded and the
  buffer is the rest; from the failed send to the teardown's, that send was the last thing
  carried (`StalledOnce`), and the repeat begins where it began.  `BoundInv` gives each phase its
  `Slack`, the queues the buffer may hold above a flush's worth.  `BuffersAreBounded` and
  `StreamIsExact` are read off them; `TargetIsLeftAsFound` is `ChainInv` with no session
  installed.
* **`LiveFollowProofs`.**  `LiveStoreIsTimeline` maps every step to one of `Timeline` or a stutter, so
  `Timeline`'s invariant is there to be used.  `LiveInv` adds that rows stored and queued are
  distinct (`Fresh`), what the held rows are (`BufferGood`), that a request under way goes on
  from what is held (`Continues`) and that an answer on its way is one the viewer can take
  (`Answers`).  `BufferGood` is `HeldOnce` with the frontier at or behind every held row
  (`Tidy`) and, for rows in order, `NoGap` with two facts it needs to be inductive (`Whole`):
  the frontier lies below `max_end`, so that a row that comes later starts behind it, and
  inside the loaded range, so that a tail asked at the frontier closes up with what is held.
* **`TimelineProofs`, the reports.**  No induction: the total of a tier is the cardinality of its
  places, and fewer than `k` places can rank above the one at place `k` of an order that respects
  the key (`PageIs`), whichever order the sort took.  `ReportIsConsistent` has two halves.  For
  the percentiles, the places that rank `k`-th or lower among `n` stand in every set
  (`RankStands`), so that the order statistics grow with `k` (`ShortestGrows`); a linear blend of
  two neighbours lies between them and moves with the weight (`BlendIs`), and the percentiles are
  values of one such curve (`ValueGrows`).  For the totals, a sum over places is an additive
  measure of a set: it exists and is unique, whatever the order of the fold (`SumsExist`,
  `SumsAnyOrder` of `SequenceLemmas`, by induction over how a set is built up), and the greenlets
  divide the places into groups over which such measures add up (`GroupsAdd`).
* **`WireProofs`.**  `WireInv` speaks of the collector as it will be once it has read the pipe
  (`AfterPipe`): its pools and base are the hub's (`InStep`), and what it has made of the
  stream is the meta frame and one item per event sent, each with its texts (`Told`).  Nothing
  weaker is inductive, since an identifier in a frame still on its way refers to strings that
  are on their way too.  So a `Receive` leaves the invariant alone, and for the hook it is
  enough to know what reading the frames it adds does to a decoder in step.  The encoder and
  the decoder are folds; `InternFold` and `ReadFold` turn them into step functions, over which
  each stretch of encoding is shown to be `Quiet` (both sides grow alike and no item comes
  out: `InternAll`, `StackSent`, `StampQuiet`) or to make one item (`SwitchMakes`, `GcMakes`).
  The texts of an item are right up to a full pool (`TextKept`); pools only grow, so what is
  right once stays so (`ToldGrown`), and a text in the pool is found by every later event.
  `SegmentsComeExact` is the same argument for a recording, whose encoders have no bound, so
  that every text comes back as it went in (`FileMakes`): a flush is a fold over the rows that
  opens a segment with a fresh encoder when the one before is full, and `FileInv` is
  `SegmentsExact` with its types: a `Seal` keeps it because the segments it makes decode, each
  by itself and joined in order, to what the flush was given.
* **`WireProofs`, bytes.**  Nothing here is a bounded check any more: texts and segments are any
  that the writers can make, the reads any sequence of pieces, the bytes any at all where the
  property says so, and the widths any that `FramingAssumption` allows.
  *Numbers.*  `ScaleIs` and `VarintIs` unfold the two recursive functions (they exist by
  `RecursionExists` of `SequenceLemmas`), and `PeekIs` turns the fold into a function of the
  bytes read so far.  A reader that still wants more holds the sum of its groups, below the
  scale of the next one; so the last group is refused exactly when the sum passes the word.
  *One step.*  What `StepOf` decides of a buffer it decides whatever follows (`StepGrows`), and
  while it waits the buffer is below one frame (`WaitsForOneFrame`).
  *The loop.*  `Drain` ends where the step waits or has failed, because every turn that is not
  the last takes a byte (`TurnsEnd`); draining some bytes and then, with more appended, what was
  left comes to the same as draining all at once (`DrainMore`).  Hence a stream is read as if it
  came in one piece, and in `IngestFile` a turn depends on the bytes ahead and not on where
  `Fill` stopped (`SegTurnIs`, `View`): `ReadsMayCutAnywhere`.
  *Back from the encoder.*  The encoder writes a header and one piece per text or per segment
  (`Encoded`), so a cut falls after a number of whole pieces and inside the next (`CutsSomewhere`).
  The whole ones are taken in as many turns (`StreamRead`, `SegmentsRead`), and in the part of
  one that is left a turn does nothing (`PartOfFrame`, `TurnAtSegment`): `StreamsSurvive`,
  `RecordingsSurvive`.  In `DamageIsNeverLoaded` the turn at the damaged segment fails, and
  whether that is an error depends on a byte after it, which there is if a segment follows.
  `WordsAreRead` and `BytesAreRead` state what the run checks.
* **`SessionProofs`.**  `IInv` is the types, `SamplesInOrder` and what the properties need: `ExitPlace`
  (where the main thread is when the process ends, and that the directory is gone past
  `cleanup`), `Drained` (a collector that is done has handed over all it decoded, and past the
  joins of a good session it is done), `Quiet` (and the recorder too), `OneSampler` (no sampler
  before `set_tid`, one at most after it, and what it has read is not below what was sent
  before) and `LastSample` (after the last flush the sampler sends at most the one it has in
  hand).  `CleanExitIsComplete` rests on `Drained` and `Quiet`: after the joins nothing is handed
  over any more, so the last flush is the last word.  `DirectoryIsRemoved` is `ExitPlace`,
  `SamplesStayInOrder` follows from `OneSampler`.

Only model-checked is liveness (`EventuallySealed`, `EventuallyInFrame`, `StopIsHonoured`,
`SessionEnds`, `SealsCatchUp`, `FollowCatchesUp`), which the prover does not handle under
fairness.  Every safety property of a passing run is a theorem.

## 6. Not modelled

* The samples query, the GC part of a window with its frontier, the byte counter and the epoch
  of the handle, several queries at once.
* Totals per function in the reports, GC totals, the text and JSON layouts.
* The stack walk, labels, and the values of samples and host facts: carried, never decided on
  by the modelled code (the collector's debug message apart).
* DEFLATE, the fields of an event below its values, floats, the old text format beyond its
  refusal.
* Argument parsing, what a helper interpreter answers and the advice printed when an injection
  fails, HTTP routing, authentication, installers, the benchmark: no protocol state, or I/O only.
* In the viewer: slow log, statistics, samples and detail requests, zoom, several viewers,
  opened recordings, a server restarted with another capture (`reset`), all drawing.
