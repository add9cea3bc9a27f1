----------------------------- MODULE Recording ------------------------------
(***************************************************************************)
(* A `.glr` recording: the periodic flush that seals what the timeline     *)
(* gained since the last one (seal_recording of db.rs, SegmentWriter of    *)
(* record.rs), the I/O errors it survives, a crash at any instant, and the *)
(* reader that opens what is left on the disk (read_segments).             *)
(*                                                                         *)
(* The timeline is two append-only lists, of executions and of GC pauses   *)
(* (which also stand for the /proc samples: same cursor, same segment).    *)
(* A segment is the ranges of entries it holds.  The file is a sequence of *)
(* chunks, the container header first; a chunk is                          *)
(*    "whole"     every byte handed to the operating system,               *)
(*    "torn"      part of its bytes missing for good,                      *)
(*    "buffered"  the rest of its bytes still in the BufWriter, which      *)
(*                writes them ahead of whatever it is given next.          *)
(***************************************************************************)
EXTENDS Integers, Sequences

CONSTANTS
  Held,        \* bound: how many entries of each kind a session produces
  MaxErrors    \* bound: I/O errors in one session

Kinds == {"execution", "gc"}

ASSUME RecordingAssumption ==
  /\ Held \in [Kinds -> Nat]
  /\ MaxErrors \in Nat

VARIABLES
  held,        \* per kind, entries in the timeline
  sealed,      \* rec_rows, rec_gc: entries the last good flush had covered
  writer,      \* rec: the SegmentWriter exists
  metaDone,    \* its meta_done
  file,        \* the chunks of the file, as the operating system shows them
  synced,      \* how many of them an fsync has made durable
  pc,          \* where the DB thread is: "idle", or inside seal_recording
  done,        \* per kind, entries the running seal has written
  wroteFirst,  \* wrote_first of the running seal
  phase,       \* "recording", "final" flush, "failed" or "closed" after it, "down"
  errors,      \* I/O errors so far
  outcome,     \* of opening the file: "not read", "unreadable" or "read"
  loaded       \* the segments it gave the timeline of `greenlane open`

session == <<held, phase, errors>>
seal == <<pc, done, wroteFirst>>
disk == <<file, synced>>
reader == <<outcome, loaded>>
vars == <<held, sealed, writer, metaDone, file, synced, pc, done, wroteFirst,
          phase, errors, outcome, loaded>>

Nothing == [k \in Kinds |-> 0]

Chunk == [from : [Kinds -> Nat], to : [Kinds -> Nat], meta : BOOLEAN,
          bytes : {"whole", "torn", "buffered"}]
Header == [from |-> Nothing, to |-> Nothing, meta |-> FALSE, bytes |-> "whole"]

-----------------------------------------------------------------------------
(* The session around the writer. *)

Running == phase \in {"recording", "final"}

\* The collector's rows and pauses reach the timeline between two commands.
Ingest(k) ==
  /\ phase = "recording" /\ pc = "idle"
  /\ held[k] < Held[k]
  /\ held' = [held EXCEPT ![k] = @ + 1]
  /\ UNCHANGED <<sealed, writer, metaDone, disk, seal, phase, errors, reader>>

\* Mutant of Stop: the last flush is forgotten.
StopWithoutFlush ==
  /\ phase = "recording" /\ pc = "idle"
  /\ phase' = "closed"
  /\ UNCHANGED <<held, sealed, writer, metaDone, disk, seal, errors, reader>>

\* Ctrl-C or the end of the stream: collector and recorder are joined, then the
\* last flush is asked for.
Stop ==
  /\ phase = "recording" /\ pc = "idle"
  /\ phase' = "final"
  /\ UNCHANGED <<held, sealed, writer, metaDone, disk, seal, errors, reader>>

-----------------------------------------------------------------------------
(* seal_recording and SegmentWriter. *)

\* Mutants of BeginSeal: the delta starts one entry early; the cursors advance
\* before anything is written.
BeginSealOneEarly ==
  /\ Running /\ pc = "idle"
  /\ pc' = IF writer THEN "seal" ELSE "create"
  /\ done' = [k \in Kinds |-> sealed[k] - 1]
  /\ wroteFirst' = FALSE
  /\ UNCHANGED <<sealed, writer, metaDone, disk, session, reader>>

BeginSealEarlyCursors ==
  /\ Running /\ pc = "idle"
  /\ pc' = IF writer THEN "seal" ELSE "create"
  /\ done' = sealed
  /\ wroteFirst' = FALSE
  /\ sealed' = held
  /\ UNCHANGED <<writer, metaDone, disk, session, reader>>

\* Cmd::Flush, every RECORD_REPORT_INTERVAL and once at the end.
BeginSeal ==
  /\ Running /\ pc = "idle"
  /\ pc' = IF writer THEN "seal" ELSE "create"
  /\ done' = sealed
  /\ wroteFirst' = FALSE
  /\ UNCHANGED <<sealed, writer, metaDone, disk, session, reader>>

\* SegmentWriter::create truncates the file and writes the header...
CreateFile ==
  /\ Running /\ pc = "create"
  /\ file' = <<Header>>
  /\ synced' = 0
  /\ pc' = "header"
  /\ UNCHANGED <<sealed, writer, metaDone, done, wroteFirst, session, reader>>

\* ...and fsyncs it.
SyncHeader ==
  /\ Running /\ pc = "header"
  /\ synced' = 1
  /\ writer' = TRUE
  /\ pc' = "seal"
  /\ UNCHANGED <<sealed, metaDone, file, done, wroteFirst, session, reader>>

\* The loop of seal_segment goes on while executions remain, and runs at least
\* once if there is meta or GC to record.
MoreToSeal == done # held \/ (~metaDone /\ ~wroteFirst)

\* The next sub-segment: all the GC and the meta go into the first one, the
\* executions up to where the size cap cuts.
SegmentsNext ==
  {[from |-> done, to |-> [held EXCEPT !["execution"] = n],
    meta |-> ~metaDone /\ ~wroteFirst, bytes |-> "whole"]
     : n \in {m \in done["execution"]..held["execution"] :
                m > done["execution"] \/ done["execution"] = held["execution"]}}

\* What the BufWriter still held goes out first.
Completed(f) ==
  [i \in 1..Len(f) |->
     IF f[i].bytes = "buffered" THEN [f[i] EXCEPT !.bytes = "whole"] ELSE f[i]]

\* seal_raw up to and including flush().
WriteSegment ==
  /\ Running /\ pc = "seal" /\ MoreToSeal
  /\ \E seg \in SegmentsNext : file' = Append(Completed(file), seg)
  /\ pc' = "sync"
  /\ UNCHANGED <<sealed, writer, metaDone, synced, done, wroteFirst, session, reader>>

\* Mutant of SyncSegment: flushed, not fsynced.
SyncSegmentFlushOnly ==
  /\ Running /\ pc = "sync"
  /\ done' = file[Len(file)].to
  /\ wroteFirst' = TRUE
  /\ pc' = "seal"
  /\ UNCHANGED <<sealed, writer, metaDone, disk, session, reader>>

\* seal_raw's sync_all.
SyncSegment ==
  /\ Running /\ pc = "sync"
  /\ synced' = Len(file)
  /\ done' = file[Len(file)].to
  /\ wroteFirst' = TRUE
  /\ pc' = "seal"
  /\ UNCHANGED <<sealed, writer, metaDone, file, session, reader>>

\* Mutant of EndSeal: the GC cursor is left behind.
EndSealExecutionsOnly ==
  /\ Running /\ pc = "seal" /\ ~MoreToSeal
  /\ sealed' = [sealed EXCEPT !["execution"] = held["execution"]]
  /\ metaDone' = TRUE
  /\ pc' = "idle"
  /\ phase' = IF phase = "final" THEN "closed" ELSE phase
  /\ UNCHANGED <<held, writer, disk, done, wroteFirst, errors, reader>>

\* seal_segment returns Ok: the cursors advance; after the last flush the
\* program ends.
EndSeal ==
  /\ Running /\ pc = "seal" /\ ~MoreToSeal
  /\ sealed' = held
  /\ metaDone' = TRUE
  /\ pc' = "idle"
  /\ phase' = IF phase = "final" THEN "closed" ELSE phase
  /\ UNCHANGED <<held, writer, disk, done, wroteFirst, errors, reader>>

-----------------------------------------------------------------------------
(* I/O errors: `?` leaves the cursors alone, flush_and_report warns and the  *)
(* session goes on; the error of the last flush ends the program.            *)

AnError == errors < MaxErrors /\ errors' = errors + 1

\* Mutant of GiveUp: the cursors advance although the write failed.
GiveUpAdvancing ==
  /\ pc' = "idle"
  /\ phase' = IF phase = "final" THEN "failed" ELSE phase
  /\ sealed' = held
  /\ UNCHANGED <<held, metaDone, done, wroteFirst, reader>>

GiveUp ==
  /\ pc' = "idle"
  /\ phase' = IF phase = "final" THEN "failed" ELSE phase
  /\ UNCHANGED <<held, sealed, metaDone, done, wroteFirst, reader>>

FailCreate ==
  /\ Running /\ pc = "create" /\ AnError
  /\ GiveUp
  /\ UNCHANGED <<disk, writer>>

\* Errors of the header's flush and fsync are ignored (`.ok()`).
IgnoreHeaderError ==
  /\ Running /\ pc = "header" /\ AnError
  /\ \E b \in {"whole", "buffered"} : file' = <<[Header EXCEPT !.bytes = b]>>
  /\ writer' = TRUE
  /\ pc' = "seal"
  /\ UNCHANGED <<held, sealed, metaDone, synced, done, wroteFirst, phase, reader>>

\* A write or the flush fails, before or after the bytes buffered earlier went
\* out. A segment that fits the BufWriter stays in it; a larger one is lost.
FailWrite ==
  /\ Running /\ pc = "seal" /\ MoreToSeal /\ AnError
  /\ \E seg \in SegmentsNext, f \in {file, Completed(file)}, b \in {"torn", "buffered"} :
       file' = Append(f, [seg EXCEPT !.bytes = b])
  /\ GiveUp
  /\ UNCHANGED <<synced, writer>>

FailSync ==
  /\ Running /\ pc = "sync" /\ AnError
  /\ GiveUp
  /\ UNCHANGED <<disk, writer>>

-----------------------------------------------------------------------------
(* The end of the process, and the reader. *)

Torn(f) ==
  [i \in 1..Len(f) |-> IF f[i].bytes = "whole" THEN f[i] ELSE [f[i] EXCEPT !.bytes = "torn"]]

\* A crash keeps what was fsynced, and of the rest some leading part.
AfterCrash ==
  LET f == Torn(file)
  IN  {SubSeq(f, 1, n) : n \in synced..Len(f)} \cup
      {SubSeq(f, 1, n) \o <<[f[n + 1] EXCEPT !.bytes = "torn"]>> : n \in synced..(Len(f) - 1)}

\* A hard kill, a power failure, an error of the server that skips the last flush,
\* or the program's end after a failed last flush.
GoDown ==
  /\ Running \/ phase = "failed"
  /\ file' \in AfterCrash
  /\ phase' = "down"
  /\ UNCHANGED <<held, sealed, writer, metaDone, synced, seal, errors, reader>>

\* The number of leading chunks that are whole.
WholeChunks ==
  CHOOSE n \in 0..Len(file) :
    /\ \A i \in 1..n : file[i].bytes = "whole"
    /\ n < Len(file) => file[n + 1].bytes # "whole"

\* What read_segments makes of the file. Without a header: bad magic. A torn
\* chunk at the very end is dropped; one with more behind it is an error, unless
\* its length field swallows the rest of the file, which is then dropped too.
ReadFile ==
  LET n == WholeChunks
  IN  \/ /\ n > 0
         /\ outcome' = "read"
         /\ loaded' = SubSeq(file, 2, n)
      \/ /\ n = 0 \/ n + 1 < Len(file)
         /\ outcome' = "unreadable"
         /\ UNCHANGED loaded

Load ==
  /\ phase \in {"closed", "down"}
  /\ outcome = "not read"
  /\ ReadFile
  /\ UNCHANGED <<held, sealed, writer, metaDone, disk, seal, phase, errors>>

-----------------------------------------------------------------------------
Init ==
  /\ held = Nothing /\ sealed = Nothing
  /\ writer = FALSE /\ metaDone = FALSE
  /\ file = << >> /\ synced = 0
  /\ pc = "idle" /\ done = Nothing /\ wroteFirst = FALSE
  /\ phase = "recording" /\ errors = 0
  /\ outcome = "not read" /\ loaded = << >>

InSeal == CreateFile \/ SyncHeader \/ WriteSegment \/ SyncSegment \/ EndSeal

Failure == FailCreate \/ IgnoreHeaderError \/ FailWrite \/ FailSync

Next ==
  \/ \E k \in Kinds : Ingest(k)
  \/ Stop \/ BeginSeal \/ InSeal \/ Failure \/ GoDown \/ Load

Spec == Init /\ [][Next]_vars

\* The flush timer keeps firing and the DB thread finishes what it begins; an
\* I/O error may end a step instead. Crashes, stops and openings owe nothing.
Fairness == WF_vars(BeginSeal) /\ WF_vars(InSeal \/ Failure)

FairSpec == Spec /\ Fairness

-----------------------------------------------------------------------------
(* Properties. *)

TypeOK ==
  /\ held \in [Kinds -> Nat]
  /\ sealed \in [Kinds -> Nat]
  /\ writer \in BOOLEAN
  /\ metaDone \in BOOLEAN
  /\ file \in Seq(Chunk)
  /\ synced \in Nat
  /\ pc \in {"idle", "create", "header", "seal", "sync"}
  /\ done \in [Kinds -> Nat]
  /\ wroteFirst \in BOOLEAN
  /\ phase \in {"recording", "final", "failed", "closed", "down"}
  /\ errors \in Nat
  /\ outcome \in {"not read", "unreadable", "read"}
  /\ loaded \in Seq(Chunk)

\* Entry n of a kind is in chunk c.
Holds(c, k, n) == c.from[k] < n /\ n <= c.to[k]

\* The cursors never run ahead of the disk: whatever the errors and crashes, an
\* entry counted as sealed is in a whole segment that an fsync covered, so the
\* next delta may safely start after it.
CursorsBehindDisk ==
  \A k \in Kinds : \A n \in 1..sealed[k] :
    \E i \in 1..Len(file) :
      i <= synced /\ file[i].bytes = "whole" /\ Holds(file[i], k, n)

\* Each segment read back goes on where the one before it ended.
Chained(segs) ==
  \A i \in 1..Len(segs) :
    segs[i].from = IF i = 1 THEN Nothing ELSE segs[i - 1].to

LastOf(segs) == IF segs = << >> THEN Nothing ELSE segs[Len(segs)].to

\* Opening the file gives every entry exactly once and in order, and after a
\* crash at least all that a flush had reported as written: an unreadable file
\* is possible only when no flush ever returned.
ReadBackExact ==
  /\ outcome = "read" => Chained(loaded)
  /\ outcome = "read" => \A k \in Kinds : sealed[k] <= LastOf(loaded)[k]
  /\ outcome = "unreadable" => ~metaDone

\* After a clean exit the recording holds everything the session saw.
CleanExitKeepsAll ==
  phase = "closed" /\ outcome # "not read"
    => outcome = "read" /\ LastOf(loaded) = held

\* The meta frame (pid, epoch) is in the first segment and in no other, however
\* the first flush was cut into sub-segments or cut short by a crash.
MetaInFirst ==
  outcome = "read" => \A i \in 1..Len(loaded) : loaded[i].meta <=> i = 1

\* What the timeline holds is eventually sealed unless the process goes down:
\* the timer's next flush makes up for one that failed.
EventuallySealed ==
  \A k \in Kinds : \A n \in 1..Held[k] :
    held[k] >= n ~> (sealed[k] >= n \/ phase \in {"failed", "down"})

\* The recording implements a durable log.
Log == INSTANCE DurableLog WITH
  appended <- held,
  acked <- sealed,
  up <- Running \/ phase = "failed",
  reading <- IF outcome = "not read" THEN "none"
             ELSE IF Chained(loaded) THEN "intact" ELSE "garbled",
  recovered <- LastOf(loaded)
LogSpec == Log!Spec

\* What the comment on SegmentWriter says: whatever a crash cuts off, "every
\* prior sealed segment stays intact and readable".
SealedStaysReadable == outcome = "unreadable" => sealed = Nothing
=============================================================================
