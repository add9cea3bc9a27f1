-------------------------------- MODULE Wire --------------------------------
(***************************************************************************)
(* The trace format on its two journeys.  The hook encodes its switches    *)
(* and pauses (glr.py) and the collector decodes them frame by frame       *)
(* (trace_format.rs); the executions made of them are encoded again, each  *)
(* segment of the recording with an encoder of its own, and read back with *)
(* a decoder of its own.  Strings and stacks are sent once and then meant  *)
(* by their place in a pool; times are sent as the step from the last one. *)
(*                                                                         *)
(* Bytes, lengths and field order are left out: a frame is a record.  A    *)
(* stack's text, its frames joined with " <- ", is the sequence of the     *)
(* frames.  Target, thread, duration and the numbers of a pause and of a   *)
(* sample are copied by both sides as they are, and are left out too.      *)
(***************************************************************************)
EXTENDS Integers, SequencesExt

CONSTANTS
  MaxPool,    \* _MAX_POOL of glr.py: a pool holds MaxPool - 1 entries besides id 0
  MaxDelta,   \* TS_DELTA_MAX: the largest step the 24 bits of an event hold
  SegSoft,    \* SEG_SOFT_RAW: frames after which a segment is closed
  Resumes,    \* what a switch may say: label, func, task of the greenlet resumed
  Yields,     \* how an execution may end: how long it took, and the stack it
              \* yielded at, << >> if none is taken
  MaxSwitches, MaxSkips, MaxPauses, MaxSamples, MaxSeals  \* bounds

ASSUME WireAssumption ==
  /\ MaxPool \in Nat \ {0}
  /\ MaxDelta \in Nat \ {0}
  /\ SegSoft \in Nat
  /\ Resumes \subseteq [{"label", "func", "task"} -> STRING]
  /\ Yields \subseteq [took : Nat, stack : Seq(STRING)]
  \* A frame is "path:function:line", never empty.
  /\ \A y \in Yields : \A i \in DOMAIN y.stack : y.stack[i] # ""

VARIABLES
  hub,     \* the hook's encoder
  pipe,    \* frames in the send buffer and the socket
  dec,     \* the collector's decoder
  items,   \* what it has decoded
  now,     \* the clock
  sent,    \* the events encoded so far, as they were meant (history)
  skipped, \* switches given up half way
  sealed,  \* how many executions and pauses are in the recording
  file,    \* its segments, each the frames of one stream
  kept     \* what each seal was given: pauses, samples and executions (history)

vars == <<hub, pipe, dec, items, now, sent, skipped, sealed, file, kept>>

Has(seq, x) == \E i \in DOMAIN seq : seq[i] = x
\* The id of x in a pool: its place, and 0 if it is not there.
Id(pool, x) == IF Has(pool, x) THEN CHOOSE i \in DOMAIN pool : pool[i] = x ELSE 0

-----------------------------------------------------------------------------
(* Encoders: GlrEnc of glr.py, whose pools are bounded, and Encoder of        *)
(* trace_format.rs, whose pools are not.                                      *)

Schema(t) == [tag |-> "schema", type |-> t]
FreshEncoder(bounded, types) ==
  [strings |-> << >>, stacks |-> << >>, base |-> 0, bounded |-> bounded,
   out |-> [i \in DOMAIN types |-> Schema(types[i])]]

\* _frame: one frame more to send.
Emit(e, frame) == [e EXCEPT !.out = Append(@, frame)]

Full(e, pool) == e.bounded /\ Len(pool) + 1 >= MaxPool

\* Mutant of Intern: no bound.
InternUnbounded(e, s) ==
  IF s = "" \/ Has(e.strings, s) THEN e
  ELSE Emit([e EXCEPT !.strings = Append(@, s)], [tag |-> "string", text |-> s])

\* str_id, intern_str: a string is sent on first sight, and not at all if the
\* pool is full.
Intern(e, s) ==
  IF s = "" \/ Has(e.strings, s) \/ Full(e, e.strings) THEN e
  ELSE Emit([e EXCEPT !.strings = Append(@, s)], [tag |-> "string", text |-> s])

StackFrame(e, fs) == [tag |-> "stack", ids |-> [i \in DOMAIN fs |-> Id(e.strings, fs[i])]]

\* Mutant of InternStack: the stack goes out before the strings it is made of.
InternStackFirst(e, fs) ==
  IF fs = << >> \/ Has(e.stacks, fs) \/ Full(e, e.stacks) THEN e
  ELSE LET e1 == FoldLeft(Intern, e, fs)
       IN  [e1 EXCEPT !.stacks = Append(@, fs), !.out = e.out \o <<StackFrame(e1, fs)>>
                        \o SubSeq(@, Len(e.out) + 1, Len(@))]

\* stack_id, intern_stack: the frames' strings precede the stack.
InternStack(e, fs) ==
  IF fs = << >> \/ Has(e.stacks, fs) \/ Full(e, e.stacks) THEN e
  ELSE LET e1 == FoldLeft(Intern, e, fs)
       IN  Emit([e1 EXCEPT !.stacks = Append(@, fs)], StackFrame(e1, fs))

\* Mutant of Stamp: only a step too long resets the base.
StampForward(e, ts) ==
  IF ts - e.base > MaxDelta
  THEN Emit([e EXCEPT !.base = ts], [tag |-> "reset", ts |-> ts])
  ELSE e

\* _ts_delta, ts_delta: a step back, or one too long, resets the base first.
Stamp(e, ts) ==
  IF ts < e.base \/ ts - e.base > MaxDelta
  THEN Emit([e EXCEPT !.base = ts], [tag |-> "reset", ts |-> ts])
  ELSE e

\* An event that carries a time, once its texts are interned.
Put(e, type, ts, texts, stack) ==
  LET s == Stamp(e, ts)
  IN  Emit([s EXCEPT !.base = ts],
           [tag |-> "event", type |-> type, delta |-> (ts - s.base) % (MaxDelta + 1),
            ids |-> [f \in DOMAIN texts |-> Id(e.strings, texts[f])],
            stack |-> Id(e.stacks, stack)])

EncodeSwitch(e, ev) ==
  LET r == ev.texts
  IN  Put(InternStack(FoldLeft(Intern, e, <<r.label, r.func, r.task>>), ev.stack),
          "switch", ev.ts, r, ev.stack)
EncodeExecution(e, x) ==
  LET r == x.texts
  IN  Put(InternStack(FoldLeft(Intern, e, <<r.func, r.label, r.task>>), x.stack),
          "execution", x.ts, r, x.stack)
EncodeSample(e, ts) == Put(e, "sample", ts, << >>, << >>)
EncodeGc(e, n) == Emit(e, [tag |-> "event", type |-> "gc", n |-> n])
EncodeMeta(e) == Emit(e, [tag |-> "meta"])

-----------------------------------------------------------------------------
(* The decoder of trace_format.rs. An error is for good.                      *)

FreshDecoder == [strings |-> << >>, stacks |-> << >>, types |-> {}, base |-> 0, ok |-> TRUE]

Known(pool, id) == id <= Len(pool)
Text(pool, empty, id) == IF id = 0 THEN empty ELSE pool[id]

\* The text of a stack: that of one empty frame is that of no frames.
Joined(fs) == IF fs = <<"">> THEN << >> ELSE fs

\* Whether an event refers only to what is known, what it leaves of the decoder,
\* and the item it makes.
EventIsKnown(d, f) ==
  /\ f.type \in d.types
  /\ f.type # "gc" => /\ \A t \in DOMAIN f.ids : Known(d.strings, f.ids[t])
                      /\ Known(d.stacks, f.stack)

\* Mutant of AfterEvent: steps are counted from the last reset.
AfterEventFromReset(d, f) == d

AfterEvent(d, f) == IF f.type = "gc" THEN d ELSE [d EXCEPT !.base = @ + f.delta]
ItemOf(d, f) ==
  IF f.type = "gc" THEN [type |-> "gc", n |-> f.n]
  ELSE [type |-> f.type, ts |-> d.base + f.delta,
        texts |-> [t \in DOMAIN f.ids |-> Text(d.strings, "", f.ids[t])],
        stack |-> Text(d.stacks, << >>, f.stack)]

\* One step: the decoder after a frame.
DecodeFrame(d, f) ==
  CASE f.tag = "schema" -> [d EXCEPT !.types = @ \cup {f.type}]
    [] f.tag = "string" -> [d EXCEPT !.strings = Append(@, f.text)]
    [] f.tag = "stack" ->
         IF \A i \in DOMAIN f.ids : Known(d.strings, f.ids[i])
         THEN [d EXCEPT !.stacks = Append(@,
                Joined([i \in DOMAIN f.ids |-> Text(d.strings, "", f.ids[i])]))]
         ELSE [d EXCEPT !.ok = FALSE]
    [] f.tag = "reset" -> [d EXCEPT !.base = f.ts]
    [] f.tag = "meta" -> d
    [] f.tag = "event" ->
         IF EventIsKnown(d, f) THEN AfterEvent(d, f) ELSE [d EXCEPT !.ok = FALSE]
Decoded(d, f) ==
  CASE f.tag = "meta" -> <<[type |-> "meta"]>>
    [] f.tag = "event" -> IF EventIsKnown(d, f) THEN <<ItemOf(d, f)>> ELSE << >>
    [] OTHER -> << >>

\* One step of reading a stream, which stops at the first error.
ReadFrame(acc, f) ==
  IF ~acc.dec.ok THEN acc
  ELSE [dec |-> DecodeFrame(acc.dec, f), items |-> acc.items \o Decoded(acc.dec, f)]

-----------------------------------------------------------------------------
(* The journey over the wire. *)

\* What the encoder has put out goes into the pipe.
Sends(e) == hub' = [e EXCEPT !.out = << >>] /\ pipe' = pipe \o e.out

CountOf(type) == Len(SelectSeq(sent, LAMBDA ev : ev.type = type))

\* _cb: the clock never goes back.
Switch(texts, y) ==
  LET ev == [type |-> "switch", ts |-> now + y.took, texts |-> texts, stack |-> y.stack]
  IN  /\ CountOf("switch") < MaxSwitches
      /\ now' = ev.ts
      /\ Sends(EncodeSwitch(hub, ev))
      /\ sent' = Append(sent, ev)
      /\ UNCHANGED <<dec, items, skipped, sealed, file, kept>>

\* A switch whose task id cannot be had (its str() raises) is skipped; label and
\* func, which were interned by then, stay interned.
SkipSwitch(texts) ==
  /\ skipped < MaxSkips
  /\ skipped' = skipped + 1
  /\ Sends(FoldLeft(Intern, hub, <<texts.label, texts.func>>))
  /\ UNCHANGED <<dec, items, now, sent, sealed, file, kept>>

\* _drain_gc: a pause has no text and no step.
Pause ==
  /\ CountOf("gc") < MaxPauses
  /\ Sends(EncodeGc(hub, Len(sent)))
  /\ sent' = Append(sent, [type |-> "gc", n |-> Len(sent)])
  /\ UNCHANGED <<dec, items, now, skipped, sealed, file, kept>>

\* The collector's decoder takes the frames up to the next that makes an item;
\* those before only feed it. After an error it takes no more.
Receive ==
  /\ pipe # << >> /\ dec.ok
  /\ LET ends == {i \in DOMAIN pipe : pipe[i].tag \in {"event", "meta"} \/ i = Len(pipe)}
         n == CHOOSE i \in ends : \A j \in ends : i <= j
         read == FoldLeft(ReadFrame, [dec |-> dec, items |-> items], SubSeq(pipe, 1, n))
     IN  /\ dec' = read.dec /\ items' = read.items
         /\ pipe' = SubSeq(pipe, n + 1, Len(pipe))
  /\ UNCHANGED <<hub, now, sent, skipped, sealed, file, kept>>

-----------------------------------------------------------------------------
(* The journey through the file. *)

\* Fold step: the items of a type, one item more.
Select(type, acc, it) == IF it.type = type THEN Append(acc, it) ELSE acc
OfType(its, type) == FoldLeft(LAMBDA acc, it : Select(type, acc, it), << >>, its)

\* read_executions: a switch closes the execution the one before it opened, and
\* has the stack that execution ended in.
Executions ==
  LET sw == OfType(items, "switch")
  IN  [i \in DOMAIN sw \ {Len(sw)} |->
         [type |-> "execution", ts |-> sw[i].ts, texts |-> sw[i].texts, stack |-> sw[i + 1].stack]]

FileTypes == <<"execution", "gc", "sample">>
FreshSegment == FreshEncoder(FALSE, FileTypes)

\* Mutant of AddExecution: the encoder is kept for the segment after.
AddExecutionSameEncoder(acc, x) ==
  LET e == EncodeExecution(acc.enc, x)
  IN  IF Len(e.out) >= SegSoft
      THEN [segs |-> Append(acc.segs, e.out), enc |-> [e EXCEPT !.out = FreshSegment.out], open |-> FALSE]
      ELSE [acc EXCEPT !.enc = e, !.open = TRUE]

\* An execution joins the open segment, which is closed if that makes it long.
AddExecution(acc, x) ==
  LET e == EncodeExecution(acc.enc, x)
  IN  IF Len(e.out) >= SegSoft
      THEN [segs |-> Append(acc.segs, e.out), enc |-> FreshSegment, open |-> FALSE]
      ELSE [acc EXCEPT !.enc = e, !.open = TRUE]

\* seal_segment: meta in the first segment of all, pauses and samples in the
\* first of a flush, then the executions, in as many streams as it takes.
Segments(meta, gcs, samples, xs) ==
  LET fresh == IF meta THEN EncodeMeta(FreshSegment) ELSE FreshSegment
      first == FoldLeft(EncodeSample, FoldLeft(EncodeGc, fresh, gcs), samples)
      acc == FoldLeft(AddExecution,
               [segs |-> << >>, enc |-> first, open |-> meta \/ gcs \o samples # << >>], xs)
  IN  IF acc.open THEN Append(acc.segs, acc.enc.out) ELSE acc.segs

Pauses == LET gc == OfType(items, "gc") IN [i \in DOMAIN gc |-> gc[i].n]

SamplesKept == Len(FlattenSeq([k \in DOMAIN kept |-> kept[k].samples]))

\* A flush of the recording: what is not in it yet. The sampler has looked at
\* the process since the last one, or not.
Seal ==
  /\ Len(kept) < MaxSeals
  /\ \E samples \in {<< >>, <<now>>} :
       /\ Len(samples) + SamplesKept <= MaxSamples
       /\ LET gcs == SubSeq(Pauses, sealed.pauses + 1, Len(Pauses))
              xs == SubSeq(Executions, sealed.executions + 1, Len(Executions))
          IN  /\ kept' = Append(kept, [gcs |-> gcs, samples |-> samples, xs |-> xs])
              /\ file' = file \o Segments(kept = << >>, gcs, samples, xs)
  /\ sealed' = [executions |-> Len(Executions), pauses |-> Len(Pauses)]
  /\ UNCHANGED <<hub, pipe, dec, items, now, sent, skipped>>

\* decode_segment: every item of a stream, by a decoder that starts afresh.
DecodeSegment(seg) == FoldLeft(ReadFrame, [dec |-> FreshDecoder, items |-> << >>], seg)

-----------------------------------------------------------------------------
WireTypes == <<"switch", "gc">>
Init ==
  /\ hub = [FreshEncoder(TRUE, WireTypes) EXCEPT !.out = << >>]
  /\ pipe = EncodeMeta(FreshEncoder(TRUE, WireTypes)).out
  /\ dec = FreshDecoder
  /\ items = << >> /\ now = 0 /\ sent = << >> /\ skipped = 0
  /\ sealed = [executions |-> 0, pauses |-> 0] /\ file = << >> /\ kept = << >>

Next ==
  \/ \E texts \in Resumes, y \in Yields : Switch(texts, y)
  \/ \E texts \in Resumes : SkipSwitch(texts)
  \/ Pause \/ Receive \/ Seal

Spec == Init /\ [][Next]_vars

-----------------------------------------------------------------------------
(* Properties. *)

\* Once it has taken what is on its way, the decoder's pools are the encoder's,
\* entry by entry, and so is its base: no skipped event, full pool or reset
\* puts the two sides out of step; and the pools stay below MaxPool.
PoolsInStep ==
  LET d == FoldLeft(ReadFrame, [dec |-> dec, items |-> items], pipe).dec
  IN  /\ d.ok
      /\ Len(hub.strings) < MaxPool /\ Len(hub.stacks) < MaxPool
      /\ d.strings = hub.strings
      /\ d.base = hub.base
      /\ Len(d.stacks) = Len(hub.stacks)

\* A text comes through, or comes as "" once the hub's pool is full.
TextKept(s, t) == t = s \/ (t = "" /\ Full(hub, hub.strings))
StackKept(fs, t) ==
  \/ Len(t) = Len(fs) /\ \A i \in DOMAIN fs : TextKept(fs[i], t[i])
  \/ t = << >> /\ Full(hub, IF Len(fs) = 1 THEN hub.strings ELSE hub.stacks)
  \/ t = << >> /\ Full(hub, hub.stacks)
EventKept(ev, it) ==
  IF ev.type = "gc" THEN it = ev
  ELSE /\ it.type = ev.type /\ it.ts = ev.ts
       /\ \A f \in DOMAIN ev.texts : TextKept(ev.texts[f], it.texts[f])
       /\ StackKept(ev.stack, it.stack)

\* The collector gets the meta frame first, and then the events in order, each at
\* its exact time and with its texts; a string it has seen in an event is never
\* missing from a later one.
EventsExact ==
  LET got == SubSeq(items, 2, Len(items))
      Texts(ev) == {<<f, ev.texts[f]>> : f \in DOMAIN ev.texts}
  IN  /\ items # << >> => items[1].type = "meta"
      /\ Len(got) <= Len(sent)
      /\ \A i \in DOMAIN got : EventKept(sent[i], got[i])
      /\ \A i, j \in DOMAIN got : (i < j /\ got[i].type = "switch" /\ got[j].type = "switch") =>
           \A p \in Texts(got[i]), q \in Texts(sent[j]) :
             q[2] = p[2] => got[j].texts[q[1]] = q[2]

\* Every segment reads on its own, and the recording reads back as what each
\* flush was given, with the same texts and times.
SegmentsExact ==
  LET reads == [i \in DOMAIN file |-> DecodeSegment(file[i])]
      Meta(k) == IF k = 1 THEN <<[type |-> "meta"]>> ELSE << >>
      Gcs(k) == [i \in DOMAIN kept[k].gcs |-> [type |-> "gc", n |-> kept[k].gcs[i]]]
      Samples(k) == [i \in DOMAIN kept[k].samples |->
        [type |-> "sample", ts |-> kept[k].samples[i], texts |-> << >>, stack |-> << >>]]
  IN  /\ \A i \in DOMAIN file : reads[i].dec.ok
      /\ FlattenSeq([i \in DOMAIN file |-> reads[i].items]) =
           FlattenSeq([k \in DOMAIN kept |-> Meta(k) \o Gcs(k) \o Samples(k) \o kept[k].xs])
=============================================================================
