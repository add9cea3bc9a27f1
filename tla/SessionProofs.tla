---------------------------- MODULE SessionProofs ----------------------------
(***************************************************************************)
(* Machine-checked theorems about Session, for any number of sampler       *)
(* threads there could be, rows and samples: its types, that a clean exit  *)
(* of a recorded session has everything in the file, that no exit but a    *)
(* kill leaves the directory behind, and that samples keep their order.    *)
(***************************************************************************)
EXTENDS Session, TLAPS, SequenceTheorems

-----------------------------------------------------------------------------
(* The inductive invariant. *)

\* Where the main thread stands when the process ends, and when the directory
\* is gone by then.
ExitPlace ==
  /\ exit = "ok" => pc \in {"accept", "result", "flushed"}
  /\ exit = "error" => pc \in Setup \cup {"result", "lastFlush"}
  /\ exit = "ok" /\ pc = "accept" => ~dir
  /\ pc \in {"result", "lastFlush", "flushed"} => ~dir
  /\ exit # "killed" => (collector = "none" <=> pc \in Setup)

\* A collector that has gone has handed everything over, and nothing is sealed
\* for the last time before it has gone.
Drained ==
  /\ handed <= decoded
  /\ collector \in {"none", "start", "failed"} => decoded = 0
  /\ collector = "done" => handed = decoded
  /\ exit # "killed" /\ pc = "joinCollector" => ~running
  /\ exit # "killed" /\ result = "ok" /\ pc \in {"joinRecorder"} \cup Closing =>
       CollectorGone /\ ~running
  /\ pc \in {"lastFlush", "flushed"} => result = "ok" /\ Recorded
  /\ exit # "killed" /\ pc = "joinRecorder" => ~running
  /\ exit = "ok" /\ pc = "result" => ~Recorded
  /\ exit # "killed" /\ pc = "flushed" => sealed = decoded

\* No flush after the recorder has gone but the last one, in the main thread.
Quiet == exit # "killed" /\ pc \in Closing /\ result = "ok" => recorder \in {"none", "done"}

\* One sampler at most; what it has read is not below what was sent before.
OneSampler ==
  /\ ~tasked => \A s \in Samplers : sampler[s] = "none"
  /\ \A s, t \in Samplers : sampler[s] # "none" /\ sampler[t] # "none" => s = t
  /\ \A i \in 1..Len(samples) : samples[i] <= handed
  /\ \A s \in Samplers : sampler[s] = "read" =>
       tag[s] <= handed /\ \A i \in 1..Len(samples) : samples[i] <= tag[s]

InHand == \E s \in Samplers : sampler[s] \in {"asleep", "read"}

\* After the last flush the sampler, told to stop, sends what it has in hand.
LastSample ==
  exit # "killed" /\ pc = "flushed" =>
    /\ Len(samples) - sealedSamples \in {0, 1}
    /\ InHand => Len(samples) = sealedSamples

IInv == TypeOK /\ ExitPlace /\ Drained /\ Quiet /\ OneSampler /\ SamplesInOrder /\ LastSample

-----------------------------------------------------------------------------
(* Each step keeps it, part by part. *)

USE DEF flags, targetVars, threads, samplerVars, Setup, Working, Closing

LEMMA TypeStep ==
  ASSUME TypeOK, Next
  PROVE  TypeOK'
<1>1. CASE EnsurePid
  BY <1>1 DEF TypeOK, EnsurePid, Goto
<1>2. CASE MakePrivateDir
  BY <1>2 DEF TypeOK, MakePrivateDir, Goto, Leave
<1>3. CASE Bind
  BY <1>3 DEF TypeOK, Bind, Goto
<1>4. CASE SetHandler
  BY <1>4 DEF TypeOK, SetHandler, Goto
<1>5. CASE WriteBootstrap
  <2>1. (dir \in BOOLEAN /\ armed \in BOOLEAN /\ running \in BOOLEAN /\ detached \in BOOLEAN
         /\ script \in BOOLEAN /\ tasked \in BOOLEAN)'
    BY <1>5, Zenon DEF TypeOK, WriteBootstrap, Goto
  <2>2. QED
    BY <1>5, <2>1 DEF TypeOK, WriteBootstrap, Goto
<1>6. CASE Inject
  BY <1>6 DEF TypeOK, Inject, Goto
<1>7. CASE AcceptAborted
  <2>1. (dir \in BOOLEAN /\ armed \in BOOLEAN /\ running \in BOOLEAN /\ detached \in BOOLEAN
         /\ script \in BOOLEAN /\ tasked \in BOOLEAN)'
    BY <1>7, Zenon DEF TypeOK, AcceptAborted, Leave
  <2>2. QED
    BY <1>7, <2>1 DEF TypeOK, AcceptAborted, Leave
<1>8. CASE Accept
  BY <1>8 DEF TypeOK, Accept, Goto
<1>9. CASE StartSession
  BY <1>9 DEF TypeOK, StartSession, Goto
<1>10. CASE ServeBind
  BY <1>10 DEF TypeOK, ServeBind, Goto
<1>11. CASE ServeStops
  <2>1. (dir \in BOOLEAN /\ armed \in BOOLEAN /\ running \in BOOLEAN /\ detached \in BOOLEAN
         /\ script \in BOOLEAN /\ tasked \in BOOLEAN)'
    BY <1>11, Zenon DEF TypeOK, ServeStops, Goto
  <2>2. QED
    BY <1>11, <2>1 DEF TypeOK, ServeStops, Goto
<1>12. CASE WatchEnds
  <2>1. (dir \in BOOLEAN /\ armed \in BOOLEAN /\ running \in BOOLEAN /\ detached \in BOOLEAN
         /\ script \in BOOLEAN /\ tasked \in BOOLEAN)'
    BY <1>12, Zenon DEF TypeOK, WatchEnds, Goto, CollectorGone
  <2>2. QED
    BY <1>12, <2>1 DEF TypeOK, WatchEnds, Goto, CollectorGone
<1>13. CASE JoinCollector
  BY <1>13 DEF TypeOK, JoinCollector, Goto, CollectorGone
<1>14. CASE JoinRecorder
  BY <1>14 DEF TypeOK, JoinRecorder, Goto
<1>15. CASE Cleanup
  <2>1. (dir \in BOOLEAN /\ armed \in BOOLEAN /\ running \in BOOLEAN /\ detached \in BOOLEAN
         /\ script \in BOOLEAN /\ tasked \in BOOLEAN)'
    BY <1>15, Zenon DEF TypeOK, Cleanup, Goto
  <2>2. QED
    BY <1>15, <2>1 DEF TypeOK, Cleanup, Goto
<1>16. CASE Conclude
  BY <1>16 DEF TypeOK, Conclude, Goto, Leave
<1>17. CASE LastFlush
  BY <1>17 DEF TypeOK, LastFlush, Goto, Leave, FlushToFile
<1>18. CASE Return
  BY <1>18 DEF TypeOK, Return, Leave
<1>19. CASE WatchFlush
  BY <1>19 DEF TypeOK, WatchFlush, FlushToFile
<1>20. CASE CollectorStarts
  BY <1>20 DEF TypeOK, CollectorStarts, collectorElse
<1>21. CASE CollectorTop
  BY <1>21 DEF TypeOK, CollectorTop, collectorElse
<1>22. CASE CollectorRead
  BY <1>22 DEF TypeOK, CollectorRead, collectorElse
<1>23. CASE CollectorMeta
  <2>1. sampler' \in [Samplers -> {"none", "check", "asleep", "read", "done"}]
    <3>1. CASE StartSampler
      BY <3>1 DEF StartSampler, TypeOK
    <3>2. CASE UNCHANGED sampler
      BY <3>2 DEF TypeOK
    <3>3. QED  BY <1>23, <3>1, <3>2 DEF CollectorMeta, SetTid
  <2>2. tasked' = TRUE
    BY <1>23 DEF CollectorMeta, SetTid
  <2>3. QED
    BY <1>23, <2>1, <2>2
       DEF TypeOK, CollectorMeta, collectorElse
<1>24. CASE CollectorEof
  BY <1>24 DEF TypeOK, CollectorEof, collectorElse
<1>25. CASE CollectorLeaves
  BY <1>25 DEF TypeOK, CollectorLeaves, collectorElse
<1>26. CASE RecorderTop
  BY <1>26 DEF TypeOK, RecorderTop, recorderElse
<1>27. CASE RecorderFlush
  BY <1>27 DEF TypeOK, RecorderFlush, FlushToFile, recorderElse
<1>28. CASE RecorderIdles
  BY <1>28 DEF TypeOK, RecorderIdles, recorderElse
<1>29. CASE TargetConnects
  BY <1>29 DEF TypeOK, TargetConnects, outsideElse
<1>30. CASE TargetSends
  BY <1>30 DEF TypeOK, TargetSends, CollectorGone, outsideElse
<1>31. CASE TargetCloses
  BY <1>31 DEF TypeOK, TargetCloses, outsideElse
<1>32. CASE CtrlC
  <2>1. (dir \in BOOLEAN /\ armed \in BOOLEAN /\ running \in BOOLEAN /\ detached \in BOOLEAN
         /\ script \in BOOLEAN /\ tasked \in BOOLEAN)'
    BY <1>32, Zenon DEF TypeOK, CtrlC, Leave, outsideElse
  <2>2. QED
    BY <1>32, <2>1 DEF TypeOK, CtrlC, Leave, outsideElse
<1>33. CASE Detach
  BY <1>33 DEF TypeOK, Detach, outsideElse
<1>34. CASE Kill
  <2>1. (dir \in BOOLEAN /\ armed \in BOOLEAN /\ running \in BOOLEAN /\ detached \in BOOLEAN
         /\ script \in BOOLEAN /\ tasked \in BOOLEAN)'
    BY <1>34, Zenon DEF TypeOK, Kill, Leave
  <2>2. QED
    BY <1>34, <2>1 DEF TypeOK, Kill, Leave
<1>35. ASSUME NEW s \in Samplers, SamplerTop(s) PROVE TypeOK'
  BY <1>35 DEF TypeOK, SamplerTop, samplerElse, Moves, rowVars
<1>36. ASSUME NEW s \in Samplers, SamplerReads(s) PROVE TypeOK'
  <2>1. sampler' \in [Samplers -> {"none", "check", "asleep", "read", "done"}]
    BY <1>36 DEF TypeOK, SamplerReads, Moves
  <2>2. tag' \in [Samplers -> Nat]
    BY <1>36 DEF TypeOK, SamplerReads
  <2>3. QED
    BY <1>36, <2>1, <2>2
       DEF TypeOK, SamplerReads, samplerElse, rowVars
<1>37. ASSUME NEW s \in Samplers, SamplerSends(s) PROVE TypeOK'
  BY <1>37 DEF TypeOK, SamplerSends, samplerElse, Moves, rowVars
<1>38. CASE \E at \in Setup : Fail(at)
  BY <1>38 DEF TypeOK, Fail, Leave
<1>39. QED
  BY <1>1, <1>2, <1>3, <1>4, <1>5, <1>6, <1>7, <1>8, <1>9, <1>10, <1>11, <1>12,
         <1>13, <1>14, <1>15, <1>16, <1>17, <1>18, <1>19, <1>20, <1>21, <1>22,
         <1>23, <1>24, <1>25, <1>26, <1>27, <1>28, <1>29, <1>30, <1>31, <1>32,
         <1>33, <1>34, <1>35, <1>36, <1>37, <1>38
     DEF Next, MainStep, CollectorStep, RecorderStep, SamplerStep, Outside

LEMMA ExitStep ==
  ASSUME TypeOK, ExitPlace, Alive, Next
  PROVE  ExitPlace'
<1>1. CASE EnsurePid
  BY <1>1 DEF TypeOK, ExitPlace, Alive, EnsurePid, Goto
<1>2. CASE MakePrivateDir
  BY <1>2 DEF TypeOK, ExitPlace, Alive, MakePrivateDir, Goto, Leave
<1>3. CASE Bind
  BY <1>3 DEF TypeOK, ExitPlace, Alive, Bind, Goto
<1>4. CASE SetHandler
  BY <1>4 DEF TypeOK, ExitPlace, Alive, SetHandler, Goto
<1>5. CASE WriteBootstrap
  BY <1>5 DEF TypeOK, ExitPlace, Alive, WriteBootstrap, Goto
<1>6. CASE Inject
  BY <1>6 DEF TypeOK, ExitPlace, Alive, Inject, Goto
<1>7. CASE AcceptAborted
  BY <1>7 DEF TypeOK, ExitPlace, Alive, AcceptAborted, Leave
<1>8. CASE Accept
  BY <1>8 DEF TypeOK, ExitPlace, Alive, Accept, Goto
<1>9. CASE StartSession
  BY <1>9 DEF TypeOK, ExitPlace, Alive, StartSession, Goto
<1>10. CASE ServeBind
  BY <1>10 DEF TypeOK, ExitPlace, Alive, ServeBind, Goto
<1>11. CASE ServeStops
  BY <1>11 DEF TypeOK, ExitPlace, Alive, ServeStops, Goto
<1>12. CASE WatchEnds
  BY <1>12 DEF TypeOK, ExitPlace, Alive, WatchEnds, Goto, CollectorGone
<1>13. CASE JoinCollector
  BY <1>13 DEF TypeOK, ExitPlace, Alive, JoinCollector, Goto, CollectorGone
<1>14. CASE JoinRecorder
  BY <1>14 DEF TypeOK, ExitPlace, Alive, JoinRecorder, Goto
<1>15. CASE Cleanup
  BY <1>15 DEF TypeOK, ExitPlace, Alive, Cleanup, Goto
<1>16. CASE Conclude
  BY <1>16 DEF TypeOK, ExitPlace, Alive, Conclude, Goto, Leave
<1>17. CASE LastFlush
  BY <1>17 DEF TypeOK, ExitPlace, Alive, LastFlush, Goto, Leave, FlushToFile
<1>18. CASE Return
  BY <1>18 DEF TypeOK, ExitPlace, Alive, Return, Leave
<1>19. CASE WatchFlush
  BY <1>19 DEF TypeOK, ExitPlace, Alive, WatchFlush, FlushToFile
<1>20. CASE CollectorStarts
  BY <1>20 DEF TypeOK, ExitPlace, Alive, CollectorStarts, collectorElse
<1>21. CASE CollectorTop
  BY <1>21 DEF TypeOK, ExitPlace, Alive, CollectorTop, collectorElse
<1>22. CASE CollectorRead
  BY <1>22 DEF TypeOK, ExitPlace, Alive, CollectorRead, collectorElse
<1>23. CASE CollectorMeta
  BY <1>23 DEF TypeOK, ExitPlace, Alive, CollectorMeta, SetTid, StartSampler, Fresh,
         collectorElse
<1>24. CASE CollectorEof
  BY <1>24 DEF TypeOK, ExitPlace, Alive, CollectorEof, collectorElse
<1>25. CASE CollectorLeaves
  BY <1>25 DEF TypeOK, ExitPlace, Alive, CollectorLeaves, collectorElse
<1>26. CASE RecorderTop
  BY <1>26 DEF TypeOK, ExitPlace, Alive, RecorderTop, recorderElse
<1>27. CASE RecorderFlush
  BY <1>27 DEF TypeOK, ExitPlace, Alive, RecorderFlush, FlushToFile, recorderElse
<1>28. CASE RecorderIdles
  BY <1>28 DEF TypeOK, ExitPlace, Alive, RecorderIdles, recorderElse
<1>29. CASE TargetConnects
  BY <1>29 DEF TypeOK, ExitPlace, Alive, TargetConnects, outsideElse
<1>30. CASE TargetSends
  BY <1>30 DEF TypeOK, ExitPlace, Alive, TargetSends, CollectorGone, outsideElse
<1>31. CASE TargetCloses
  BY <1>31 DEF TypeOK, ExitPlace, Alive, TargetCloses, outsideElse
<1>32. CASE CtrlC
  BY <1>32 DEF TypeOK, ExitPlace, Alive, CtrlC, Leave, outsideElse
<1>33. CASE Detach
  BY <1>33 DEF TypeOK, ExitPlace, Alive, Detach, outsideElse
<1>34. CASE Kill
  BY <1>34 DEF TypeOK, ExitPlace, Alive, Kill, Leave
<1>35. ASSUME NEW s \in Samplers, SamplerTop(s) PROVE ExitPlace'
  BY <1>35 DEF TypeOK, ExitPlace, Alive, SamplerTop, samplerElse, Moves, rowVars
<1>36. ASSUME NEW s \in Samplers, SamplerReads(s) PROVE ExitPlace'
  BY <1>36 DEF TypeOK, ExitPlace, Alive, SamplerReads, samplerElse, Moves, rowVars
<1>37. ASSUME NEW s \in Samplers, SamplerSends(s) PROVE ExitPlace'
  BY <1>37 DEF TypeOK, ExitPlace, Alive, SamplerSends, samplerElse, Moves, rowVars
<1>38. CASE \E at \in Setup : Fail(at)
  BY <1>38 DEF TypeOK, ExitPlace, Alive, Fail, Leave
<1>39. QED
  BY <1>1, <1>2, <1>3, <1>4, <1>5, <1>6, <1>7, <1>8, <1>9, <1>10, <1>11, <1>12,
         <1>13, <1>14, <1>15, <1>16, <1>17, <1>18, <1>19, <1>20, <1>21, <1>22,
         <1>23, <1>24, <1>25, <1>26, <1>27, <1>28, <1>29, <1>30, <1>31, <1>32,
         <1>33, <1>34, <1>35, <1>36, <1>37, <1>38
     DEF Next, MainStep, CollectorStep, RecorderStep, SamplerStep, Outside

LEMMA DrainedStep ==
  ASSUME TypeOK, ExitPlace, Drained, Quiet, Alive, Next
  PROVE  Drained'
<1>1. CASE EnsurePid
  BY <1>1 DEF TypeOK, ExitPlace, Drained, Quiet, Alive, CollectorGone, Recorded,
         EnsurePid, Goto
<1>2. CASE MakePrivateDir
  BY <1>2 DEF TypeOK, ExitPlace, Drained, Quiet, Alive, CollectorGone, Recorded,
         MakePrivateDir, Goto, Leave
<1>3. CASE Bind
  BY <1>3 DEF TypeOK, ExitPlace, Drained, Quiet, Alive, CollectorGone, Recorded,
         Bind, Goto
<1>4. CASE SetHandler
  BY <1>4 DEF TypeOK, ExitPlace, Drained, Quiet, Alive, CollectorGone, Recorded,
         SetHandler, Goto
<1>5. CASE WriteBootstrap
  BY <1>5 DEF TypeOK, ExitPlace, Drained, Quiet, Alive, CollectorGone, Recorded,
         WriteBootstrap, Goto
<1>6. CASE Inject
  BY <1>6 DEF TypeOK, ExitPlace, Drained, Quiet, Alive, CollectorGone, Recorded,
         Inject, Goto
<1>7. CASE AcceptAborted
  BY <1>7 DEF TypeOK, ExitPlace, Drained, Quiet, Alive, CollectorGone, Recorded,
         AcceptAborted, Leave
<1>8. CASE Accept
  BY <1>8 DEF TypeOK, ExitPlace, Drained, Quiet, Alive, CollectorGone, Recorded,
         Accept, Goto
<1>9. CASE StartSession
  BY <1>9 DEF TypeOK, ExitPlace, Drained, Quiet, Alive, CollectorGone, Recorded,
         StartSession, Goto
<1>10. CASE ServeBind
  BY <1>10 DEF TypeOK, ExitPlace, Drained, Quiet, Alive, CollectorGone, Recorded,
         ServeBind, Goto
<1>11. CASE ServeStops
  BY <1>11 DEF TypeOK, ExitPlace, Drained, Quiet, Alive, CollectorGone, Recorded,
         ServeStops, Goto
<1>12. CASE WatchEnds
  BY <1>12 DEF TypeOK, ExitPlace, Drained, Quiet, Alive, CollectorGone, Recorded,
         WatchEnds, Goto, CollectorGone
<1>13. CASE JoinCollector
  BY <1>13 DEF TypeOK, ExitPlace, Drained, Quiet, Alive, CollectorGone, Recorded,
         JoinCollector, Goto, CollectorGone
<1>14. CASE JoinRecorder
  BY <1>14 DEF TypeOK, ExitPlace, Drained, Quiet, Alive, CollectorGone, Recorded,
         JoinRecorder, Goto
<1>15. CASE Cleanup
  BY <1>15 DEF TypeOK, ExitPlace, Drained, Quiet, Alive, CollectorGone, Recorded,
         Cleanup, Goto
<1>16. CASE Conclude
  BY <1>16 DEF TypeOK, ExitPlace, Drained, Quiet, Alive, CollectorGone, Recorded,
         Conclude, Goto, Leave
<1>17. CASE LastFlush
  BY <1>17 DEF TypeOK, ExitPlace, Drained, Quiet, Alive, CollectorGone, Recorded,
         LastFlush, Goto, Leave, FlushToFile
<1>18. CASE Return
  BY <1>18 DEF TypeOK, ExitPlace, Drained, Quiet, Alive, CollectorGone, Recorded,
         Return, Leave
<1>19. CASE WatchFlush
  BY <1>19 DEF TypeOK, ExitPlace, Drained, Quiet, Alive, CollectorGone, Recorded,
         WatchFlush, FlushToFile
<1>20. CASE CollectorStarts
  BY <1>20 DEF TypeOK, ExitPlace, Drained, Quiet, Alive, CollectorGone, Recorded,
         CollectorStarts, collectorElse
<1>21. CASE CollectorTop
  BY <1>21 DEF TypeOK, ExitPlace, Drained, Quiet, Alive, CollectorGone, Recorded,
         CollectorTop, collectorElse
<1>22. CASE CollectorRead
  BY <1>22 DEF TypeOK, ExitPlace, Drained, Quiet, Alive, CollectorGone, Recorded,
         CollectorRead, collectorElse
<1>23. CASE CollectorMeta
  BY <1>23 DEF TypeOK, ExitPlace, Drained, Quiet, Alive, CollectorGone, Recorded,
         CollectorMeta, SetTid, StartSampler, Fresh, collectorElse
<1>24. CASE CollectorEof
  BY <1>24 DEF TypeOK, ExitPlace, Drained, Quiet, Alive, CollectorGone, Recorded,
         CollectorEof, collectorElse
<1>25. CASE CollectorLeaves
  BY <1>25 DEF TypeOK, ExitPlace, Drained, Quiet, Alive, CollectorGone, Recorded,
         CollectorLeaves, collectorElse
<1>26. CASE RecorderTop
  BY <1>26 DEF TypeOK, ExitPlace, Drained, Quiet, Alive, CollectorGone, Recorded,
         RecorderTop, recorderElse
<1>27. CASE RecorderFlush
  BY <1>27 DEF TypeOK, ExitPlace, Drained, Quiet, Alive, CollectorGone, Recorded,
         RecorderFlush, FlushToFile, recorderElse
<1>28. CASE RecorderIdles
  BY <1>28 DEF TypeOK, ExitPlace, Drained, Quiet, Alive, CollectorGone, Recorded,
         RecorderIdles, recorderElse
<1>29. CASE TargetConnects
  BY <1>29 DEF TypeOK, ExitPlace, Drained, Quiet, Alive, CollectorGone, Recorded,
         TargetConnects, outsideElse
<1>30. CASE TargetSends
  BY <1>30 DEF TypeOK, ExitPlace, Drained, Quiet, Alive, CollectorGone, Recorded,
         TargetSends, CollectorGone, outsideElse
<1>31. CASE TargetCloses
  BY <1>31 DEF TypeOK, ExitPlace, Drained, Quiet, Alive, CollectorGone, Recorded,
         TargetCloses, outsideElse
<1>32. CASE CtrlC
  BY <1>32 DEF TypeOK, ExitPlace, Drained, Quiet, Alive, CollectorGone, Recorded,
         CtrlC, Leave, outsideElse
<1>33. CASE Detach
  BY <1>33 DEF TypeOK, ExitPlace, Drained, Quiet, Alive, CollectorGone, Recorded,
         Detach, outsideElse
<1>34. CASE Kill
  BY <1>34 DEF TypeOK, ExitPlace, Drained, Quiet, Alive, CollectorGone, Recorded,
         Kill, Leave
<1>35. ASSUME NEW s \in Samplers, SamplerTop(s) PROVE Drained'
  BY <1>35 DEF TypeOK, ExitPlace, Drained, Quiet, Alive, CollectorGone, Recorded,
         SamplerTop, samplerElse, Moves, rowVars
<1>36. ASSUME NEW s \in Samplers, SamplerReads(s) PROVE Drained'
  BY <1>36 DEF TypeOK, ExitPlace, Drained, Quiet, Alive, CollectorGone, Recorded,
         SamplerReads, samplerElse, Moves, rowVars
<1>37. ASSUME NEW s \in Samplers, SamplerSends(s) PROVE Drained'
  BY <1>37 DEF TypeOK, ExitPlace, Drained, Quiet, Alive, CollectorGone, Recorded,
         SamplerSends, samplerElse, Moves, rowVars
<1>38. CASE \E at \in Setup : Fail(at)
  BY <1>38 DEF TypeOK, ExitPlace, Drained, Quiet, Alive, CollectorGone, Recorded,
         Fail, Leave
<1>39. QED
  BY <1>1, <1>2, <1>3, <1>4, <1>5, <1>6, <1>7, <1>8, <1>9, <1>10, <1>11, <1>12,
         <1>13, <1>14, <1>15, <1>16, <1>17, <1>18, <1>19, <1>20, <1>21, <1>22,
         <1>23, <1>24, <1>25, <1>26, <1>27, <1>28, <1>29, <1>30, <1>31, <1>32,
         <1>33, <1>34, <1>35, <1>36, <1>37, <1>38
     DEF Next, MainStep, CollectorStep, RecorderStep, SamplerStep, Outside

LEMMA QuietStep ==
  ASSUME TypeOK, ExitPlace, Drained, Quiet, Alive, Next
  PROVE  Quiet'
<1>1. CASE EnsurePid
  BY <1>1 DEF TypeOK, ExitPlace, Drained, Quiet, Alive, CollectorGone, EnsurePid,
         Goto
<1>2. CASE MakePrivateDir
  BY <1>2 DEF TypeOK, ExitPlace, Drained, Quiet, Alive, CollectorGone,
         MakePrivateDir, Goto, Leave
<1>3. CASE Bind
  BY <1>3 DEF TypeOK, ExitPlace, Drained, Quiet, Alive, CollectorGone, Bind, Goto
<1>4. CASE SetHandler
  BY <1>4 DEF TypeOK, ExitPlace, Drained, Quiet, Alive, CollectorGone, SetHandler,
         Goto
<1>5. CASE WriteBootstrap
  BY <1>5 DEF TypeOK, ExitPlace, Drained, Quiet, Alive, CollectorGone,
         WriteBootstrap, Goto
<1>6. CASE Inject
  BY <1>6 DEF TypeOK, ExitPlace, Drained, Quiet, Alive, CollectorGone, Inject, Goto
<1>7. CASE AcceptAborted
  BY <1>7 DEF TypeOK, ExitPlace, Drained, Quiet, Alive, CollectorGone,
         AcceptAborted, Leave
<1>8. CASE Accept
  BY <1>8 DEF TypeOK, ExitPlace, Drained, Quiet, Alive, CollectorGone, Accept, Goto
<1>9. CASE StartSession
  BY <1>9 DEF TypeOK, ExitPlace, Drained, Quiet, Alive, CollectorGone, StartSession,
         Goto
<1>10. CASE ServeBind
  BY <1>10 DEF TypeOK, ExitPlace, Drained, Quiet, Alive, CollectorGone, ServeBind,
         Goto
<1>11. CASE ServeStops
  BY <1>11 DEF TypeOK, ExitPlace, Drained, Quiet, Alive, CollectorGone, ServeStops,
         Goto
<1>12. CASE WatchEnds
  BY <1>12 DEF TypeOK, ExitPlace, Drained, Quiet, Alive, CollectorGone, WatchEnds,
         Goto, CollectorGone
<1>13. CASE JoinCollector
  BY <1>13 DEF TypeOK, ExitPlace, Drained, Quiet, Alive, CollectorGone,
         JoinCollector, Goto, CollectorGone
<1>14. CASE JoinRecorder
  BY <1>14 DEF TypeOK, ExitPlace, Drained, Quiet, Alive, CollectorGone,
         JoinRecorder, Goto
<1>15. CASE Cleanup
  BY <1>15 DEF TypeOK, ExitPlace, Drained, Quiet, Alive, CollectorGone, Cleanup,
         Goto
<1>16. CASE Conclude
  BY <1>16 DEF TypeOK, ExitPlace, Drained, Quiet, Alive, CollectorGone, Conclude,
         Goto, Leave
<1>17. CASE LastFlush
  BY <1>17 DEF TypeOK, ExitPlace, Drained, Quiet, Alive, CollectorGone, LastFlush,
         Goto, Leave, FlushToFile
<1>18. CASE Return
  BY <1>18 DEF TypeOK, ExitPlace, Drained, Quiet, Alive, CollectorGone, Return,
         Leave
<1>19. CASE WatchFlush
  BY <1>19 DEF TypeOK, ExitPlace, Drained, Quiet, Alive, CollectorGone, WatchFlush,
         FlushToFile
<1>20. CASE CollectorStarts
  BY <1>20 DEF TypeOK, ExitPlace, Drained, Quiet, Alive, CollectorGone,
         CollectorStarts, collectorElse
<1>21. CASE CollectorTop
  BY <1>21 DEF TypeOK, ExitPlace, Drained, Quiet, Alive, CollectorGone,
         CollectorTop, collectorElse
<1>22. CASE CollectorRead
  BY <1>22 DEF TypeOK, ExitPlace, Drained, Quiet, Alive, CollectorGone,
         CollectorRead, collectorElse
<1>23. CASE CollectorMeta
  BY <1>23 DEF TypeOK, ExitPlace, Drained, Quiet, Alive, CollectorGone,
         CollectorMeta, SetTid, StartSampler, Fresh, collectorElse
<1>24. CASE CollectorEof
  BY <1>24 DEF TypeOK, ExitPlace, Drained, Quiet, Alive, CollectorGone,
         CollectorEof, collectorElse
<1>25. CASE CollectorLeaves
  BY <1>25 DEF TypeOK, ExitPlace, Drained, Quiet, Alive, CollectorGone,
         CollectorLeaves, collectorElse
<1>26. CASE RecorderTop
  BY <1>26 DEF TypeOK, ExitPlace, Drained, Quiet, Alive, CollectorGone, RecorderTop,
         recorderElse
<1>27. CASE RecorderFlush
  BY <1>27 DEF TypeOK, ExitPlace, Drained, Quiet, Alive, CollectorGone,
         RecorderFlush, FlushToFile, recorderElse
<1>28. CASE RecorderIdles
  BY <1>28 DEF TypeOK, ExitPlace, Drained, Quiet, Alive, CollectorGone,
         RecorderIdles, recorderElse
<1>29. CASE TargetConnects
  BY <1>29 DEF TypeOK, ExitPlace, Drained, Quiet, Alive, CollectorGone,
         TargetConnects, outsideElse
<1>30. CASE TargetSends
  BY <1>30 DEF TypeOK, ExitPlace, Drained, Quiet, Alive, CollectorGone, TargetSends,
         CollectorGone, outsideElse
<1>31. CASE TargetCloses
  BY <1>31 DEF TypeOK, ExitPlace, Drained, Quiet, Alive, CollectorGone,
         TargetCloses, outsideElse
<1>32. CASE CtrlC
  BY <1>32 DEF TypeOK, ExitPlace, Drained, Quiet, Alive, CollectorGone, CtrlC,
         Leave, outsideElse
<1>33. CASE Detach
  BY <1>33 DEF TypeOK, ExitPlace, Drained, Quiet, Alive, CollectorGone, Detach,
         outsideElse
<1>34. CASE Kill
  BY <1>34 DEF TypeOK, ExitPlace, Drained, Quiet, Alive, CollectorGone, Kill, Leave
<1>35. ASSUME NEW s \in Samplers, SamplerTop(s) PROVE Quiet'
  BY <1>35 DEF TypeOK, ExitPlace, Drained, Quiet, Alive, CollectorGone, SamplerTop,
         samplerElse, Moves, rowVars
<1>36. ASSUME NEW s \in Samplers, SamplerReads(s) PROVE Quiet'
  BY <1>36 DEF TypeOK, ExitPlace, Drained, Quiet, Alive, CollectorGone,
         SamplerReads, samplerElse, Moves, rowVars
<1>37. ASSUME NEW s \in Samplers, SamplerSends(s) PROVE Quiet'
  BY <1>37 DEF TypeOK, ExitPlace, Drained, Quiet, Alive, CollectorGone,
         SamplerSends, samplerElse, Moves, rowVars
<1>38. CASE \E at \in Setup : Fail(at)
  BY <1>38 DEF TypeOK, ExitPlace, Drained, Quiet, Alive, CollectorGone, Fail, Leave
<1>39. QED
  BY <1>1, <1>2, <1>3, <1>4, <1>5, <1>6, <1>7, <1>8, <1>9, <1>10, <1>11, <1>12,
         <1>13, <1>14, <1>15, <1>16, <1>17, <1>18, <1>19, <1>20, <1>21, <1>22,
         <1>23, <1>24, <1>25, <1>26, <1>27, <1>28, <1>29, <1>30, <1>31, <1>32,
         <1>33, <1>34, <1>35, <1>36, <1>37, <1>38
     DEF Next, MainStep, CollectorStep, RecorderStep, SamplerStep, Outside

LEMMA SamplerStepKeeps ==
  ASSUME TypeOK, Drained, OneSampler, Next
  PROVE  OneSampler'
<1>1. CASE EnsurePid
  BY <1>1 DEF TypeOK, OneSampler, Drained, EnsurePid, Goto
<1>2. CASE MakePrivateDir
  BY <1>2 DEF TypeOK, OneSampler, Drained, MakePrivateDir, Goto, Leave
<1>3. CASE Bind
  BY <1>3 DEF TypeOK, OneSampler, Drained, Bind, Goto
<1>4. CASE SetHandler
  BY <1>4 DEF TypeOK, OneSampler, Drained, SetHandler, Goto
<1>5. CASE WriteBootstrap
  BY <1>5 DEF TypeOK, OneSampler, Drained, WriteBootstrap, Goto
<1>6. CASE Inject
  BY <1>6 DEF TypeOK, OneSampler, Drained, Inject, Goto
<1>7. CASE AcceptAborted
  BY <1>7 DEF TypeOK, OneSampler, Drained, AcceptAborted, Leave
<1>8. CASE Accept
  BY <1>8 DEF TypeOK, OneSampler, Drained, Accept, Goto
<1>9. CASE StartSession
  BY <1>9 DEF TypeOK, OneSampler, Drained, StartSession, Goto
<1>10. CASE ServeBind
  BY <1>10 DEF TypeOK, OneSampler, Drained, ServeBind, Goto
<1>11. CASE ServeStops
  BY <1>11 DEF TypeOK, OneSampler, Drained, ServeStops, Goto
<1>12. CASE WatchEnds
  BY <1>12 DEF TypeOK, OneSampler, Drained, WatchEnds, Goto, CollectorGone
<1>13. CASE JoinCollector
  BY <1>13 DEF TypeOK, OneSampler, Drained, JoinCollector, Goto, CollectorGone
<1>14. CASE JoinRecorder
  BY <1>14 DEF TypeOK, OneSampler, Drained, JoinRecorder, Goto
<1>15. CASE Cleanup
  BY <1>15 DEF TypeOK, OneSampler, Drained, Cleanup, Goto
<1>16. CASE Conclude
  BY <1>16 DEF TypeOK, OneSampler, Drained, Conclude, Goto, Leave
<1>17. CASE LastFlush
  BY <1>17 DEF TypeOK, OneSampler, Drained, LastFlush, Goto, Leave, FlushToFile
<1>18. CASE Return
  BY <1>18 DEF TypeOK, OneSampler, Drained, Return, Leave
<1>19. CASE WatchFlush
  BY <1>19 DEF TypeOK, OneSampler, Drained, WatchFlush, FlushToFile
<1>20. CASE CollectorStarts
  BY <1>20 DEF TypeOK, OneSampler, Drained, CollectorStarts, collectorElse
<1>21. CASE CollectorTop
  BY <1>21 DEF TypeOK, OneSampler, Drained, CollectorTop, collectorElse
<1>22. CASE CollectorRead
  BY <1>22 DEF TypeOK, OneSampler, Drained, CollectorRead, collectorElse
<1>23. CASE CollectorMeta
  <2>1. CASE StartSampler
    <3>1. PICK f \in Samplers : sampler' = [sampler EXCEPT ![f] = "check"]
      BY <2>1 DEF StartSampler, Fresh
    <3>2. ~tasked /\ tasked' = TRUE /\ UNCHANGED <<tag, samples, handed>>
      BY <1>23 DEF CollectorMeta, SetTid
    <3>3. sampler \in [Samplers -> {"none", "check", "asleep", "read", "done"}]
      BY DEF TypeOK
    <3>4. \A s \in Samplers : sampler[s] = "none"
      BY <3>2 DEF OneSampler
    <3>5. \A s \in Samplers : sampler'[s] = IF s = f THEN "check" ELSE "none"
      BY <3>1, <3>3, <3>4
    <3>6. QED  BY <3>2, <3>5 DEF OneSampler
  <2>2. CASE UNCHANGED sampler
    BY <1>23, <2>2 DEF OneSampler, CollectorMeta, SetTid
  <2>3. QED  BY <1>23, <2>1, <2>2 DEF CollectorMeta, SetTid
<1>24. CASE CollectorEof
  BY <1>24 DEF TypeOK, OneSampler, Drained, CollectorEof, collectorElse
<1>25. CASE CollectorLeaves
  BY <1>25 DEF TypeOK, OneSampler, Drained, CollectorLeaves, collectorElse
<1>26. CASE RecorderTop
  BY <1>26 DEF TypeOK, OneSampler, Drained, RecorderTop, recorderElse
<1>27. CASE RecorderFlush
  BY <1>27 DEF TypeOK, OneSampler, Drained, RecorderFlush, FlushToFile, recorderElse
<1>28. CASE RecorderIdles
  BY <1>28 DEF TypeOK, OneSampler, Drained, RecorderIdles, recorderElse
<1>29. CASE TargetConnects
  BY <1>29 DEF TypeOK, OneSampler, Drained, TargetConnects, outsideElse
<1>30. CASE TargetSends
  BY <1>30 DEF TypeOK, OneSampler, Drained, TargetSends, CollectorGone, outsideElse
<1>31. CASE TargetCloses
  BY <1>31 DEF TypeOK, OneSampler, Drained, TargetCloses, outsideElse
<1>32. CASE CtrlC
  BY <1>32 DEF TypeOK, OneSampler, Drained, CtrlC, Leave, outsideElse
<1>33. CASE Detach
  BY <1>33 DEF TypeOK, OneSampler, Drained, Detach, outsideElse
<1>34. CASE Kill
  BY <1>34 DEF TypeOK, OneSampler, Drained, Kill, Leave
<1>35. ASSUME NEW s \in Samplers, SamplerTop(s) PROVE OneSampler'
  BY <1>35 DEF TypeOK, OneSampler, Drained, SamplerTop, samplerElse, Moves, rowVars
<1>36. ASSUME NEW s \in Samplers, SamplerReads(s) PROVE OneSampler'
  <2>1. /\ sampler \in [Samplers -> {"none", "check", "asleep", "read", "done"}]
        /\ tag \in [Samplers -> Nat] /\ samples \in Seq(Nat) /\ handed \in Nat
    BY DEF TypeOK
  <2>2. sampler[s] = "asleep" /\ UNCHANGED <<tasked, samples, handed>>
    BY <1>36 DEF SamplerReads, Moves, samplerElse, rowVars
  <2>3. CASE Moves(s, "asleep", "read") /\ tag' = [tag EXCEPT ![s] = handed]
    BY <2>1, <2>2, <2>3 DEF OneSampler, Moves
  <2>4. CASE Moves(s, "asleep", "check") /\ UNCHANGED tag
    BY <2>1, <2>2, <2>4 DEF OneSampler, Moves
  <2>5. QED  BY <1>36, <2>3, <2>4 DEF SamplerReads
<1>37. ASSUME NEW s \in Samplers, SamplerSends(s) PROVE OneSampler'
  BY <1>37 DEF TypeOK, OneSampler, Drained, SamplerSends, samplerElse, Moves,
         rowVars
<1>38. CASE \E at \in Setup : Fail(at)
  BY <1>38 DEF TypeOK, OneSampler, Drained, Fail, Leave
<1>39. QED
  BY <1>1, <1>2, <1>3, <1>4, <1>5, <1>6, <1>7, <1>8, <1>9, <1>10, <1>11, <1>12,
         <1>13, <1>14, <1>15, <1>16, <1>17, <1>18, <1>19, <1>20, <1>21, <1>22,
         <1>23, <1>24, <1>25, <1>26, <1>27, <1>28, <1>29, <1>30, <1>31, <1>32,
         <1>33, <1>34, <1>35, <1>36, <1>37, <1>38
     DEF Next, MainStep, CollectorStep, RecorderStep, SamplerStep, Outside

LEMMA OrderStep ==
  ASSUME TypeOK, OneSampler, SamplesInOrder, Next
  PROVE  SamplesInOrder'
<1>1. CASE EnsurePid
  BY <1>1 DEF TypeOK, OneSampler, SamplesInOrder, EnsurePid, Goto
<1>2. CASE MakePrivateDir
  BY <1>2 DEF TypeOK, OneSampler, SamplesInOrder, MakePrivateDir, Goto, Leave
<1>3. CASE Bind
  BY <1>3 DEF TypeOK, OneSampler, SamplesInOrder, Bind, Goto
<1>4. CASE SetHandler
  BY <1>4 DEF TypeOK, OneSampler, SamplesInOrder, SetHandler, Goto
<1>5. CASE WriteBootstrap
  BY <1>5 DEF TypeOK, OneSampler, SamplesInOrder, WriteBootstrap, Goto
<1>6. CASE Inject
  BY <1>6 DEF TypeOK, OneSampler, SamplesInOrder, Inject, Goto
<1>7. CASE AcceptAborted
  BY <1>7 DEF TypeOK, OneSampler, SamplesInOrder, AcceptAborted, Leave
<1>8. CASE Accept
  BY <1>8 DEF TypeOK, OneSampler, SamplesInOrder, Accept, Goto
<1>9. CASE StartSession
  BY <1>9 DEF TypeOK, OneSampler, SamplesInOrder, StartSession, Goto
<1>10. CASE ServeBind
  BY <1>10 DEF TypeOK, OneSampler, SamplesInOrder, ServeBind, Goto
<1>11. CASE ServeStops
  BY <1>11 DEF TypeOK, OneSampler, SamplesInOrder, ServeStops, Goto
<1>12. CASE WatchEnds
  BY <1>12 DEF TypeOK, OneSampler, SamplesInOrder, WatchEnds, Goto, CollectorGone
<1>13. CASE JoinCollector
  BY <1>13 DEF TypeOK, OneSampler, SamplesInOrder, JoinCollector, Goto,
         CollectorGone
<1>14. CASE JoinRecorder
  BY <1>14 DEF TypeOK, OneSampler, SamplesInOrder, JoinRecorder, Goto
<1>15. CASE Cleanup
  BY <1>15 DEF TypeOK, OneSampler, SamplesInOrder, Cleanup, Goto
<1>16. CASE Conclude
  BY <1>16 DEF TypeOK, OneSampler, SamplesInOrder, Conclude, Goto, Leave
<1>17. CASE LastFlush
  BY <1>17 DEF TypeOK, OneSampler, SamplesInOrder, LastFlush, Goto, Leave,
         FlushToFile
<1>18. CASE Return
  BY <1>18 DEF TypeOK, OneSampler, SamplesInOrder, Return, Leave
<1>19. CASE WatchFlush
  BY <1>19 DEF TypeOK, OneSampler, SamplesInOrder, WatchFlush, FlushToFile
<1>20. CASE CollectorStarts
  BY <1>20 DEF TypeOK, OneSampler, SamplesInOrder, CollectorStarts, collectorElse
<1>21. CASE CollectorTop
  BY <1>21 DEF TypeOK, OneSampler, SamplesInOrder, CollectorTop, collectorElse
<1>22. CASE CollectorRead
  BY <1>22 DEF TypeOK, OneSampler, SamplesInOrder, CollectorRead, collectorElse
<1>23. CASE CollectorMeta
  BY <1>23 DEF TypeOK, OneSampler, SamplesInOrder, CollectorMeta, SetTid,
         StartSampler, Fresh, collectorElse
<1>24. CASE CollectorEof
  BY <1>24 DEF TypeOK, OneSampler, SamplesInOrder, CollectorEof, collectorElse
<1>25. CASE CollectorLeaves
  BY <1>25 DEF TypeOK, OneSampler, SamplesInOrder, CollectorLeaves, collectorElse
<1>26. CASE RecorderTop
  BY <1>26 DEF TypeOK, OneSampler, SamplesInOrder, RecorderTop, recorderElse
<1>27. CASE RecorderFlush
  BY <1>27 DEF TypeOK, OneSampler, SamplesInOrder, RecorderFlush, FlushToFile,
         recorderElse
<1>28. CASE RecorderIdles
  BY <1>28 DEF TypeOK, OneSampler, SamplesInOrder, RecorderIdles, recorderElse
<1>29. CASE TargetConnects
  BY <1>29 DEF TypeOK, OneSampler, SamplesInOrder, TargetConnects, outsideElse
<1>30. CASE TargetSends
  BY <1>30 DEF TypeOK, OneSampler, SamplesInOrder, TargetSends, CollectorGone,
         outsideElse
<1>31. CASE TargetCloses
  BY <1>31 DEF TypeOK, OneSampler, SamplesInOrder, TargetCloses, outsideElse
<1>32. CASE CtrlC
  BY <1>32 DEF TypeOK, OneSampler, SamplesInOrder, CtrlC, Leave, outsideElse
<1>33. CASE Detach
  BY <1>33 DEF TypeOK, OneSampler, SamplesInOrder, Detach, outsideElse
<1>34. CASE Kill
  BY <1>34 DEF TypeOK, OneSampler, SamplesInOrder, Kill, Leave
<1>35. ASSUME NEW s \in Samplers, SamplerTop(s) PROVE SamplesInOrder'
  BY <1>35 DEF TypeOK, OneSampler, SamplesInOrder, SamplerTop, samplerElse, Moves,
         rowVars
<1>36. ASSUME NEW s \in Samplers, SamplerReads(s) PROVE SamplesInOrder'
  BY <1>36 DEF TypeOK, OneSampler, SamplesInOrder, SamplerReads, samplerElse, Moves,
         rowVars
<1>37. ASSUME NEW s \in Samplers, SamplerSends(s) PROVE SamplesInOrder'
  BY <1>37 DEF TypeOK, OneSampler, SamplesInOrder, SamplerSends, samplerElse, Moves,
         rowVars
<1>38. CASE \E at \in Setup : Fail(at)
  BY <1>38 DEF TypeOK, OneSampler, SamplesInOrder, Fail, Leave
<1>39. QED
  BY <1>1, <1>2, <1>3, <1>4, <1>5, <1>6, <1>7, <1>8, <1>9, <1>10, <1>11, <1>12,
         <1>13, <1>14, <1>15, <1>16, <1>17, <1>18, <1>19, <1>20, <1>21, <1>22,
         <1>23, <1>24, <1>25, <1>26, <1>27, <1>28, <1>29, <1>30, <1>31, <1>32,
         <1>33, <1>34, <1>35, <1>36, <1>37, <1>38
     DEF Next, MainStep, CollectorStep, RecorderStep, SamplerStep, Outside

LEMMA LastStep ==
  ASSUME TypeOK, ExitPlace, Drained, OneSampler, LastSample, Alive, Next
  PROVE  LastSample'
<1>1. CASE EnsurePid
  BY <1>1 DEF TypeOK, ExitPlace, Drained, OneSampler, LastSample, InHand,
         CollectorGone, Alive, EnsurePid, Goto
<1>2. CASE MakePrivateDir
  BY <1>2 DEF TypeOK, ExitPlace, Drained, OneSampler, LastSample, InHand,
         CollectorGone, Alive, MakePrivateDir, Goto, Leave
<1>3. CASE Bind
  BY <1>3 DEF TypeOK, ExitPlace, Drained, OneSampler, LastSample, InHand,
         CollectorGone, Alive, Bind, Goto
<1>4. CASE SetHandler
  BY <1>4 DEF TypeOK, ExitPlace, Drained, OneSampler, LastSample, InHand,
         CollectorGone, Alive, SetHandler, Goto
<1>5. CASE WriteBootstrap
  BY <1>5 DEF TypeOK, ExitPlace, Drained, OneSampler, LastSample, InHand,
         CollectorGone, Alive, WriteBootstrap, Goto
<1>6. CASE Inject
  BY <1>6 DEF TypeOK, ExitPlace, Drained, OneSampler, LastSample, InHand,
         CollectorGone, Alive, Inject, Goto
<1>7. CASE AcceptAborted
  BY <1>7 DEF TypeOK, ExitPlace, Drained, OneSampler, LastSample, InHand,
         CollectorGone, Alive, AcceptAborted, Leave
<1>8. CASE Accept
  BY <1>8 DEF TypeOK, ExitPlace, Drained, OneSampler, LastSample, InHand,
         CollectorGone, Alive, Accept, Goto
<1>9. CASE StartSession
  BY <1>9 DEF TypeOK, ExitPlace, Drained, OneSampler, LastSample, InHand,
         CollectorGone, Alive, StartSession, Goto
<1>10. CASE ServeBind
  BY <1>10 DEF TypeOK, ExitPlace, Drained, OneSampler, LastSample, InHand,
         CollectorGone, Alive, ServeBind, Goto
<1>11. CASE ServeStops
  BY <1>11 DEF TypeOK, ExitPlace, Drained, OneSampler, LastSample, InHand,
         CollectorGone, Alive, ServeStops, Goto
<1>12. CASE WatchEnds
  BY <1>12 DEF TypeOK, ExitPlace, Drained, OneSampler, LastSample, InHand,
         CollectorGone, Alive, WatchEnds, Goto, CollectorGone
<1>13. CASE JoinCollector
  BY <1>13 DEF TypeOK, ExitPlace, Drained, OneSampler, LastSample, InHand,
         CollectorGone, Alive, JoinCollector, Goto, CollectorGone
<1>14. CASE JoinRecorder
  BY <1>14 DEF TypeOK, ExitPlace, Drained, OneSampler, LastSample, InHand,
         CollectorGone, Alive, JoinRecorder, Goto
<1>15. CASE Cleanup
  BY <1>15 DEF TypeOK, ExitPlace, Drained, OneSampler, LastSample, InHand,
         CollectorGone, Alive, Cleanup, Goto
<1>16. CASE Conclude
  BY <1>16 DEF TypeOK, ExitPlace, Drained, OneSampler, LastSample, InHand,
         CollectorGone, Alive, Conclude, Goto, Leave
<1>17. CASE LastFlush
  BY <1>17 DEF TypeOK, ExitPlace, Drained, OneSampler, LastSample, InHand,
         CollectorGone, Alive, LastFlush, Goto, Leave, FlushToFile
<1>18. CASE Return
  BY <1>18 DEF TypeOK, ExitPlace, Drained, OneSampler, LastSample, InHand,
         CollectorGone, Alive, Return, Leave
<1>19. CASE WatchFlush
  BY <1>19 DEF TypeOK, ExitPlace, Drained, OneSampler, LastSample, InHand,
         CollectorGone, Alive, WatchFlush, FlushToFile
<1>20. CASE CollectorStarts
  BY <1>20 DEF TypeOK, ExitPlace, Drained, OneSampler, LastSample, InHand,
         CollectorGone, Alive, CollectorStarts, collectorElse
<1>21. CASE CollectorTop
  BY <1>21 DEF TypeOK, ExitPlace, Drained, OneSampler, LastSample, InHand,
         CollectorGone, Alive, CollectorTop, collectorElse
<1>22. CASE CollectorRead
  BY <1>22 DEF TypeOK, ExitPlace, Drained, OneSampler, LastSample, InHand,
         CollectorGone, Alive, CollectorRead, collectorElse
<1>23. CASE CollectorMeta
  BY <1>23 DEF TypeOK, ExitPlace, Drained, OneSampler, LastSample, InHand,
         CollectorGone, Alive, CollectorMeta, SetTid, StartSampler, Fresh,
         collectorElse
<1>24. CASE CollectorEof
  BY <1>24 DEF TypeOK, ExitPlace, Drained, OneSampler, LastSample, InHand,
         CollectorGone, Alive, CollectorEof, collectorElse
<1>25. CASE CollectorLeaves
  BY <1>25 DEF TypeOK, ExitPlace, Drained, OneSampler, LastSample, InHand,
         CollectorGone, Alive, CollectorLeaves, collectorElse
<1>26. CASE RecorderTop
  BY <1>26 DEF TypeOK, ExitPlace, Drained, OneSampler, LastSample, InHand,
         CollectorGone, Alive, RecorderTop, recorderElse
<1>27. CASE RecorderFlush
  BY <1>27 DEF TypeOK, ExitPlace, Drained, OneSampler, LastSample, InHand,
         CollectorGone, Alive, RecorderFlush, FlushToFile, recorderElse
<1>28. CASE RecorderIdles
  BY <1>28 DEF TypeOK, ExitPlace, Drained, OneSampler, LastSample, InHand,
         CollectorGone, Alive, RecorderIdles, recorderElse
<1>29. CASE TargetConnects
  BY <1>29 DEF TypeOK, ExitPlace, Drained, OneSampler, LastSample, InHand,
         CollectorGone, Alive, TargetConnects, outsideElse
<1>30. CASE TargetSends
  BY <1>30 DEF TypeOK, ExitPlace, Drained, OneSampler, LastSample, InHand,
         CollectorGone, Alive, TargetSends, CollectorGone, outsideElse
<1>31. CASE TargetCloses
  BY <1>31 DEF TypeOK, ExitPlace, Drained, OneSampler, LastSample, InHand,
         CollectorGone, Alive, TargetCloses, outsideElse
<1>32. CASE CtrlC
  BY <1>32 DEF TypeOK, ExitPlace, Drained, OneSampler, LastSample, InHand,
         CollectorGone, Alive, CtrlC, Leave, outsideElse
<1>33. CASE Detach
  BY <1>33 DEF TypeOK, ExitPlace, Drained, OneSampler, LastSample, InHand,
         CollectorGone, Alive, Detach, outsideElse
<1>34. CASE Kill
  BY <1>34 DEF TypeOK, ExitPlace, Drained, OneSampler, LastSample, InHand,
         CollectorGone, Alive, Kill, Leave
<1>35. ASSUME NEW s \in Samplers, SamplerTop(s) PROVE LastSample'
  BY <1>35 DEF TypeOK, ExitPlace, Drained, OneSampler, LastSample, InHand,
         CollectorGone, Alive, SamplerTop, samplerElse, Moves, rowVars
<1>36. ASSUME NEW s \in Samplers, SamplerReads(s) PROVE LastSample'
  BY <1>36 DEF TypeOK, ExitPlace, Drained, OneSampler, LastSample, InHand,
         CollectorGone, Alive, SamplerReads, samplerElse, Moves, rowVars
<1>37. ASSUME NEW s \in Samplers, SamplerSends(s) PROVE LastSample'
  BY <1>37 DEF TypeOK, ExitPlace, Drained, OneSampler, LastSample, InHand,
         CollectorGone, Alive, SamplerSends, samplerElse, Moves, rowVars
<1>38. CASE \E at \in Setup : Fail(at)
  BY <1>38 DEF TypeOK, ExitPlace, Drained, OneSampler, LastSample, InHand,
         CollectorGone, Alive, Fail, Leave
<1>39. QED
  BY <1>1, <1>2, <1>3, <1>4, <1>5, <1>6, <1>7, <1>8, <1>9, <1>10, <1>11, <1>12,
         <1>13, <1>14, <1>15, <1>16, <1>17, <1>18, <1>19, <1>20, <1>21, <1>22,
         <1>23, <1>24, <1>25, <1>26, <1>27, <1>28, <1>29, <1>30, <1>31, <1>32,
         <1>33, <1>34, <1>35, <1>36, <1>37, <1>38
     DEF Next, MainStep, CollectorStep, RecorderStep, SamplerStep, Outside
-----------------------------------------------------------------------------
LEMMA InitIInv ==
  ASSUME Init
  PROVE  IInv
<1>1. TypeOK
  <2>1. result \in {"ok", "error"} /\ exit \in {"none", "ok", "error", "killed"}
        /\ dir \in BOOLEAN /\ armed \in BOOLEAN /\ running \in BOOLEAN
        /\ detached \in BOOLEAN /\ script \in BOOLEAN /\ tasked \in BOOLEAN
    BY Zenon DEF Init
  <2>2. QED  BY <2>1 DEF Init, TypeOK
<1>2. ExitPlace /\ Drained /\ Quiet /\ LastSample
  BY DEF Init, ExitPlace, Drained, Quiet, LastSample
<1>3. OneSampler /\ SamplesInOrder
  BY DEF Init, OneSampler, SamplesInOrder
<1>4. QED  BY <1>1, <1>2, <1>3 DEF IInv

LEMMA StepIInv == IInv /\ [Next]_vars => IInv'
<1>1. CASE IInv /\ Next
  <2>1. Alive
    BY <1>1 DEF Next
  <2>2. QED
    BY <1>1, <2>1, TypeStep, ExitStep, DrainedStep, QuietStep, SamplerStepKeeps, OrderStep,
       LastStep DEF IInv
<1>2. CASE IInv /\ UNCHANGED vars
  BY <1>2 DEF IInv, vars, TypeOK, ExitPlace, Drained, Quiet, OneSampler, SamplesInOrder,
       LastSample, CollectorGone, Recorded, InHand
<1>3. QED  BY <1>1, <1>2

LEMMA SpecIInv == Spec => []IInv
BY InitIInv, StepIInv, PTL DEF Spec

-----------------------------------------------------------------------------
(* The theorems. *)

\* The state of a session has the shapes its parts are given.
THEOREM SessionTypes == Spec => []TypeOK
<1>1. IInv => TypeOK
  BY DEF IInv
<1>2. QED  BY <1>1, SpecIInv, PTL

\* A recorded session that ends without an error has every decoded row in the
\* file, and of the samples all but at most one.
THEOREM CleanExitIsComplete == Spec => []CleanExitComplete
<1>1. IInv => CleanExitComplete
  BY DEF IInv, CleanExitComplete, ExitPlace, Drained, LastSample
<1>2. QED  BY <1>1, SpecIInv, PTL

\* No exit but a kill leaves the private directory of a started session behind.
THEOREM DirectoryIsRemoved == Spec => []DirRemoved
<1>1. IInv => DirRemoved
  BY DEF IInv, DirRemoved, ExitPlace
<1>2. QED  BY <1>1, SpecIInv, PTL

\* There is one sampler, so samples reach the store in the order of their tags.
THEOREM SamplesStayInOrder == Spec => []SamplesInOrder
<1>1. IInv => SamplesInOrder
  BY DEF IInv
<1>2. QED  BY <1>1, SpecIInv, PTL
=============================================================================
