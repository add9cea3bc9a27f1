\* Two hub threads, batches of two, every way a session can end, one query.
\* A stopped collector is the end of the session.
CHECK_DEADLOCK FALSE
SPECIFICATION PipeSpec
CONSTANTS
  Threads = {t1, t2}
  Steps = {0, 1}
  Batch = 2
  MaxFrames = 4
  FlushRows = 2
  MaxQueries = 1
INVARIANTS
  PipeExact
  StopKeepsDecoded
  CountersLead
  AnswersFresh
  OneHubSorted
PROPERTIES
  StopIsHonoured
  EventuallyInFrame
