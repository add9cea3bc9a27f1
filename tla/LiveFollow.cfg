\* A viewer on an uncapped live session, rows in any order.
SPECIFICATION LiveSpec
CHECK_DEADLOCK FALSE
CONSTANTS
  Gids = {g1}
  Starts = {0, 1}
  Durs = {1, 2}
  FlushRows = 1
  MaxBatch = 1
  MaxRows = 2
  Capped = FALSE
  CapRows = 3
  AppendMayFail = FALSE
  I64Max = 99
  Tolerance = 1
  Asked = {0}
  Caps = {1}
  WinCap = 1
  AppendMax = 2
  Width = 1
  CappedMargin = 1
  TailMargin = 1
  MaxTime = 2
  PanTo = {1}
  MaxFaults = 1
  MaxSuperseded = 1
INVARIANTS
  HeldOnce
  NoGap
  GuardHonest
PROPERTIES FollowCatchesUp DetachIsTold
