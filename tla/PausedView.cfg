\* A paused viewer and a long run interval, against the comments on refreshing.
SPECIFICATION LiveSpec
CHECK_DEADLOCK FALSE
CONSTANTS
  Gids = {g1}
  Starts = {0, 1}
  Durs = {1, 3}
  FlushRows = 1
  MaxBatch = 1
  MaxRows = 2
  Capped = FALSE
  CapRows = 3
  AppendMayFail = FALSE
  I64Max = 99
  Tolerance = 1
  Asked = {0}
  Caps = {1}
  WinCap = 3
  AppendMax = 3
  Width = 1
  CappedMargin = 1
  TailMargin = 1
  MaxTime = 4
  PanTo = {}
  MaxFaults = 0
  MaxSuperseded = 0
INVARIANT QuietIsComplete
