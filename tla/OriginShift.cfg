\* A target that first switches some time after the hook was installed.
SPECIFICATION LiveSpec
CHECK_DEADLOCK FALSE
CONSTANTS
  Gids = {g1}
  Starts = {2}
  Durs = {1}
  FlushRows = 1
  MaxBatch = 1
  MaxRows = 1
  Capped = FALSE
  CapRows = 3
  AppendMayFail = FALSE
  I64Max = 99
  Tolerance = 1
  Asked = {0}
  Caps = {1}
  WinCap = 3
  AppendMax = 3
  Width = 1
  CappedMargin = 1
  TailMargin = 1
  MaxTime = 3
  PanTo = {}
  MaxFaults = 0
  MaxSuperseded = 0
INVARIANT LeadingEdgeInView
