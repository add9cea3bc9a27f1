\* A live view with a row cap: two greenlets, one of them the hub, eviction,
\* batches Polars refuses; every query at every state, u64::MAX (15) included.
SPECIFICATION Spec
CONSTANTS
  Gids = {g1, hub}
  Starts = {0, 1, 2}
  Durs = {0, 2}
  FlushRows = 2
  MaxBatch = 1
  MaxRows = 4
  Capped = TRUE
  CapRows = 3
  AppendMayFail = TRUE
  I64Max = 7
  Tolerance = 1
  Asked = {0, 1, 2, 3, 4, 15}
  Caps = {1, 2}
  Hubs = {hub}
  LongNs = 0
  BlockedNs = 2
INVARIANTS
  Aligned
  SortedContract
  HorizonExact
  RangesExact
  TruncationHonest
  DetailFindsRow
  SlowLogHonest
  ReportAgrees
PROPERTIES
  EvictionBehindHorizon
