\* Every combination of --serve, --out and --no-inject. The session ends.
CHECK_DEADLOCK FALSE
SPECIFICATION Spec
CONSTANTS
  Samplers = {s1, s2}
  MaxRows = 2
  MaxSamples = 2
INVARIANTS
  CleanExitComplete
  DirRemoved
  SamplesInOrder
PROPERTIES
  SessionEnds
  SealsCatchUp
