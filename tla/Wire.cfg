\* Three switches over pools of three, two flushes of the recording; and every
\* number of five bits, every stream of two short texts, every short input.
SPECIFICATION Spec
CONSTANTS
  MaxPool = 4
  MaxDelta = 1
  SegSoft = 8
  Resumes <- TwoResumes
  Yields <- ThreeYields
  MaxSwitches = 3
  MaxSkips = 1
  MaxPauses = 1
  MaxSamples = 1
  MaxSeals = 2
  Group = 4
  FullGroups = 2
  MaxFrameLen = 4
  MaxSegment = 9
  Letters = {5}
  AnyByte = {0, 1, 2, 3, 4, 5, 7}
INVARIANTS PoolsInStep EventsExact SegmentsExact NumbersRead
PROPERTY BytesRead
\* The run ends with its bounds.
CHECK_DEADLOCK FALSE
