\* The first of two sessions leaves, against the comment on _teardown.
CHECK_DEADLOCK FALSE
SPECIFICATION Spec
CONSTANTS
  Sessions = {s1, s2}
  NoHook = NoHook
  FlushFrames = 2
  GcqLen = 1
  MaxSwitches = 2
  MaxPauses = 0
INVARIANT RemovesOnlyItself
