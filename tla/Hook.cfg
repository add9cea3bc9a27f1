\* Two sessions in one process: stalls, departures, pauses, events that raise.
\* The run ends with its bounds.
CHECK_DEADLOCK FALSE
SPECIFICATION Spec
SYMMETRY AlikeSessions
CONSTANTS
  Sessions = {s1, s2}
  NoHook = NoHook
  FlushFrames = 2
  GcqLen = 1
  MaxSwitches = 2
  MaxPauses = 2
INVARIANTS
  StreamExact
  GcExact
  BufferBounded
  LeftAsFound
