\* I/O errors during a flush, retried by the next one; crashes as well.
CHECK_DEADLOCK FALSE
SPECIFICATION FairSpec
CONSTANTS
  Held <- TinySession
  MaxErrors = 2
INVARIANTS
  CursorsBehindDisk
PROPERTIES
  EventuallySealed
