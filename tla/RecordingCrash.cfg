\* Crashes at every step of a recording, no I/O errors.
\* A loaded recording is the end of the session.
CHECK_DEADLOCK FALSE
SPECIFICATION FairSpec
CONSTANTS
  Held <- SmallSession
  MaxErrors = 0
INVARIANTS
  ReadBackExact
  CleanExitKeepsAll
PROPERTIES
  LogSpec
