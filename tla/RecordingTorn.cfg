\* A failed write followed by a good flush, against SegmentWriter's comment.
CHECK_DEADLOCK FALSE
SPECIFICATION Spec
CONSTANTS
  Held <- TinySession
  MaxErrors = 1
INVARIANT SealedStaysReadable
