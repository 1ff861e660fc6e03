CONSTANTS
  ReplyLen = 2
  MaxSends = 2
  MaxRequests = 3
  Async = TRUE
  OffLoop = FALSE
SPECIFICATION Spec
PROPERTIES HalfClosedIsReleased
CHECK_DEADLOCK FALSE
