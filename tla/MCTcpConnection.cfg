CONSTANTS
  ReplyLen = 2
  MaxSends = 3
  MaxRequests = 4
  Async = TRUE
  OffLoop = TRUE
SPECIFICATION Spec
INVARIANTS PollerAgrees StreamInOrder DestroyedForGood
CHECK_DEADLOCK FALSE
PROPERTIES ReadingIsReleased ShutdownCompletes
