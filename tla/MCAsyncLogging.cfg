CONSTANTS
  BufferSize = 2
  RollSize = 3
  CheckEveryN = 2
  FlushInterval = 0
  Period = 2
  MaxRecords = 6
  MaxIdle = 1
  MaxClock = 2
  SmallBuffer = 4000
  MaxNumericSize = 48
  Messages <- MCMessages
  Tellers = {t1, t2}
  MaxTold = 2
SPECIFICATION MCSpec
INVARIANTS NothingLost BuffersComeBack KeptAtStop RecordWhole
PROPERTIES EveryRecordWritten
CHECK_DEADLOCK FALSE
