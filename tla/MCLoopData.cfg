SPECIFICATION MCSpec
CONSTANTS
  Bytes = {0, 1}
  Zero = 0
  CheapPrepend = 2
  InitialSize = 3
  ExtraSize = 2
  MaxChunk = 3
  MaxReadable = 5
  MaxHeaderBytes = 13
  MaxBodyBytes = 23
  MaxFragment = 60
  Scripts <- MCScripts
  Timers = {1, 2, 3}
  Second = 2
  MinDelay = 1
  Delays = {0, 1, 2}
  Intervals = {0, 1}
  MaxClock = 4
  MaxRuns = 4
  Peers = {c1, c2, c3}
  IdleSeconds = 3
  MaxTurns = 7
INVARIANTS MemoryBounded  InputBounded TimersAgree RunWhenDue ShutForGood
PROPERTIES QueueSpec
CHECK_DEADLOCK FALSE
