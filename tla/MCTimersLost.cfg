SPECIFICATION TimerSpec
CONSTANTS
  Timers = {1}
  Second = 3
  MinDelay = 1
  Delays = {3}
  Intervals = {0, 3}
  MaxClock = 12
  MaxRuns = 2
PROPERTIES DueTimerRuns
CHECK_DEADLOCK FALSE
