CONSTANTS
  t1 = t1
  t2 = t2
  f1 = f1
  f2 = f2
  f3 = f3
  c1 = c1
  Loop = Loop
  Threads <- MCThreads
  Functors <- MCFunctors
  Channels <- MCChannels
SPECIFICATION Spec
INVARIANTS NoLostWakeup HandoverInOrder
CHECK_DEADLOCK FALSE
PROPERTIES QuitStopsRunningLoop ExecutorSpec
