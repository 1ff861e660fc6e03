CONSTANTS
  NumThreads = 2
  Conns = {c1, c2}
SPECIFICATION Spec
INVARIANTS DestroyedOnce
PROPERTIES HandedToLiveLoop AcceptedIsEstablished SignalEndsRunningProgram
CHECK_DEADLOCK FALSE
