CONSTANTS
  w1 = w1
  w2 = w2
  r1 = r1
  r2 = r2
  r3 = r3
  noModel = noModel
  noBackend = noBackend
  Workers <- MCWorkers
  Tasks <- MCTasks
  Route <- MCRoute
  QueueCapacity = 2
SPECIFICATION Spec
INVARIANTS MonitorInv NoIdleWorker
PROPERTIES AcceptedCompletes StopReturns PoolSpec
CHECK_DEADLOCK FALSE
