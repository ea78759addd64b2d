SPECIFICATION Spec
CONSTANTS
  t1 = t1
  t2 = t2
  t3 = t3
  t4 = t4
  owner = owner
  Callers <- Trajectories
  Owner <- owner
  Turns = 2
  MaxBatch = 2
  QueueFactor = 1
  NetworkRetries = 1
INVARIANTS
  AnswersMatch
  EveryCallIsHeld
PROPERTIES
  EveryCallReturns
CHECK_DEADLOCK FALSE
