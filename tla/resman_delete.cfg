SPECIFICATION Spec
CONSTANTS
  n1 = n1  n2 = n2  o1 = o1  o2 = o2  w1 = w1  w2 = w2  NULL = NULL
  Names <- OneName
  Objs <- OneObj
  Workers <- OneWorker
  Ops <- Removing
  Confs <- PollingAll
  MaxEvents = 0
CHECK_DEADLOCK FALSE
INVARIANTS DeletedIsOffTheWorkers
