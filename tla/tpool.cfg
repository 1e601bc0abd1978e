SPECIFICATION Spec
CONSTANTS
  w1 = w1  w2 = w2  c1 = c1  c2 = c2  j1 = j1  j2 = j2  j3 = j3  none = none
  NoOne = none
  Workers <- TwoWorkers
  Clients <- TwoClients
  Jobs <- ThreeJobs
  Ops <- AllOps
  PipeCap = 2
  MaxSpurious = 1
  Usecs <- AnyInSecond
  Millis <- HalfSecond
CHECK_DEADLOCK FALSE
INVARIANTS
  TypeOK Accounting Exclusive NoLostWakeup WaiterNotStranded
  DestroyAlone StoppedClean
PROPERTIES WaitSound WaitAnySound ImplementsJobPool
SYMMETRY Symmetric
