SPECIFICATION FairSpec
CONSTANTS
  w1 = w1  w2 = w2  c1 = c1  c2 = c2  j1 = j1  j2 = j2  j3 = j3  none = none
  NoOne = none
  Workers <- OneWorker
  Clients <- TwoClients
  Jobs <- TwoJobs
  Ops <- LiveOps
  PipeCap = 2
  MaxSpurious = 0
  Usecs <- EarlyInSecond
  Millis <- HalfSecond
CHECK_DEADLOCK FALSE
PROPERTIES EveryJobDone WaitReturns
