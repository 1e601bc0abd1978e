SPECIFICATION FairSpec
CONSTANTS
  w1 = w1  w2 = w2  c1 = c1  c2 = c2  j1 = j1  j2 = j2  j3 = j3  none = none
  NoOne = none
  Workers <- TwoWorkers
  Clients <- OneClient
  Jobs <- TwoJobs
  Ops <- ReleaseOps
  PipeCap = 3
  MaxSpurious = 0
  Usecs <- EarlyInSecond
  Millis <- HalfSecond
CHECK_DEADLOCK FALSE
PROPERTIES DestroyReturns
