SPECIFICATION Spec
CONSTANTS
  t1 = t1  t2 = t2  t3 = t3  r1 = r1  r2 = r2  w1 = w1  NULL = NULL
  Tasks <- ThreeTasks
  Resources <- TwoResources
  Workers <- OneWorker
  MaxReloads = 6
CHECK_DEADLOCK FALSE
INVARIANTS TaskInOneJob
