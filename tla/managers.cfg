SPECIFICATION MgrsSpec
CONSTANTS
  m1 = m1  m2 = m2  m3 = m3  NoMgr = NoMgr
  Mgrs <- ThreeMgrs
  MaxInits = 4
  MaxLoads = 3
SYMMETRY Symmetry
CHECK_DEADLOCK FALSE
INVARIANTS PoolRuns LastStopsPool GoneHasNoJobs SleeperWakes
