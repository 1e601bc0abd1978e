SPECIFICATION Spec
CONSTANTS
  n1 = n1  n2 = n2  o1 = o1  o2 = o2  w1 = w1  w2 = w2  NULL = NULL
  Names <- TwoNames
  Objs <- TwoObjs
  Workers <- TwoWorkers
  Ops <- AllOps
  Confs <- AnySetup
  MaxEvents = 1
CHECK_DEADLOCK FALSE
INVARIANTS TypeOK OneBlockPerName OneFirstLoad GoodIsKeptWhenDone NoLostDone
SYMMETRY Alike
