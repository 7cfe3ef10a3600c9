SPECIFICATION Spec
CONSTANTS
  m1 = m1
  m2 = m2
  k1 = k1
  k2 = k2
  a1 = a1
  Loaders = {m1, m2}
  Keys = {k1, k2}
  NoLoader = NoLoader
  NoKey = NoKey
  Exec = exec
  Api = {}
  MaxPid = 3
  MaxSession = 3
  Neighbour = FALSE
INVARIANTS OneWorkerPerLoader JobMeetsItsModel OrphansAreReclaimed
CHECK_DEADLOCK FALSE
