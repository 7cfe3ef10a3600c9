SPECIFICATION Spec
CONSTANTS
  m1 = m1
  m2 = m2
  k1 = k1
  k2 = k2
  a1 = a1
  Loaders = {m1}
  Keys = {k1, k2}
  NoLoader = NoLoader
  NoKey = NoKey
  Exec = exec
  Api = {a1}
  MaxPid = 3
  MaxSession = 1
  Neighbour = TRUE
SYMMETRY KeySymmetry
INVARIANTS UnloadFreesTheGpu ShutdownFreesTheGpus PendingOnlyWhileStarting WorkersAreAccountedFor
PROPERTY OnePool
CHECK_DEADLOCK FALSE
