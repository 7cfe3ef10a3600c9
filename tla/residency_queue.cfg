SPECIFICATION Spec
CONSTANTS
  m1 = m1
  Loaders = {m1}
  NoLoader = NoLoader
  MaxSamples = 2
  MaxQueue = 2
INVARIANTS ReleasedWhenDone StatsHaveAWorker
PROPERTY SolePromptKeepsItsWorker
CHECK_DEADLOCK FALSE
