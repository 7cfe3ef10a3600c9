SPECIFICATION Spec
CONSTANTS
  m1 = m1
  Loaders = {m1}
  NoLoader = NoLoader
  MaxSamples = 2
  MaxQueue = 2
PROPERTY SurvivesUntilLastSample
CHECK_DEADLOCK FALSE
