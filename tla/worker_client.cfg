SPECIFICATION FairSpec
CONSTANTS
  r1 = r1
  r2 = r2
  Ranks = {r1, r2}
  Out = r2
  Steps = 2
  MaxConns = 6
  MaxCancels = 2
  Faults = {"signal", "run", "move"}
INVARIANTS NoStaleInterrupt NoRunLeftBehind ParkedMeansFreed DenoisedOnTheGpu WaitsCanEnd
PROPERTY NodesEnd
CHECK_DEADLOCK FALSE
