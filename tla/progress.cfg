SPECIFICATION Spec
CONSTANTS
  MaxSteps = 3
  Totals = {2}
  MaxLag = 2
INVARIANTS FullOnlyWhenDone PhaseFollowsTheRun EndsOnAFinishedLine
PROPERTY BarsOnlyRise
CHECK_DEADLOCK FALSE
