SPECIFICATION FairSpec
CONSTANTS
  r1 = r1
  r2 = r2
  r3 = r3
  Ranks = {r1, r2, r3}
  Out = r3
  Steps = 2
  MaxConns = 2
  Faults = {"giveup", "run", "move", "signal"}
INVARIANTS AnswersAreTrue NeverStuck
PROPERTIES NoCrossedCollectives EveryRequestEnds OneSerialWorker
CHECK_DEADLOCK FALSE
