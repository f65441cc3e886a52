SPECIFICATION Spec
CONSTANTS
  clerk1 = clerk1
  Steps = {1, 2, 3}
  Flows <- AllFlows
  Clerks = {clerk1}
  MaxPasses = 30
  MaxReturns = 1
  MaxCrashes <- CrashBound
  Answers <- NoAnswers
INVARIANTS TypeOK InOrder ClosedWhenDone ReviewsOpen ApprovedByRound
CHECK_DEADLOCK FALSE
