SPECIFICATION FairSpec
CONSTANTS
  c1 = c1
  c2 = c2
  c3 = c3
  replicaA = replicaA
  replicaB = replicaB
  NoCall = NoCall
  NoReplica = NoReplica
  NoHash = NoHash
  Calls = {c1, c2, c3}
  Replicas = {replicaA}
  Offset <- SameClock
  SecondTicks = 2
  DayTicks = 3
  YearTicks = 3
  MaxNow = 3
INVARIANTS TypeOK NumbersGapFree ChainValid
PROPERTIES BookKept IssueEnds
CHECK_DEADLOCK FALSE
