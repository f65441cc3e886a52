SPECIFICATION Spec
CONSTANTS
  c1 = c1
  c2 = c2
  c3 = c3
  replicaA = replicaA
  replicaB = replicaB
  NoCall = NoCall
  NoReplica = NoReplica
  NoHash = NoHash
  Calls = {c1, c2}
  Replicas = {replicaA, replicaB}
  Offset <- SkewedClocks
  SecondTicks = 2
  DayTicks = 3
  YearTicks = 4
  MaxNow = 2
INVARIANTS ChainValid
CHECK_DEADLOCK FALSE
