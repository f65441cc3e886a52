SPECIFICATION Spec
CONSTANTS
  r1 = r1
  r2 = r2
  r3 = r3
  h1 = h1
  h2 = h2
  emp = emp
  mgr = mgr
  hr1 = hr1
  hr2 = hr2
  NoOne = NoOne
  NoRequest = NoRequest
  Requests = {r1}
  Handlers = {h1, h2}
  Owner = emp
  Approvers = {mgr, hr1}
  HRs = {hr1}
  Manager = mgr
  Substitute <- MCSubstitute
  Days <- MCDays
  Overlaps <- MCOverlaps
  TwoLevels = {r1}
  AutoApproved = {}
  Limited = TRUE
  AnnualLimit = 3
  CarryCap = 1
  MaxBalance = 4
  EmployeeCanCancelApproved = TRUE
  Ops <- MCApproveOps
  EffectsFail = FALSE
  Serial = TRUE
  Crashes = FALSE
INVARIANTS ReservedAfterApproval
CHECK_DEADLOCK FALSE
