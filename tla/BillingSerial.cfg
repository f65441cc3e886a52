SPECIFICATION Spec
CONSTANTS
  a1 = a1
  Admins = {a1}
  Ops = {"trial", "subscribe", "cancel", "pay", "void", "fiscal"}
  Amounts = {1}
  Total = 2
  Period = 1
  TrialDays = 1
  Lead = 1
  DueDays = 1
  Grace = 2
  MaxSubs = 1
  MaxInvoices = 3
  MaxDay = 4
  Serial = TRUE
  Failures = FALSE
INVARIANTS PaidPeriod PaymentsSettle
PROPERTIES ExpiredForCause NoFreeRide DebtEndsService
CHECK_DEADLOCK FALSE
