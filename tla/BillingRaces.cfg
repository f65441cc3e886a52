SPECIFICATION Spec
CONSTANTS
  a1 = a1
  Admins = {a1}
  Ops = {"trial", "subscribe", "cancel", "pay", "fail", "void"}
  Amounts = {1}
  Total = 2
  Period = 2
  TrialDays = 1
  Lead = 1
  DueDays = 1
  Grace = 1
  MaxSubs = 1
  MaxInvoices = 3
  MaxDay = 2
  Serial = FALSE
  Failures = TRUE
INVARIANTS TypeOK PaidCoversTotal RenewedOnce
PROPERTIES ReopenedByPayment
CHECK_DEADLOCK FALSE
