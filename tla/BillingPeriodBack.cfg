SPECIFICATION Spec
CONSTANTS
  a1 = a1
  Admins = {a1}
  Ops = {"trial", "subscribe", "cancel", "pay", "fail", "void", "fiscal"}
  Amounts = {1, 2}
  Total = 2
  Period = 4
  TrialDays = 2
  Lead = 1
  DueDays = 1
  Grace = 2
  MaxSubs = 2
  MaxInvoices = 2
  MaxDay = 2
  Serial = TRUE
  Failures = FALSE
PROPERTIES PeriodOnlyAdvances
CHECK_DEADLOCK FALSE
