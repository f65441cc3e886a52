SPECIFICATION Spec
CONSTANTS
  e1 = e1
  e2 = e2
  clerk1 = clerk1
  payer1 = payer1
  Employees = {e1, e2}
  NoNib = {e2}
  Nets = {1, 2}
  Clerks = {clerk1}
  Payers = {payer1}
  MaxPayments = 2
  Chunk = 1
  EditsInRun = TRUE
  Failures = FALSE
PROPERTIES ApprovedRunFrozen
CHECK_DEADLOCK FALSE
