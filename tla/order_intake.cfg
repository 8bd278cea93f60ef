SPECIFICATION FairIntakeSpec
CONSTANTS
  c1 = c1  c2 = c2  d1 = d1  d2 = d2
  Calls = {c1, c2}
  Priced = {c1}
  Copies = {d1, d2}
  MaxRows = 2
  MaxFaults = 1
INVARIANTS IntakeTypeOK NumbersFresh AnsweredWhole LeftoverIsPrefix PaidForReal AcknowledgedSettled
PROPERTIES PaymentProcessed
CHECK_DEADLOCK FALSE
