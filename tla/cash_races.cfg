SPECIFICATION CashSpec
CONSTANTS
  o1 = o1  d1 = d1  d2 = d2  l1 = l1  l2 = l2  r1 = r1  r2 = r2
  Orders = {o1}
  Drivers = {d1, d2}
  Locations = {l1, l2}
  Requests = {r1, r2}
  Manager = Manager
  Finance = Finance
  None = None
  Amounts = {1}
  Bills <- RacingBills
SYMMETRY Symmetry
INVARIANTS PaidAgreesWithCash LedgerNamesHolder OnlyOwedCashTaken
PROPERTIES DueNeverReturns
