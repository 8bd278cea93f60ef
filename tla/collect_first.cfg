SPECIFICATION DeskSpec
CONSTANTS
  o1 = o1  d1 = d1  p1 = p1  c1 = c1  t1 = t1
  noAnswer = noAnswer  damaged = damaged
  Orders = {o1}
  Drivers = {d1}
  Locations = {p1}
  PickupPoints = {p1}
  Requests = {c1}
  TaskSlots = {t1}
  PickupReasons = {noAnswer}
  OtherReasons = {damaged}
  Manager = Manager
  Finance = Finance
  None = None
  Amounts = {}
  Bills <- UnsaidPayerBills

INVARIANTS BlockedCashCanBeCollected
