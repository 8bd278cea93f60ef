SPECIFICATION BackOfficeSpec
CONSTANTS
  u1 = u1
  e1 = e1
  n1 = n1
  n2 = n2
  w1 = w1
  s1 = s1
  r1 = r1
  r2 = r2
  reg1 = reg1
  city = city
  k = k
  q1 = q1
  q2 = q2
  x1 = x1
  x2 = x2
  b1 = b1
  b2 = b2
  Ids = {u1}
  Emails = {e1}
  Passwords = {n1, n2}
  Warehouses = {w1}
  Sessions = {s1}
  Requests = {r1, r2}
  None = None
  MaxChanges = 1
  Regions = {reg1}
  Names = {city}
  Zones = {1}
  ByName <- MCByName
  RegionInputs <- MCRegionInputs
  Unset = Unset
  MaxSaves = 1
  Plans = {q1, q2}
  Editors = {x1, x2}
  Customers = {k}
  Services = {"std"}
  Weights = {1, 2, 3}
  PlanInputs <- MCPlanInputs
  MaxEdits = 3
  Legacy <- MCLegacy
  OrderInputs <- MCOrderInputs
  RuleInputs <- MCRuleInputs
  Backfills = {b1, b2}
  Limit = 1
  MaxOrders = 2
  MaxRules = 1
  MaxFailed = 1
INVARIANTS
  TypeOK
PROPERTIES
  AccessSettles
  AccessStays
  EditRestores
  BackfillReaches
CHECK_DEADLOCK FALSE
