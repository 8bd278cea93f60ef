SPECIFICATION LiveMapSpec
CONSTANTS
  p1 = p1
  p2 = p2
  c1 = c1
  c2 = c2
  e1 = e1
  e2 = e2
  h1 = h1
  h2 = h2
  Procs = {p1, p2}
  Watchers = {c1, c2}
  At <- MCAt
  Events = {e1, e2}
  Wants <- MCWants
  MaxBatch = 2
  MaxFaults = 2
  Processes = {p1, p2}
  Calls = {h1, h2}
  Home <- MCHome
  MaxChanges = 1
  MaxSilent = 1
INVARIANTS
  TypeOK
  NoGap
  OwedAhead
PROPERTIES
  OwedIsSent
  PresenceSettles
CHECK_DEADLOCK FALSE
