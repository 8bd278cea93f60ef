SPECIFICATION ReadSideSpec
CONSTANTS
  p1 = p1
  p2 = p2
  r1 = r1
  r2 = r2
  w1 = w1
  w2 = w2
  created = created
  handedOff = handedOff
  Procs = {p1, p2}
  Redis = Redis
  Reads = {r1, r2}
  Home <- MCHome
  MaxVersion = 1
  Workers = {w1, w2}
  Events = {created, handedOff}
  Type <- MCType
  NoWorker = NoWorker
  Former = Former
  MaxLog = 3
  MaxBatch = 2
  MaxFaults = 1
  Days = 1
INVARIANTS
  TypeOK
  OneHolder
  Accounted
PROPERTIES
  EventuallyCurrent
  EventRebuilt
  ChangesAreNamed
CHECK_DEADLOCK FALSE
