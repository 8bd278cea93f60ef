SPECIFICATION FairQueueSpec
CONSTANTS
  j1 = j1  j2 = j2  j3 = j3  w1 = w1  w2 = w2
  Jobs = {j1, j2}
  Workers = {w1, w2}
  BatchSize = 2
  MaxAttempts = 2
  MaxOutages = 2
INVARIANTS QueueTypeOK ClaimExclusive
PROPERTIES JobLifeKept FinishedOrStranded
CHECK_DEADLOCK FALSE
