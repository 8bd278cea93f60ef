SPECIFICATION FairQueueSpec
CONSTANTS
  j1 = j1  j2 = j2  j3 = j3  w1 = w1  w2 = w2
  Jobs = {j1, j2, j3}
  Workers = {w1}
  BatchSize = 1
  MaxAttempts = 1
  MaxOutages = 0
PROPERTIES EveryJobTried
CHECK_DEADLOCK FALSE
