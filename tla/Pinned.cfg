\* A Worker that dies between recording a completion and delivering it.
SPECIFICATION FairSpec
CONSTANTS
  t1 = t1
  t2 = t2
  w1 = w1
  w2 = w2
  None = None
  Tasks = {t1}
  Workers = {w1}
  Managed = {t1}
  ReplaySafe = {t1}
  Verified = {}
  Forking = {}
  MaxAttempts = 1
  MaxEpoch = 2
  Slots = 1
  ProjectLimit = 1
  Faults = {"crash"}
PROPERTIES
  CleanedUpIsReleased
CHECK_DEADLOCK FALSE
