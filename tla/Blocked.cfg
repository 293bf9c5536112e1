\* A lost answer, a retry, and the journal row that is refused from then on.
SPECIFICATION FairSpec
CONSTANTS
  t1 = t1
  t2 = t2
  w1 = w1
  w2 = w2
  None = None
  Tasks = {t1}
  Workers = {w1}
  Managed = {t1}
  ReplaySafe = {t1}
  Verified = {}
  Forking = {}
  MaxAttempts = 2
  MaxEpoch = 1
  Slots = 1
  ProjectLimit = 1
  Faults = {"answer"}
PROPERTIES
  CleanedUpIsReleased
CHECK_DEADLOCK FALSE
