\* A Worker that dies while its verifier runs.
SPECIFICATION Spec
CONSTANTS
  t1 = t1
  t2 = t2
  w1 = w1
  w2 = w2
  None = None
  Tasks = {t1}
  Workers = {w1}
  Managed = {t1}
  ReplaySafe = {t1}
  Verified = {t1}
  Forking = {}
  MaxAttempts = 1
  MaxEpoch = 2
  Slots = 1
  ProjectLimit = 1
  Faults = {"crash"}
INVARIANTS
  NothingLeftBehind
CHECK_DEADLOCK FALSE
