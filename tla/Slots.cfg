\* Two Tasks on one Worker that restarts; the first is verified, forks and is retried.
SPECIFICATION Spec
CONSTANTS
  t1 = t1
  t2 = t2
  w1 = w1
  w2 = w2
  None = None
  Tasks = {t1, t2}
  Workers = {w1}
  Managed = {t1}
  ReplaySafe = {t1}
  Verified = {t1}
  Forking = {t1}
  MaxAttempts = 2
  MaxEpoch = 2
  Slots = 1
  ProjectLimit = 2
  Faults = {"crash"}
INVARIANTS
  SlotsHold
  RetryBounded
CHECK_DEADLOCK FALSE
