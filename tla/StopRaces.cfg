\* Cancellation, deadlines, leases and local failures against every step of one execution.
SPECIFICATION Spec
CONSTANTS
  t1 = t1
  t2 = t2
  w1 = w1
  w2 = w2
  None = None
  Tasks = {t1}
  Workers = {w1}
  Managed = {t1}
  ReplaySafe = {t1}
  Verified = {}
  Forking = {}
  MaxAttempts = 1
  MaxEpoch = 1
  Slots = 1
  ProjectLimit = 1
  Faults = {"cancel", "deadline", "lease", "stream", "answer", "local"}
INVARIANTS
  AckedMeansJournalled
  SuccessIsEarned
  AcceptedOnlyOnSuccess
PROPERTIES
  NoSpawnAfterTombstone
  StopSticks
