\* Progress of one submitted Task under cancellation, deadlines, leases and broken streams.
SPECIFICATION ProgressSpec
CONSTANTS
  t1 = t1
  t2 = t2
  w1 = w1
  w2 = w2
  None = None
  Tasks = {t1}
  Workers = {w1}
  Managed = {}
  ReplaySafe = {}
  Verified = {}
  Forking = {}
  MaxAttempts = 1
  MaxEpoch = 1
  Slots = 1
  ProjectLimit = 1
  Faults = {"cancel", "deadline", "lease", "stream"}
PROPERTIES
  Settles
  CutOffWorkerStops
CHECK_DEADLOCK FALSE
