\* Worker and Server restarts, broken streams, automatic and manual retry.
SPECIFICATION Spec
CONSTANTS
  t1 = t1
  t2 = t2
  w1 = w1
  w2 = w2
  None = None
  Tasks = {t1}
  Workers = {w1, w2}
  Managed = {t1}
  ReplaySafe = {t1}
  Verified = {}
  Forking = {}
  MaxAttempts = 2
  MaxEpoch = 2
  Slots = 1
  ProjectLimit = 1
  Faults = {"crash", "stream"}
SYMMETRY WorkerSymmetry
INVARIANTS
  IndInv
  OneLiveExecution
  ReleasedMeansStopped
PROPERTIES
  ImplementsLifecycle
