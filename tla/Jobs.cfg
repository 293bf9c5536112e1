\* Map-reduce Jobs and graph Jobs, each on an instance of its own.
SPECIFICATION MCSpec
CONSTANTS
  Parts = {"mapreduce", "graph"}
  Partitions = {"p1", "p2"}
  Specs <- MCSpecs
  Patches <- MCPatches
  MaxGen = 2
  MRFaults = {"lost", "fail", "stop", "sweep"}
  MaxFaults = 1
  GraphPlans <- MCGraphPlans
  GraphProposals <- MCGraphProposals
  MaxGraphGen = 3
  MaxRevisions = 1
  MaxReads = 1
  MaxReceipts = 1
  MaxMoves <- MCMoves
INVARIANTS
  JobsTypeOK
  ManifestHolds
  FinishedIsSettled
  InputsNeverConflict
  GraphPassStands
  GraphJobSettled
  GraphConfluent
  ImportsStand
PROPERTY
  GraphEnds
CHECK_DEADLOCK FALSE
