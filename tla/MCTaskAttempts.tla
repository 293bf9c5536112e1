--------------------------- MODULE MCTaskAttempts ---------------------------
(* Instances of TaskAttempts for TLC: Tasks and Workers are model values.   *)
EXTENDS TaskAttempts, TLC

CONSTANTS t1, t2, w1, w2

\* Workers are interchangeable: no action or property names one.
WorkerSymmetry == Permutations(Workers)
=============================================================================
