----------------------------- MODULE MCControl -----------------------------
(***************************************************************************)
(* Instances of ControlOperations for TLC.  Operation ids and clients are   *)
(* interchangeable: no definition tells one from another.                  *)
(***************************************************************************)
EXTENDS ControlOperations, TLC

CONSTANTS o1, o2, c1, c2

Sym == Permutations(Ops) \cup Permutations(Clients)
=============================================================================
