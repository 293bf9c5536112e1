-------------------------------- MODULE Sums --------------------------------
(***************************************************************************)
(* The sum of a function into the natural numbers, as the number of units  *)
(* it stands for: x contributes <<x, 1>> ... <<x, f[x]>>.  Written without *)
(* recursion, so that what a sum is can be proved from what the            *)
(* cardinality of a finite set is.                                         *)
(***************************************************************************)
EXTENDS Naturals, FiniteSets

Units(f) == UNION {{x} \X (1 .. f[x]) : x \in DOMAIN f}

\* The total of the usage rows read in turn (checkedUsageAdd, addNonNegative).
Total(f) == Cardinality(Units(f))
=============================================================================
