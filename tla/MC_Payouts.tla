---------------------------- MODULE MC_Payouts -----------------------------
(***************************************************************************)
(* An instance of Payouts for TLC: two vendors with one sub-order each,    *)
(* one paid before delivery and one on delivery, two periods and two       *)
(* people in finance.                                                      *)
(***************************************************************************)
EXTENDS Payouts, TLC

CONSTANTS v1, v2, s1, s2, p1, p2, f1, f2

OneEach == (s1 :> v1) @@ (s2 :> v2)
One == (s1 :> 1) @@ (s2 :> 1)
Symmetry == Permutations({p1, p2}) \cup Permutations({f1, f2})
=============================================================================
