---------------------------- MODULE MC_Returns -----------------------------
(***************************************************************************)
(* An instance of Returns for TLC: one order of two shipments, two returns *)
(* (of one shipment or of each) and two transactions open together.        *)
(***************************************************************************)
EXTENDS Returns, TLC

CONSTANTS o1, s1, s2, r1, r2, w1, w2

OneOrder == (s1 :> o1) @@ (s2 :> o1)
ByBkash == o1 :> "bkash"
EachRail == (s1 :> {"original", "bank"}) @@ (s2 :> {"store_credit"})
Symmetry == Permutations({r1, r2}) \cup Permutations({w1, w2})
=============================================================================
