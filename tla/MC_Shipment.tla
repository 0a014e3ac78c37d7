---------------------------- MODULE MC_Shipment ----------------------------
(***************************************************************************)
(* Instances of Shipment for TLC.                                          *)
(*   two parcels   a COD order of two vendors and two consignments, so     *)
(*                 both may be booked for one sub-order or one for each.   *)
(*   one parcel    a single COD parcel.                                    *)
(***************************************************************************)
EXTENDS Shipment, TLC

CONSTANTS o1, s1, s2, k1, k2

TwoVendors == (s1 :> o1) @@ (s2 :> o1)
\* Consignments and the sub-orders of one order are interchangeable.
Symmetry == Permutations({k1, k2}) \cup Permutations({s1, s2})
OneVendor == (s1 :> o1)
=============================================================================
