-------------------------- MODULE MC_OrderPayment --------------------------
(***************************************************************************)
(* Instances of OrderPayment for TLC.                                      *)
(*   one order   one prepaid bKash order with two attempts; under          *)
(*               `liveness' it is a cart of its own and has a coupon.      *)
(*   carts       two carts, of which one is bought:                        *)
(*     redirect    one SSLCommerz order with three attempts, part paid by  *)
(*                 store credit.                                           *)
(*     promotions  two orders of two buyers that compete for one coupon    *)
(*                 use and one campaign unit from disjoint shelves, and a  *)
(*                 third order that spends from the same wallet as the     *)
(*                 first; one attempt each.                                *)
(***************************************************************************)
EXTENDS OrderPayment, TLC

CONSTANTS o1, o2, o3, o4, v1, v2, v3, alice, bob, carol

Single == {o1}
OneCart == {Single}
Shelf == {v1}
BobsOrder == (o1 :> bob)
ByBkash == (o1 :> "bkash")
OneUnit == (o1 :> (v1 :> 1))
OneTotal == (o1 :> 2)
NoSale == (o1 :> 0)
LastUnit == (v1 :> 1)
NoCredit == (bob :> 0)

Promoted == {o1, o2, o3}
Redirected == {o4}
TwoCarts == {Promoted, Redirected}
CartBuyer == (o1 :> alice) @@ (o2 :> alice) @@ (o3 :> bob) @@ (o4 :> carol)
CartMethod == (o1 :> "bkash") @@ (o2 :> "sslcommerz") @@ (o3 :> "cod") @@ (o4 :> "sslcommerz")
OneOf(v) == [w \in {v1, v2, v3} |-> IF w = v THEN 1 ELSE 0]
CartQty == (o1 :> OneOf(v1)) @@ (o2 :> OneOf(v2)) @@ (o3 :> OneOf(v2)) @@ (o4 :> OneOf(v3))
CartTotal == [o \in Promoted \cup Redirected |-> 2]
CartCredit == (alice :> 3) @@ (bob :> 0) @@ (carol :> 1)
CartStock == (v1 :> 1) @@ (v2 :> 2) @@ (v3 :> 1)
CartSale == (o1 :> 1) @@ (o2 :> 0) @@ (o3 :> 1) @@ (o4 :> 0)
=============================================================================
