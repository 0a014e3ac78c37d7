------------------------------ MODULE MC_Carts ------------------------------
(***************************************************************************)
(* One of the carts of MC_OrderPayment is bought; nobody touches the       *)
(* orders and the shelves of the others, which share no order, shelf,      *)
(* wallet or buyer with it.                                                *)
(***************************************************************************)
EXTENDS MC_OrderPayment

CONSTANT Carts  \* a set of sets of orders

VARIABLE cart
cartVars == <<cart, vars>>

CartsInit == Init /\ cart \in Carts

CartsNext ==
  /\ UNCHANGED cart
  /\ \/ \E o \in cart : OrderStep(o)
     \/ \E v \in Variants : (\E o \in cart : Qty[o][v] > 0) /\ AdjustStock(v)

\* Bounds of the run `carts': a promoted order is tried once, and a recount never finds
\* more on a shelf than it held at the start.
TriedOnce == \A o \in Promoted : pay[o][1] # "none" => o \notin starting'
CartBounds == TriedOnce /\ \A v \in Variants : onHand'[v] <= Stock0[v]

CartsSpec == CartsInit /\ [][CartsNext /\ CartBounds]_cartVars

\* Fairness speaks of orders that have been quoted, so only of those of the cart.
FairCartsSpec == CartsInit /\ [][CartsNext]_cartVars /\ Fairness
=============================================================================
