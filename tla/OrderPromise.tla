---------------------------- MODULE OrderPromise ----------------------------
(***************************************************************************)
(* What checkout and payment promise, without attempts, sessions, locks or *)
(* reservations: an order takes its goods off the free stock in one step   *)
(* or not at all, waits for its money at most once, and then either keeps  *)
(* the goods for good or gives all of them back.  Money may come late, it  *)
(* then moves no goods.                                                    *)
(***************************************************************************)
EXTENDS Integers

CONSTANTS Orders, Variants, Qty

VARIABLES
  free,   \* units of a variant that nobody was promised
  state,  \* "none", "waiting", "promised" or "released"
  paid    \* orders paid in full

vars == <<free, state, paid>>

Init ==
  /\ free \in [Variants -> Nat]
  /\ state = [o \in Orders |-> "none"]
  /\ paid = {}

TakeGoods(o) ==
  /\ \A v \in Variants : free[v] >= Qty[o][v]
  /\ free' = [v \in Variants |-> free[v] - Qty[o][v]]

\* A prepaid order, to be paid within its window.
Reserve(o) ==
  /\ state[o] = "none"
  /\ TakeGoods(o)
  /\ state' = [state EXCEPT ![o] = "waiting"]
  /\ UNCHANGED paid

\* Cash on delivery, or covered by store credit: nothing to wait for.
Buy(o) ==
  /\ state[o] = "none"
  /\ TakeGoods(o)
  /\ state' = [state EXCEPT ![o] = "promised"]
  /\ paid' \in {paid, paid \cup {o}}

Pay(o) ==
  /\ state[o] = "waiting"
  /\ state' = [state EXCEPT ![o] = "promised"]
  /\ paid' = paid \cup {o}
  /\ UNCHANGED free

\* Cash at the door, or money that came after the goods were given back.
PayLater(o) ==
  /\ state[o] \in {"promised", "released"}
  /\ o \notin paid
  /\ paid' = paid \cup {o}
  /\ UNCHANGED <<free, state>>

Release(o) ==
  /\ state[o] = "waiting"
  /\ o \notin paid
  /\ state' = [state EXCEPT ![o] = "released"]
  /\ free' = [v \in Variants |-> free[v] + Qty[o][v]]
  /\ UNCHANGED paid

\* Staff correct the count of free units.
Recount(v) ==
  /\ free' \in [Variants -> Nat]
  /\ \A w \in Variants \ {v} : free'[w] = free[w]
  /\ UNCHANGED <<state, paid>>

Next ==
  \/ \E v \in Variants : Recount(v)
  \/ \E o \in Orders :
       Reserve(o) \/ Buy(o) \/ Pay(o) \/ PayLater(o) \/ Release(o)

Spec == Init /\ [][Next]_vars
=============================================================================
