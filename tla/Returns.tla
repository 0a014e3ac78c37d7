------------------------------ MODULE Returns ------------------------------
(***************************************************************************)
(* Returns and refunds of delivered sub-orders: apps/api/app/modules/      *)
(* returns of one tenant, with the ledger groups, credit notes and wallet  *)
(* entries a refund writes.                                                *)
(*                                                                         *)
(* No handler locks the return it works on.  Each is a transaction that    *)
(* reads the status (Open), and later writes (a Commit action), so that    *)
(* several may be open on one return: a cancellation that began before the *)
(* goods came may commit after their refund.  A refund has a step between: *)
(* its refunds row is inserted and the gateway is asked.                   *)
(*                                                                         *)
(* The QC deadline and its escalation flag decide nothing else and are     *)
(* left out.  A return is worth one unit of money.                         *)
(*                                                                         *)
(* Name_slip next to a definition Name is a plausible mistake in the code  *)
(* that Name models; a check of the project substitutes it for Name.       *)
(***************************************************************************)
EXTENDS Integers, FiniteSets, FiniteSetsExt

CONSTANTS
  Orders,       \* delivered orders
  SubOrders,    \* their shipments
  OrderOf,      \* [SubOrders -> Orders]
  Provider,     \* [Orders -> Providers], the provider of the order's capture
  Wish,         \* [SubOrders -> SUBSET Methods], where a buyer may want the refund
  AutoApproved, \* sub-orders whose return has a reason on the tenant's list
  Returns,      \* identifiers of return requests
  Workers,      \* transactions that may be open together
  MaxLost       \* bound: refund transactions lost after the gateway paid

Gateways == {"bkash", "sslcommerz"}
Providers == Gateways \cup {"cod", "store_credit"}
Methods == {"original", "store_credit", "bkash", "bank"}
Rails == Gateways \cup {"store_credit", "manual"}

ASSUME ReturnsAssumption ==
  /\ OrderOf \in [SubOrders -> Orders]
  /\ Provider \in [Orders -> Providers]
  /\ Wish \in [SubOrders -> SUBSET Methods]
  /\ AutoApproved \subseteq SubOrders
  /\ "none" \notin SubOrders
  /\ IsFiniteSet(Returns)
  /\ MaxLost \in Nat

\* TRANSITIONS.
Transitions_uninspected ==
  [requested |-> {"approved", "rejected"},
   approved |-> {"pickup_booked", "picked_up", "received"},
   pickup_booked |-> {"picked_up", "received"},
   picked_up |-> {"received"},
   received |-> {"qc_passed", "qc_failed", "refunded"},
   qc_passed |-> {"refunded"},
   qc_failed |-> {"returned_to_buyer"},
   rejected |-> {}, refunded |-> {}, returned_to_buyer |-> {}, cancelled |-> {}]
Transitions ==
  [requested |-> {"approved", "rejected", "cancelled"},
   approved |-> {"pickup_booked", "picked_up", "received", "cancelled"},
   pickup_booked |-> {"picked_up", "received", "cancelled"},
   picked_up |-> {"received"},
   received |-> {"qc_passed", "qc_failed"},
   qc_passed |-> {"refunded"},
   qc_failed |-> {"returned_to_buyer"},
   rejected |-> {}, refunded |-> {}, returned_to_buyer |-> {}, cancelled |-> {}]
Statuses == DOMAIN Transitions

\* The targets some route asks for: none sends the goods back to the buyer.  The
\* tenant's staff cancel a return by the same mark() that receives it.
Decisions == {"approved", "rejected"}
Marks == {"picked_up", "received", "cancelled"}
Verdicts == {"qc_passed", "qc_failed"}
Moves == Decisions \cup {"pickup_booked"} \cup Marks

VARIABLES
  status,     \* return_requests.status, "none" before the request commits
  of,         \* the sub-order of a return
  method,     \* return_requests.refund_method
  received,   \* returns that have ever been received
  inspected,  \* the QC verdicts a return has ever had
  txn,        \* the open transactions
  refund,     \* the live refunds row of a return: none, pending or completed
  wallet,     \* store_credit_entries granted for a return
  reversal,   \* return_reversal groups posted for a return
  handPaid,   \* refund groups posted for a refund finance paid by hand
  notes,      \* credit notes issued for a return
  restocks,   \* 'return' inventory movements of a return
  refunded,   \* payments.refunded_amount of the order's capture
  payStatus,  \* payments.status of the order's capture
  paidBack,   \* refunds the gateway executed for a return
  lost        \* refund transactions lost after the gateway executed them

requestVars == <<status, of, method, received, inspected>>
moneyVars == <<refund, wallet, reversal, handPaid, notes>>
paymentVars == <<refunded, payStatus>>
gatewayVars == <<paidBack, lost>>
vars == <<requestVars, txn, moneyVars, restocks, paymentVars, gatewayVars>>

\* A transaction: what it is about to write, the return, how far it is, and for
\* a refund the rail and the refunded_amount it read.
Idle == [target |-> "idle", ret |-> "none", inserted |-> FALSE,
         rail |-> "none", seen |-> 0]
Txns ==
  [target : Statuses \cup {"idle", "completed"}, ret : Returns \cup {"none"},
   inserted : BOOLEAN, rail : Rails \cup {"none"}, seen : Nat]

Captured(o) == Cardinality({s \in SubOrders : OrderOf[s] = o})
OrderOfReturn(r) == OrderOf[of[r]]

Init ==
  /\ status = [r \in Returns |-> "none"]
  /\ of = [r \in Returns |-> "none"]
  /\ method = [r \in Returns |-> "none"]
  /\ received = {}
  /\ inspected = [r \in Returns |-> {}]
  /\ txn = [w \in Workers |-> Idle]
  /\ refund = [r \in Returns |-> "none"]
  /\ wallet = [r \in Returns |-> 0]
  /\ reversal = [r \in Returns |-> 0]
  /\ handPaid = [r \in Returns |-> 0]
  /\ notes = [r \in Returns |-> 0]
  /\ restocks = [r \in Returns |-> 0]
  /\ refunded = [o \in Orders |-> 0]
  /\ payStatus = [o \in Orders |-> "paid"]
  /\ paidBack = [r \in Returns |-> 0]
  /\ lost = [r \in Returns |-> 0]

Begins(w, t) ==
  /\ txn[w] = Idle
  /\ txn' = [txn EXCEPT ![w] = t]
Ends(w) == txn' = [txn EXCEPT ![w] = Idle]

\* _set_status: an UPDATE by id alone.
SetStatus(r, to) ==
  /\ status' = [status EXCEPT ![r] = to]
  /\ received' = IF to = "received" THEN received \cup {r} ELSE received
  /\ inspected' = IF to \in Verdicts THEN [inspected EXCEPT ![r] = @ \cup {to}]
                                     ELSE inspected

-----------------------------------------------------------------------------
(* create_request *)

OpenReturns(s) ==
  {r \in Returns : of[r] = s
                   /\ status[r] \notin {"none", "rejected", "cancelled",
                                        "returned_to_buyer"}}

\* A cash order has no capture to give back, so the buyer names a target.
OpenRequest(w, r, s, m) ==
  /\ status[r] = "none"
  /\ \A v \in Workers : txn[v].ret # r
  /\ OpenReturns(s) = {}
  /\ m \in Wish[s]
  /\ Provider[OrderOf[s]] = "cod" => m # "original"
  /\ Begins(w, [Idle EXCEPT !.target = "requested", !.ret = r])
  /\ of' = [of EXCEPT ![r] = s]
  /\ method' = [method EXCEPT ![r] = m]
  /\ UNCHANGED <<status, received, inspected, moneyVars, restocks, paymentVars,
                 gatewayVars>>

\* A reason on the tenant's list is approved at once.
CommitRequest(w) ==
  /\ txn[w].target = "requested"
  /\ Ends(w)
  /\ SetStatus(txn[w].ret, IF of[txn[w].ret] \in AutoApproved THEN "approved"
                                                            ELSE "requested")
  /\ UNCHANGED <<of, method, moneyVars, restocks, paymentVars,
                 gatewayVars>>

-----------------------------------------------------------------------------
(* decide, book_reverse_pickup, mark (picked up, received, cancelled) and qc *)

\* load and _check.
Open(w, r, target) ==
  /\ status[r] # "none"
  /\ target \in Transitions[status[r]] \cap (Moves \cup Verdicts)
  /\ Begins(w, [Idle EXCEPT !.target = target, !.ret = r])
  /\ UNCHANGED <<requestVars, moneyVars, restocks, paymentVars, gatewayVars>>

\* What is written stands over whatever another transaction wrote since.
CommitMove(w) ==
  LET r == txn[w].ret IN
  /\ txn[w].target \in Moves
  /\ Ends(w)
  /\ SetStatus(r, txn[w].target)
  /\ UNCHANGED <<of, method, moneyVars, restocks, paymentVars,
                 gatewayVars>>

\* The result of the line says whether it goes back to the shelf; the verdict is
\* only its default, so that a line of a failed return may be restocked.
CommitQc(w) ==
  LET r == txn[w].ret IN
  /\ txn[w].target \in Verdicts
  /\ Ends(w)
  /\ \E result \in {"restock", "write_off", "reject"} :
       restocks' = [restocks EXCEPT ![r] = IF result = "restock" THEN @ + 1 ELSE @]
  /\ SetStatus(r, txn[w].target)
  /\ UNCHANGED <<of, method, moneyVars, paymentVars, gatewayVars>>

-----------------------------------------------------------------------------
(* refund *)

HasCapture(o) == payStatus[o] \in {"paid", "partially_refunded"}

\* Back the way it came, unless the buyer chose otherwise or the capture is gone.
Rail(o, m) ==
  LET provider == IF HasCapture(o) THEN Provider[o] ELSE "none"
      way == IF m = "original" THEN provider ELSE m
  IN CASE way = "store_credit" -> "store_credit"
       [] way \in Gateways /\ way = provider -> way
       [] OTHER -> "manual"

OpenRefund(w, r) ==
  LET o == OrderOfReturn(r) IN
  /\ status[r] # "none"
  /\ "refunded" \in Transitions[status[r]]
  /\ method[r] = "original" => HasCapture(o)
  /\ Begins(w, [target |-> "refunded", ret |-> r, inserted |-> FALSE,
                rail |-> Rail(o, method[r]), seen |-> refunded[o]])
  /\ UNCHANGED <<requestVars, moneyVars, restocks, paymentVars, gatewayVars>>

\* uq_refund_open_per_return; an insert waits for one that is not committed.
MayInsert_unindexed(r) == refund[r] # "completed"
MayInsert(r) ==
  /\ refund[r] = "none"
  /\ \A v \in Workers : txn[v].ret = r => ~txn[v].inserted

\* The refunds row is inserted, then a gateway is asked and accepts.
InsertRefund(w) ==
  LET r == txn[w].ret IN
  /\ txn[w].target = "refunded"
  /\ ~txn[w].inserted
  /\ MayInsert(r)
  /\ txn' = [txn EXCEPT ![w].inserted = TRUE]
  /\ paidBack' = IF txn[w].rail \in Gateways
                 THEN [paidBack EXCEPT ![r] = @ + 1] ELSE paidBack
  /\ UNCHANGED <<requestVars, moneyVars, restocks, paymentVars, lost>>

\* ledger.post writes the group of an event once; a return has one credit note.
Once_again(count, r) == [count EXCEPT ![r] = @ + 1]
Once(count, r) == IF count[r] = 0 THEN [count EXCEPT ![r] = 1] ELSE count

\* _record_payment_refund: computed from the amount that was read.
RecordRefund_all(o, seen) ==
  /\ refunded' = [refunded EXCEPT ![o] = Captured(o)]
  /\ payStatus' = [payStatus EXCEPT ![o] = "refunded"]
RecordRefund(o, seen) ==
  /\ refunded' = [refunded EXCEPT ![o] = seen + 1]
  /\ payStatus' = [payStatus EXCEPT ![o] =
       IF seen + 1 >= Captured(o) THEN "refunded" ELSE "partially_refunded"]

\* _complete_refund with what follows it on every rail.
Completes(r) ==
  /\ refund' = [refund EXCEPT ![r] = "completed"]
  /\ SetStatus(r, "refunded")
  /\ reversal' = Once(reversal, r)
  /\ notes' = Once(notes, r)

CommitRefund(w) ==
  LET r == txn[w].ret IN
  /\ txn[w].target = "refunded"
  /\ txn[w].inserted
  /\ txn[w].rail # "manual"
  /\ Ends(w)
  /\ Completes(r)
  /\ IF txn[w].rail = "store_credit"
     THEN /\ wallet' = [wallet EXCEPT ![r] = @ + 1]
          /\ UNCHANGED paymentVars
     ELSE /\ RecordRefund(OrderOfReturn(r), txn[w].seen)
          /\ UNCHANGED wallet
  /\ UNCHANGED <<of, method, handPaid, restocks, gatewayVars>>

\* A manual refund waits for finance.
CommitPending(w) ==
  /\ txn[w].target = "refunded"
  /\ txn[w].inserted
  /\ txn[w].rail = "manual"
  /\ Ends(w)
  /\ refund' = [refund EXCEPT ![txn[w].ret] = "pending"]
  /\ UNCHANGED <<requestVars, wallet, reversal, handPaid, notes, restocks,
                 paymentVars, gatewayVars>>

\* complete_manual_refund reads a pending refund, then writes unconditionally.
OpenComplete(w, r) ==
  /\ refund[r] = "pending"
  /\ Begins(w, [Idle EXCEPT !.target = "completed", !.ret = r])
  /\ UNCHANGED <<requestVars, moneyVars, restocks, paymentVars, gatewayVars>>

CommitComplete(w) ==
  LET r == txn[w].ret IN
  /\ txn[w].target = "completed"
  /\ Ends(w)
  /\ Completes(r)
  /\ handPaid' = Once(handPaid, r)
  /\ UNCHANGED <<of, method, wallet, restocks, paymentVars,
                 gatewayVars>>

\* The transaction ends without a trace: the handler raises, the courier or the
\* gateway refuses, the insert meets the index, or the connection is lost.  What
\* the gateway has executed stays executed.
Rollback(w) ==
  LET r == txn[w].ret
      executed == txn[w].inserted /\ txn[w].rail \in Gateways
  IN
  /\ txn[w] # Idle
  /\ executed => lost[r] < MaxLost
  /\ Ends(w)
  /\ lost' = IF executed THEN [lost EXCEPT ![r] = @ + 1] ELSE lost
  /\ UNCHANGED <<requestVars, moneyVars, restocks, paymentVars, paidBack>>

-----------------------------------------------------------------------------
WorkerStep(w) ==
  \/ \E r \in Returns :
       \/ \E s \in SubOrders, m \in Methods : OpenRequest(w, r, s, m)
       \/ \E target \in Moves \cup Verdicts : Open(w, r, target)
       \/ OpenRefund(w, r)
       \/ OpenComplete(w, r)
  \/ CommitRequest(w)
  \/ CommitMove(w)
  \/ CommitQc(w)
  \/ InsertRefund(w)
  \/ CommitRefund(w)
  \/ CommitPending(w)
  \/ CommitComplete(w)
  \/ Rollback(w)

Next == \E w \in Workers : WorkerStep(w)

Spec == Init /\ [][Next]_vars

-----------------------------------------------------------------------------
(* Properties *)

TypeOK ==
  /\ status \in [Returns -> Statuses \cup {"none"}]
  /\ of \in [Returns -> SubOrders \cup {"none"}]
  /\ method \in [Returns -> Methods \cup {"none"}]
  /\ received \subseteq Returns
  /\ inspected \in [Returns -> SUBSET Verdicts]
  /\ txn \in [Workers -> Txns]
  /\ refund \in [Returns -> {"none", "pending", "completed"}]
  /\ wallet \in [Returns -> Nat]
  /\ reversal \in [Returns -> Nat]
  /\ handPaid \in [Returns -> Nat]
  /\ notes \in [Returns -> Nat]
  /\ restocks \in [Returns -> Nat]
  /\ refunded \in [Orders -> Nat]
  /\ payStatus \in [Orders -> {"paid", "partially_refunded", "refunded"}]
  /\ paidBack \in [Returns -> Nat]
  /\ lost \in [Returns -> Nat]

\* Whichever requests cross, and if a cancellation is written over what they did,
\* no money moves and no refund is promised before the goods were received and
\* passed QC, and nothing is restocked before they were received and inspected.
\* (That a failed inspection never restocks, as the docstring of qc() has it, is
\* not so: the results sent with the verdict decide line by line.)
Inspected ==
  \A r \in Returns :
    /\ refund[r] # "none" \/ wallet[r] + paidBack[r] + reversal[r] > 0 =>
         r \in received /\ "qc_passed" \in inspected[r]
    /\ restocks[r] > 0 => r \in received /\ inspected[r] # {}

\* A refund is in the books when and only when it is completed, and stays there
\* when its return is cancelled meanwhile: one reversal group and one credit note,
\* and its money went to the wallet once, or was paid by hand once, or was executed
\* by the gateway; finance completing a refund twice changes nothing.
RefundBooked ==
  \A r \in Returns :
    LET done == refund[r] = "completed" IN
    /\ status[r] = "refunded" => done
    /\ reversal[r] = (IF done THEN 1 ELSE 0)
    /\ notes[r] = reversal[r]
    /\ wallet[r] + handPaid[r] <= 1
    /\ wallet[r] + handPaid[r] = 1 => done
    /\ done /\ wallet[r] + handPaid[r] = 0 => paidBack[r] > 0

\* Without lost commits a gateway refunds a return once, whoever clicks how often and
\* whoever cancels it.
GatewayOnce == \A r \in Returns : paidBack[r] <= lost[r] + 1

ReturnsOfOrder(o) == {r \in Returns : of[r] # "none" /\ OrderOfReturn(r) = o}
PaidBackTo(o) == SumFunctionOnSet(paidBack, ReturnsOfOrder(o))

\* The payment never claims more was given back than the gateway executed, even
\* though two refunds of one order overwrite each other's sum, and a cancelled return
\* leaves its sub-order to another.  It may claim less: a sum that is lost is not
\* caught here.
NeverOverstated == \A o \in Orders : refunded[o] <= PaidBackTo(o)

\* Refunds and returns stay well formed under unlocked writes (TypeOK), and
\* refunded_amount never overtakes what the gateway gave back (NeverOverstated).
ReturnBooks == TypeOK /\ NeverOverstated
=============================================================================
