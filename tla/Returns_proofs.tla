--------------------------- MODULE Returns_proofs ---------------------------
(***************************************************************************)
(* Theorems about Returns for every number of returns, orders and open     *)
(* transactions.                                                           *)
(***************************************************************************)
EXTENDS Returns, Sums_proofs, TLAPS

-----------------------------------------------------------------------------
(* The inductive invariant *)

\* What a transaction t that was opened earlier may still rely on at its commit,
\* although no lock protects what it read.
StillHolds(t) ==
  LET r == t.ret IN
  /\ t.target # "idle" => r \in Returns /\ of[r] \in SubOrders
  /\ t.target \in Verdicts => r \in received
  /\ t.target = "refunded" => /\ r \in received /\ "qc_passed" \in inspected[r]
                              /\ t.rail \in Rails
  /\ t.target = "completed" => /\ refund[r] # "none"
                               /\ refund[r] = "completed" => handPaid[r] = 1
  /\ t.inserted => t.target = "refunded" /\ refund[r] = "none"
  /\ t.inserted /\ t.rail \in Gateways => paidBack[r] = lost[r] + 1

\* The index lets one transaction at a time have an uncommitted refunds row.
OneInsert ==
  \A v, w \in Workers :
    v # w /\ txn[v].inserted /\ txn[w].inserted => txn[v].ret # txn[w].ret

\* No gateway refund of the return is waiting for its commit.
NoneOpen(r) ==
  \A w \in Workers :
    txn[w].inserted /\ txn[w].ret = r => txn[w].rail \notin Gateways

\* A status remembers what the return has been through, and without a refund the
\* gateway has executed only what was lost.
HistoryOf(r) ==
  /\ status[r] # "none" \/ refund[r] # "none" => of[r] \in SubOrders
  /\ status[r] \in {"received", "qc_passed", "qc_failed"} => r \in received
  /\ status[r] = "qc_passed" => "qc_passed" \in inspected[r]
  /\ refund[r] = "none" /\ NoneOpen(r) => paidBack[r] = lost[r]

ReturnsInv ==
  /\ TypeOK
  /\ \A w \in Workers : StillHolds(txn[w])
  /\ OneInsert
  /\ \A r \in Returns : HistoryOf(r)
  /\ Inspected
  /\ RefundBooked
  /\ GatewayOnce

-----------------------------------------------------------------------------
(* Types *)

LEMMA TableFacts ==
  /\ Statuses = {"requested", "approved", "pickup_booked", "picked_up", "received",
                 "qc_passed", "qc_failed", "rejected", "refunded",
                 "returned_to_buyer", "cancelled"}
  /\ \A from \in Statuses :
       /\ "refunded" \in Transitions[from] => from = "qc_passed"
       /\ Transitions[from] \cap Verdicts # {} => from = "received"
  /\ "idle" \notin Statuses /\ "none" \notin Statuses /\ "completed" \notin Statuses
  BY DEF Statuses, Transitions, Verdicts

LEMMA TxnTypes ==
  /\ Idle \in Txns
  /\ \A t \in Txns : /\ t.target \in Statuses \cup {"idle", "completed"}
                     /\ t.ret \in Returns \cup {"none"}
                     /\ t.inserted \in BOOLEAN
                     /\ t.rail \in Rails \cup {"none"}
                     /\ t.seen \in Nat
  BY DEF Idle, Txns

LEMMA RailType == \A o \in Orders, m \in Methods \cup {"none"} : Rail(o, m) \in Rails
  BY DEF Rail, Rails, Gateways

LEMMA InitHolds == Init => ReturnsInv
<1> SUFFICES ASSUME Init
             PROVE  ReturnsInv
  OBVIOUS
<1>1. TypeOK
  BY TxnTypes DEF Init, TypeOK
<1>2. \A w \in Workers : txn[w] = Idle
  BY DEF Init
<1>3. \A w \in Workers : StillHolds(txn[w])
  BY <1>2 DEF Idle, StillHolds, Verdicts
<1>4. OneInsert
  BY <1>2 DEF Idle, OneInsert
<1>5. \A r \in Returns : HistoryOf(r)
  BY DEF Init, HistoryOf
<1>6. Inspected /\ GatewayOnce /\ RefundBooked
  BY DEF Init, Inspected, GatewayOnce, RefundBooked
<1> QED
  BY <1>1, <1>3, <1>4, <1>5, <1>6 DEF ReturnsInv

-----------------------------------------------------------------------------
(* Transactions open and end *)

\* A transaction that has not written changes nothing for the others.
LEMMA OpenKeeps ==
  ASSUME ReturnsInv, NEW w \in Workers,
         txn[w] = Idle,
         txn' \in [Workers -> Txns],
         \A v \in Workers \ {w} : txn'[v] = txn[v],
         ~txn'[w].inserted,
         StillHolds(txn[w])',
         of' \in [Returns -> SubOrders \cup {"none"}],
         \A r \in Returns : of[r] \in SubOrders => of'[r] \in SubOrders,
         method' \in [Returns -> Methods \cup {"none"}],
         UNCHANGED <<status, received, inspected, moneyVars, restocks, paymentVars,
                     gatewayVars>>
  PROVE  ReturnsInv'
<1> USE DEF moneyVars, paymentVars, gatewayVars
<1>1. TypeOK'
  BY DEF ReturnsInv, TypeOK
<1>2. \A v \in Workers : StillHolds(txn[v])'
  BY DEF ReturnsInv, StillHolds
<1>3. OneInsert'
  BY DEF ReturnsInv, OneInsert
<1>4. ~txn[w].inserted
  BY DEF Idle
<1>5. \A r \in Returns : NoneOpen(r)' => NoneOpen(r)
  BY <1>4 DEF NoneOpen
<1>6. \A r \in Returns : HistoryOf(r)'
  BY <1>5 DEF ReturnsInv, HistoryOf
<1>7. Inspected' /\ RefundBooked' /\ GatewayOnce'
  BY DEF ReturnsInv, Inspected, RefundBooked, GatewayOnce
<1> QED
  BY <1>1, <1>2, <1>3, <1>6, <1>7 DEF ReturnsInv

LEMMA OpenRequestKeeps ==
  ASSUME ReturnsInv, NEW w \in Workers, NEW r \in Returns, NEW s \in SubOrders,
         NEW m \in Methods, OpenRequest(w, r, s, m)
  PROVE  ReturnsInv'
<1> DEFINE t == [Idle EXCEPT !.target = "requested", !.ret = r]
<1>1. /\ txn[w] = Idle /\ txn' = [txn EXCEPT ![w] = t]
      /\ of' = [of EXCEPT ![r] = s] /\ method' = [method EXCEPT ![r] = m]
  BY DEF OpenRequest, Begins
<1>2. /\ t \in Txns /\ ~t.inserted /\ t.target = "requested" /\ t.ret = r
  BY TableFacts DEF Idle, Txns
<1>3. /\ txn' \in [Workers -> Txns] /\ txn'[w] = t
      /\ \A v \in Workers \ {w} : txn'[v] = txn[v]
      /\ of' \in [Returns -> SubOrders \cup {"none"}] /\ of'[r] = s
      /\ \A q \in Returns : of[q] \in SubOrders => of'[q] \in SubOrders
      /\ method' \in [Returns -> Methods \cup {"none"}]
  <2> HIDE DEF t
  <2> QED
    BY <1>1, <1>2 DEF ReturnsInv, TypeOK
<1>4. StillHolds(txn[w])'
  <2> HIDE DEF t
  <2> QED
    BY <1>2, <1>3 DEF StillHolds, Verdicts
<1>5. ~txn'[w].inserted
  BY <1>2, <1>3
<1>6. UNCHANGED <<status, received, inspected, moneyVars, restocks, paymentVars,
                  gatewayVars>>
  BY DEF OpenRequest
<1> QED
  BY <1>1, <1>3, <1>4, <1>5, <1>6, OpenKeeps

LEMMA OpenMoveKeeps ==
  ASSUME ReturnsInv, NEW w \in Workers, NEW r \in Returns,
         NEW target \in Moves \cup Verdicts, Open(w, r, target)
  PROVE  ReturnsInv'
<1> DEFINE t == [Idle EXCEPT !.target = target, !.ret = r]
<1>1. /\ txn[w] = Idle /\ txn' = [txn EXCEPT ![w] = t]
      /\ status[r] \in Statuses /\ target \in Transitions[status[r]]
  BY DEF Open, Begins, ReturnsInv, TypeOK
<1>2. target \in Statuses
  BY TableFacts DEF Moves, Decisions, Marks, Verdicts
<1>3. /\ t \in Txns /\ ~t.inserted /\ t.target = target /\ t.ret = r
  BY <1>2 DEF Idle, Txns
<1>4. /\ target \in Verdicts => r \in received
      /\ of[r] \in SubOrders /\ target \notin {"refunded", "completed"}
  BY <1>1, TableFacts DEF ReturnsInv, HistoryOf, Moves, Decisions, Marks, Verdicts
<1>5. UNCHANGED <<requestVars, moneyVars, restocks, paymentVars, gatewayVars>>
  BY DEF Open
<1>6. /\ txn' \in [Workers -> Txns] /\ txn'[w] = t
      /\ \A v \in Workers \ {w} : txn'[v] = txn[v]
  <2> HIDE DEF t
  <2> QED
    BY <1>1, <1>3 DEF ReturnsInv, TypeOK
<1>7. StillHolds(txn[w])' /\ ~txn'[w].inserted
  <2> HIDE DEF t
  <2> QED
    BY <1>3, <1>4, <1>5, <1>6 DEF StillHolds, requestVars
<1> QED
  BY <1>1, <1>5, <1>6, <1>7, OpenKeeps DEF requestVars, ReturnsInv, TypeOK

LEMMA OpenRefundKeeps ==
  ASSUME ReturnsInv, NEW w \in Workers, NEW r \in Returns, OpenRefund(w, r)
  PROVE  ReturnsInv'
<1> DEFINE rail == Rail(OrderOfReturn(r), method[r])
<1> DEFINE t == [target |-> "refunded", ret |-> r, inserted |-> FALSE,
                 rail |-> rail, seen |-> refunded[OrderOfReturn(r)]]
<1>1. /\ txn[w] = Idle /\ txn' = [txn EXCEPT ![w] = t]
      /\ status[r] = "qc_passed"
  BY TableFacts DEF OpenRefund, Begins, ReturnsInv, TypeOK
<1>2. r \in received /\ "qc_passed" \in inspected[r] /\ of[r] \in SubOrders
  <2>1. status[r] # "none" /\ refund[r] \in {"none", "pending", "completed"}
    BY <1>1 DEF ReturnsInv, TypeOK
  <2> QED
    BY <1>1, <2>1 DEF ReturnsInv, HistoryOf
<1>3. OrderOfReturn(r) \in Orders
  BY <1>2, ReturnsAssumption DEF ReturnsAssumption, OrderOfReturn
<1>4. rail \in Rails /\ refunded[OrderOfReturn(r)] \in Nat
  BY <1>3, RailType DEF ReturnsInv, TypeOK
<1>5. /\ t \in Txns /\ ~t.inserted /\ t.target = "refunded" /\ t.ret = r
      /\ t.rail \in Rails
  <2> HIDE DEF rail
  <2> QED
    BY <1>4, TableFacts DEF Txns
<1>6. UNCHANGED <<requestVars, moneyVars, restocks, paymentVars, gatewayVars>>
  BY DEF OpenRefund
<1>7. /\ txn' \in [Workers -> Txns] /\ txn'[w] = t
      /\ \A v \in Workers \ {w} : txn'[v] = txn[v]
  <2> HIDE DEF t
  <2> QED
    BY <1>1, <1>5 DEF ReturnsInv, TypeOK
<1>8. StillHolds(txn[w])' /\ ~txn'[w].inserted
  <2> HIDE DEF t
  <2> QED
    BY <1>2, <1>5, <1>6, <1>7 DEF StillHolds, requestVars, Verdicts
<1> QED
  BY <1>1, <1>6, <1>7, <1>8, OpenKeeps DEF requestVars, ReturnsInv, TypeOK

LEMMA OpenCompleteKeeps ==
  ASSUME ReturnsInv, NEW w \in Workers, NEW r \in Returns, OpenComplete(w, r)
  PROVE  ReturnsInv'
<1> DEFINE t == [Idle EXCEPT !.target = "completed", !.ret = r]
<1>1. /\ txn[w] = Idle /\ txn' = [txn EXCEPT ![w] = t] /\ refund[r] = "pending"
  BY DEF OpenComplete, Begins
<1>2. r \in received /\ of[r] \in SubOrders
  BY <1>1 DEF ReturnsInv, Inspected, HistoryOf
<1>3. /\ t \in Txns /\ ~t.inserted /\ t.target = "completed" /\ t.ret = r
  BY DEF Idle, Txns
<1>4. UNCHANGED <<requestVars, moneyVars, restocks, paymentVars, gatewayVars>>
  BY DEF OpenComplete
<1>5. /\ txn' \in [Workers -> Txns] /\ txn'[w] = t
      /\ \A v \in Workers \ {w} : txn'[v] = txn[v]
  <2> HIDE DEF t
  <2> QED
    BY <1>1, <1>3 DEF ReturnsInv, TypeOK
<1>6. StillHolds(txn[w])' /\ ~txn'[w].inserted
  <2> HIDE DEF t
  <2> QED
    BY <1>1, <1>2, <1>3, <1>4, <1>5 DEF StillHolds, requestVars, moneyVars, Verdicts
<1> QED
  BY <1>1, <1>4, <1>5, <1>6, OpenKeeps DEF requestVars, ReturnsInv, TypeOK

\* A transaction that ends leaves an idle worker.
LEMMA EndFacts ==
  ASSUME ReturnsInv, NEW w \in Workers, Ends(w)
  PROVE  /\ txn' \in [Workers -> Txns]
         /\ txn'[w] = Idle
         /\ \A v \in Workers \ {w} : txn'[v] = txn[v]
         /\ OneInsert'
         /\ StillHolds(txn[w])'
         /\ \A r \in Returns :
              /\ NoneOpen(r) => NoneOpen(r)'
              /\ txn[w].ret # r \/ ~txn[w].inserted => (NoneOpen(r)' => NoneOpen(r))
<1>1. /\ txn' \in [Workers -> Txns] /\ txn'[w] = Idle
      /\ \A v \in Workers \ {w} : txn'[v] = txn[v]
  BY TxnTypes DEF Ends, ReturnsInv, TypeOK
<1>2. ~Idle.inserted /\ Idle.target = "idle"
  BY DEF Idle
<1>3. OneInsert'
  BY <1>1, <1>2 DEF ReturnsInv, OneInsert
<1>4. StillHolds(txn[w])'
  BY <1>1, <1>2 DEF StillHolds, Verdicts
<1> QED
  BY <1>1, <1>2, <1>3, <1>4 DEF NoneOpen

-----------------------------------------------------------------------------
(* Requests, moves and inspections *)

\* Any write of a status that is not a refund: what the others rely on only grows.
LEMMA StatusWriteKeeps ==
  ASSUME ReturnsInv, NEW w \in Workers, Ends(w), ~txn[w].inserted,
         NEW r \in Returns, of[r] \in SubOrders,
         NEW to \in Statuses \ {"refunded"}, SetStatus(r, to),
         to \in Verdicts => r \in received,
         restocks' \in [Returns -> Nat],
         \A q \in Returns :
           restocks'[q] # restocks[q] => q = r /\ to \in Verdicts,
         UNCHANGED <<of, method, moneyVars, paymentVars, gatewayVars>>
  PROVE  ReturnsInv'
<1> USE DEF moneyVars, paymentVars, gatewayVars
<1>1. /\ status' = [status EXCEPT ![r] = to]
      /\ received' = IF to = "received" THEN received \cup {r} ELSE received
      /\ inspected' = IF to \in Verdicts THEN [inspected EXCEPT ![r] = @ \cup {to}]
                                         ELSE inspected
  BY DEF SetStatus
<1>2. TypeOK'
  BY <1>1, EndFacts DEF ReturnsInv, TypeOK
<1>3. /\ received \subseteq received'
      /\ \A q \in Returns : inspected[q] \subseteq inspected'[q]
      /\ to = "received" => r \in received'
      /\ to \in Verdicts => to \in inspected'[r]
  BY <1>1 DEF ReturnsInv, TypeOK
<1>4. /\ status'[r] = to
      /\ \A q \in Returns \ {r} : status'[q] = status[q]
  BY <1>1 DEF ReturnsInv, TypeOK
<1>5. \A v \in Workers : StillHolds(txn[v])'
  BY <1>3, EndFacts DEF ReturnsInv, StillHolds
<1>6. \A q \in Returns : HistoryOf(q)'
  BY <1>3, <1>4, EndFacts DEF ReturnsInv, HistoryOf, Verdicts
<1>7. Inspected'
  BY <1>3 DEF ReturnsInv, Inspected
<1>8. RefundBooked' /\ GatewayOnce'
  BY <1>4 DEF ReturnsInv, RefundBooked, GatewayOnce
<1> QED
  BY <1>2, <1>5, <1>6, <1>7, <1>8, EndFacts DEF ReturnsInv

LEMMA MovesKeep ==
  ASSUME ReturnsInv, NEW w \in Workers,
         CommitRequest(w) \/ CommitMove(w) \/ CommitQc(w)
  PROVE  ReturnsInv'
<1> DEFINE r == txn[w].ret
<1>1. txn[w].target \in {"requested"} \cup Moves \cup Verdicts
  BY DEF CommitRequest, CommitMove, CommitQc
<1>2. /\ r \in Returns /\ of[r] \in SubOrders /\ ~txn[w].inserted
      /\ txn[w].target \in Verdicts => r \in received
  BY <1>1 DEF ReturnsInv, StillHolds, Moves, Decisions, Marks, Verdicts
<1>3. CASE CommitRequest(w)
  <2>1. PICK to \in {"approved", "requested"} : SetStatus(r, to)
    BY <1>3 DEF CommitRequest
  <2>2. to \in Statuses \ {"refunded"} /\ to \notin Verdicts
    BY TableFacts DEF Verdicts
  <2>3. /\ Ends(w)
        /\ UNCHANGED <<of, method, moneyVars, paymentVars, gatewayVars>>
    BY <1>3 DEF CommitRequest
  <2>4. /\ restocks' \in [Returns -> Nat]
        /\ \A q \in Returns : restocks'[q] = restocks[q]
    BY <1>3 DEF CommitRequest, ReturnsInv, TypeOK
  <2> HIDE DEF r
  <2> QED
    BY <1>2, <2>1, <2>2, <2>3, <2>4, StatusWriteKeeps
<1>4. CASE CommitMove(w)
  <2>1. txn[w].target \in Statuses \ {"refunded"} /\ txn[w].target \notin Verdicts
    BY <1>4, TableFacts DEF CommitMove, Moves, Decisions, Marks, Verdicts
  <2>2. /\ Ends(w) /\ SetStatus(r, txn[w].target)
        /\ UNCHANGED <<of, method, moneyVars, paymentVars, gatewayVars>>
    BY <1>4 DEF CommitMove
  <2>3. /\ restocks' \in [Returns -> Nat]
        /\ \A q \in Returns : restocks'[q] = restocks[q]
    BY <1>4 DEF CommitMove, ReturnsInv, TypeOK
  <2> HIDE DEF r
  <2> QED
    BY <1>2, <2>1, <2>2, <2>3, StatusWriteKeeps
<1>5. CASE CommitQc(w)
  <2>1. txn[w].target \in (Statuses \ {"refunded"}) \cap Verdicts
    BY <1>5, TableFacts DEF CommitQc, Verdicts
  <2>2. /\ restocks' \in [Returns -> Nat]
        /\ \A q \in Returns \ {r} : restocks'[q] = restocks[q]
    BY <1>2, <1>5 DEF CommitQc, ReturnsInv, TypeOK
  <2>3. /\ Ends(w) /\ SetStatus(r, txn[w].target)
        /\ UNCHANGED <<of, method, moneyVars, paymentVars, gatewayVars>>
    BY <1>5 DEF CommitQc
  <2> HIDE DEF r
  <2> QED
    BY <1>2, <2>1, <2>2, <2>3, StatusWriteKeeps
<1> QED
  BY <1>3, <1>4, <1>5

-----------------------------------------------------------------------------
(* Refunds *)

\* The row is inserted only where no other transaction has one.
LEMMA InsertRefundKeeps ==
  ASSUME ReturnsInv, NEW w \in Workers, InsertRefund(w)
  PROVE  ReturnsInv'
<1>0. txn[w].target = "refunded" /\ ~txn[w].inserted
  BY DEF InsertRefund
<1>1. PICK r \in Returns : /\ r = txn[w].ret
                          /\ of[r] \in SubOrders /\ r \in received
                          /\ "qc_passed" \in inspected[r]
                          /\ txn[w].rail \in Rails
  BY <1>0 DEF ReturnsInv, StillHolds
<1>2. /\ refund[r] = "none"
      /\ \A v \in Workers : txn[v].ret = r => ~txn[v].inserted
  BY <1>1 DEF InsertRefund, MayInsert
<1>3. /\ NoneOpen(r)
      /\ paidBack[r] = lost[r]
  BY <1>1, <1>2 DEF NoneOpen, ReturnsInv, HistoryOf
<1>4. /\ txn' = [txn EXCEPT ![w].inserted = TRUE]
      /\ paidBack' = IF txn[w].rail \in Gateways
                     THEN [paidBack EXCEPT ![r] = @ + 1] ELSE paidBack
      /\ UNCHANGED <<status, of, method, received, inspected, refund, wallet,
                     reversal, handPaid, notes, restocks, refunded, payStatus, lost>>
  BY <1>1 DEF InsertRefund, requestVars, moneyVars, paymentVars
<1>5. /\ txn' \in [Workers -> Txns]
      /\ \A v \in Workers \ {w} : txn'[v] = txn[v]
      /\ txn'[w].ret = r /\ txn'[w].rail = txn[w].rail
      /\ txn'[w].target = "refunded" /\ txn'[w].inserted
  <2>1. txn \in [Workers -> Txns]
    BY DEF ReturnsInv, TypeOK
  <2>2. [txn[w] EXCEPT !.inserted = TRUE] \in Txns
    BY <2>1 DEF Txns
  <2>3. txn' = [txn EXCEPT ![w] = [txn[w] EXCEPT !.inserted = TRUE]]
    BY <1>4, <2>1
  <2>4. txn'[w] = [txn[w] EXCEPT !.inserted = TRUE]
    BY <2>1, <2>3
  <2> QED
    BY <1>0, <1>1, <2>1, <2>2, <2>3, <2>4 DEF Txns
<1>6. /\ paidBack' \in [Returns -> Nat]
      /\ \A q \in Returns \ {r} : paidBack'[q] = paidBack[q]
      /\ paidBack'[r] = IF txn[w].rail \in Gateways THEN lost[r] + 1 ELSE lost[r]
  BY <1>1, <1>3, <1>4 DEF ReturnsInv, TypeOK
<1>7. TypeOK'
  BY <1>4, <1>5, <1>6 DEF ReturnsInv, TypeOK
<1>8. \A v \in Workers : StillHolds(txn[v])'
  <2>1. ASSUME NEW v \in Workers \ {w}
        PROVE  StillHolds(txn[v])'
    BY <1>1, <1>2, <1>4, <1>5, <1>6 DEF ReturnsInv, StillHolds
  <2>2. StillHolds(txn[w])'
    BY <1>1, <1>2, <1>4, <1>5, <1>6 DEF StillHolds, Verdicts
  <2> QED
    BY <2>1, <2>2
<1>9. OneInsert'
  BY <1>1, <1>2, <1>5 DEF ReturnsInv, OneInsert
<1>10. \A q \in Returns : HistoryOf(q)'
  <2>1. \A q \in Returns \ {r} : NoneOpen(q)' => NoneOpen(q)
    BY <1>1, <1>5 DEF NoneOpen
  <2>2. NoneOpen(r)' => txn[w].rail \notin Gateways
    BY <1>5 DEF NoneOpen
  <2> QED
    BY <1>1, <1>3, <1>4, <1>6, <2>1, <2>2 DEF ReturnsInv, HistoryOf
<1>11. Inspected' /\ RefundBooked' /\ GatewayOnce'
  <2>1. \A q \in Returns : lost[q] \in Nat /\ paidBack[q] \in Nat
    BY DEF ReturnsInv, TypeOK
  <2>2. Inspected'
    BY <1>1, <1>4, <1>6 DEF ReturnsInv, Inspected
  <2>3. RefundBooked'
    BY <1>1, <1>2, <1>4, <1>6 DEF ReturnsInv, RefundBooked
  <2>4. GatewayOnce'
    BY <1>1, <1>4, <1>6, <2>1 DEF ReturnsInv, GatewayOnce
  <2> QED
    BY <2>2, <2>3, <2>4
<1> QED
  BY <1>7, <1>8, <1>9, <1>10, <1>11 DEF ReturnsInv

\* A refund that is waiting for its commit: what it knows of its return.
LEMMA InsertedFacts ==
  ASSUME ReturnsInv, NEW w \in Workers, txn[w].inserted
  PROVE  LET r == txn[w].ret IN
         /\ r \in Returns /\ of[r] \in SubOrders
         /\ r \in received /\ "qc_passed" \in inspected[r]
         /\ refund[r] = "none" /\ status[r] # "refunded"
         /\ reversal[r] = 0 /\ notes[r] = 0 /\ wallet[r] = 0 /\ handPaid[r] = 0
         /\ txn[w].rail \in Gateways => paidBack[r] = lost[r] + 1
         /\ txn[w].rail \notin Gateways => paidBack[r] = lost[r]
         /\ \A v \in Workers \ {w} :
              txn[v].ret = r => ~txn[v].inserted /\ txn[v].target # "completed"
<1> DEFINE r == txn[w].ret
<1>1. /\ r \in Returns /\ of[r] \in SubOrders /\ r \in received
      /\ "qc_passed" \in inspected[r] /\ refund[r] = "none"
      /\ txn[w].rail \in Gateways => paidBack[r] = lost[r] + 1
  BY DEF ReturnsInv, StillHolds
<1>2. /\ status[r] # "refunded" /\ reversal[r] = 0 /\ notes[r] = 0
      /\ wallet[r] = 0 /\ handPaid[r] = 0
  <2>1. wallet[r] \in Nat /\ handPaid[r] \in Nat
    BY <1>1 DEF ReturnsInv, TypeOK
  <2>2. /\ status[r] # "refunded" /\ reversal[r] = 0 /\ notes[r] = 0
        /\ wallet[r] + handPaid[r] <= 1 /\ wallet[r] + handPaid[r] # 1
    BY <1>1 DEF ReturnsInv, RefundBooked
  <2> QED
    BY <2>1, <2>2
<1>3. \A v \in Workers \ {w} : txn[v].ret = r => ~txn[v].inserted
  BY DEF ReturnsInv, OneInsert
<1>4. \A v \in Workers \ {w} : txn[v].ret = r => txn[v].target # "completed"
  BY <1>1 DEF ReturnsInv, StillHolds
<1>5. txn[w].rail \notin Gateways => NoneOpen(r)
  BY <1>3 DEF NoneOpen
<1> QED
  BY <1>1, <1>2, <1>3, <1>4, <1>5 DEF ReturnsInv, HistoryOf

\* _complete_refund on any rail: every book of the return moves together.
LEMMA CompletesKeeps ==
  ASSUME ReturnsInv, NEW w \in Workers, Ends(w),
         NEW r \in Returns, of[r] \in SubOrders, Completes(r),
         r \in received, "qc_passed" \in inspected[r],
         wallet' \in [Returns -> Nat], handPaid' \in [Returns -> Nat],
         \A q \in Returns \ {r} : wallet'[q] = wallet[q] /\ handPaid'[q] = handPaid[q],
         wallet'[r] + handPaid'[r] <= 1,
         wallet'[r] + handPaid'[r] = 0 => paidBack[r] > 0,
         \A v \in Workers \ {w} :
           txn[v].ret = r =>
             ~txn[v].inserted /\ (txn[v].target = "completed" => handPaid'[r] = 1),
         refunded' \in [Orders -> Nat],
         payStatus' \in [Orders -> {"paid", "partially_refunded", "refunded"}],
         txn[w].ret = r \/ ~txn[w].inserted,
         UNCHANGED <<of, method, restocks, gatewayVars>>
  PROVE  ReturnsInv'
<1>1. /\ refund' = [refund EXCEPT ![r] = "completed"]
      /\ status' = [status EXCEPT ![r] = "refunded"]
      /\ received' = received /\ inspected' = inspected
      /\ UNCHANGED <<of, method, restocks, paidBack, lost>>
  BY DEF Completes, SetStatus, Verdicts, gatewayVars
<1>2. /\ reversal' \in [Returns -> Nat] /\ notes' \in [Returns -> Nat]
      /\ reversal'[r] = 1 /\ notes'[r] = 1
      /\ \A q \in Returns \ {r} : reversal'[q] = reversal[q] /\ notes'[q] = notes[q]
  <2>1. /\ reversal \in [Returns -> Nat] /\ notes \in [Returns -> Nat]
        /\ reversal[r] \in {0, 1} /\ notes[r] = reversal[r]
    BY DEF ReturnsInv, TypeOK, RefundBooked
  <2> QED
    BY <2>1 DEF Completes, Once
<1>3. /\ refund'[r] = "completed" /\ status'[r] = "refunded"
      /\ \A q \in Returns \ {r} : refund'[q] = refund[q] /\ status'[q] = status[q]
  BY <1>1 DEF ReturnsInv, TypeOK
<1>4. TypeOK'
  BY <1>1, <1>2, EndFacts, TableFacts DEF ReturnsInv, TypeOK
<1>5. \A v \in Workers : StillHolds(txn[v])'
  <2>1. ASSUME NEW v \in Workers \ {w}
        PROVE  StillHolds(txn[v])'
    <3>1. txn'[v] = txn[v] /\ StillHolds(txn[v])
      BY EndFacts DEF ReturnsInv
    <3>2. CASE txn[v].ret = r
      BY <1>1, <1>3, <3>1, <3>2 DEF StillHolds
    <3>3. CASE txn[v].ret # r
      BY <1>1, <1>3, <3>1, <3>3 DEF StillHolds
    <3> QED
      BY <3>2, <3>3
  <2> QED
    BY <2>1, EndFacts
<1>6. \A q \in Returns : HistoryOf(q)'
  <2>1. \A q \in Returns \ {r} : NoneOpen(q)' => NoneOpen(q)
    BY EndFacts
  <2> QED
    BY <1>1, <1>3, <2>1 DEF ReturnsInv, HistoryOf
<1>7. Inspected'
  BY <1>1, <1>2, <1>3 DEF ReturnsInv, Inspected
<1>8. RefundBooked'
  <2>1. ASSUME NEW q \in Returns \ {r}
        PROVE  /\ refund'[q] = refund[q] /\ status'[q] = status[q]
               /\ reversal'[q] = reversal[q] /\ notes'[q] = notes[q]
               /\ wallet'[q] = wallet[q] /\ handPaid'[q] = handPaid[q]
               /\ paidBack'[q] = paidBack[q]
    BY <1>1, <1>2, <1>3
  <2>2. wallet'[r] \in Nat /\ handPaid'[r] \in Nat /\ paidBack'[r] = paidBack[r]
    BY <1>1
  <2> QED
    BY <1>2, <1>3, <2>1, <2>2 DEF ReturnsInv, RefundBooked
<1>9. GatewayOnce'
  BY <1>1 DEF ReturnsInv, GatewayOnce
<1> QED
  BY <1>4, <1>5, <1>6, <1>7, <1>8, <1>9, EndFacts DEF ReturnsInv

LEMMA CommitRefundKeeps ==
  ASSUME ReturnsInv, NEW w \in Workers, CommitRefund(w)
  PROVE  ReturnsInv'
<1>1. PICK r \in Returns : r = txn[w].ret
  BY InsertedFacts DEF CommitRefund
<1>2. /\ of[r] \in SubOrders /\ r \in received /\ "qc_passed" \in inspected[r]
      /\ wallet[r] = 0 /\ handPaid[r] = 0
      /\ txn[w].rail \in Gateways => paidBack[r] = lost[r] + 1
      /\ \A v \in Workers \ {w} :
           txn[v].ret = r => ~txn[v].inserted /\ txn[v].target # "completed"
  BY <1>1, InsertedFacts DEF CommitRefund
<1>3. /\ Ends(w) /\ Completes(r)
      /\ UNCHANGED <<of, method, handPaid, restocks, gatewayVars>>
  BY <1>1 DEF CommitRefund
<1>4. /\ handPaid \in [Returns -> Nat] /\ wallet \in [Returns -> Nat]
      /\ paidBack[r] \in Nat /\ lost[r] \in Nat
      /\ refunded \in [Orders -> Nat]
      /\ payStatus \in [Orders -> {"paid", "partially_refunded", "refunded"}]
  BY DEF ReturnsInv, TypeOK
<1>5. CASE txn[w].rail = "store_credit"
  <2>1. wallet' = [wallet EXCEPT ![r] = @ + 1] /\ UNCHANGED paymentVars
    BY <1>1, <1>5 DEF CommitRefund
  <2>2. /\ wallet' \in [Returns -> Nat] /\ wallet'[r] = 1
        /\ \A q \in Returns \ {r} : wallet'[q] = wallet[q]
    BY <1>2, <1>4, <2>1
  <2> QED
    BY <1>1, <1>2, <1>3, <1>4, <2>1, <2>2, CompletesKeeps DEF paymentVars
<1>6. CASE txn[w].rail # "store_credit"
  <2>1. /\ wallet' = wallet
        /\ RecordRefund(OrderOfReturn(r), txn[w].seen)
    BY <1>1, <1>6 DEF CommitRefund
  <2>2. txn[w].seen \in Nat /\ txn[w].rail \in Gateways
    <3>1. txn[w] \in Txns
      BY DEF ReturnsInv, TypeOK
    <3>2. txn[w].rail \in Rails
      BY DEF CommitRefund, ReturnsInv, StillHolds
    <3> QED
      BY <1>6, <3>1, <3>2, TxnTypes DEF CommitRefund, Rails
  <2>3. /\ refunded' \in [Orders -> Nat]
        /\ payStatus' \in [Orders -> {"paid", "partially_refunded", "refunded"}]
    <3>1. refunded' \in [Orders -> Nat]
      <4>1. refunded' = [refunded EXCEPT ![OrderOfReturn(r)] = txn[w].seen + 1]
        BY <2>1, Zenon DEF RecordRefund
      <4>2. txn[w].seen + 1 \in Nat
        BY <2>2
      <4> QED
        BY <1>4, <4>1, <4>2
    <3>2. \/ payStatus' = [payStatus EXCEPT ![OrderOfReturn(r)] = "refunded"]
          \/ payStatus' = [payStatus EXCEPT ![OrderOfReturn(r)] = "partially_refunded"]
      BY <2>1, Zenon DEF RecordRefund
    <3>3. payStatus' \in [Orders -> {"paid", "partially_refunded", "refunded"}]
      BY <1>4, <3>2
    <3> QED
      BY <3>1, <3>3
  <2>4. paidBack[r] > 0
    BY <1>2, <1>4, <2>2
  <2> QED
    BY <1>1, <1>2, <1>3, <1>4, <2>1, <2>3, <2>4, CompletesKeeps
<1> QED
  BY <1>5, <1>6

\* A manual refund is promised to finance; nothing has moved.
LEMMA CommitPendingKeeps ==
  ASSUME ReturnsInv, NEW w \in Workers, CommitPending(w)
  PROVE  ReturnsInv'
<1>1. PICK r \in Returns : r = txn[w].ret
  BY InsertedFacts DEF CommitPending
<1>2. /\ of[r] \in SubOrders /\ r \in received /\ "qc_passed" \in inspected[r]
      /\ refund[r] = "none" /\ wallet[r] = 0 /\ handPaid[r] = 0 /\ reversal[r] = 0
      /\ status[r] # "refunded"
      /\ \A v \in Workers \ {w} :
           txn[v].ret = r => ~txn[v].inserted /\ txn[v].target # "completed"
  BY <1>1, InsertedFacts DEF CommitPending
<1>3. /\ Ends(w)
      /\ refund' = [refund EXCEPT ![r] = "pending"]
      /\ UNCHANGED <<status, of, method, received, inspected, wallet, reversal,
                     handPaid, notes, restocks, refunded, payStatus, paidBack, lost>>
  BY <1>1 DEF CommitPending, requestVars, paymentVars, gatewayVars
<1>4. /\ refund'[r] = "pending"
      /\ \A q \in Returns \ {r} : refund'[q] = refund[q]
  BY <1>3 DEF ReturnsInv, TypeOK
<1>5. TypeOK'
  BY <1>3, EndFacts DEF ReturnsInv, TypeOK
<1>6. \A v \in Workers : StillHolds(txn[v])'
  <2>1. ASSUME NEW v \in Workers \ {w}
        PROVE  StillHolds(txn[v])'
    <3>1. txn'[v] = txn[v] /\ StillHolds(txn[v])
      BY <1>3, EndFacts DEF ReturnsInv
    <3>2. CASE txn[v].ret = r
      BY <1>2, <1>3, <3>1, <3>2 DEF StillHolds
    <3>3. CASE txn[v].ret # r
      BY <1>3, <1>4, <3>1, <3>3 DEF StillHolds
    <3> QED
      BY <3>2, <3>3
  <2> QED
    BY <1>3, <2>1, EndFacts
<1>7. \A q \in Returns : HistoryOf(q)'
  <2>1. \A q \in Returns \ {r} : NoneOpen(q)' => NoneOpen(q)
    BY <1>1, <1>3, EndFacts
  <2> QED
    BY <1>2, <1>3, <1>4, <2>1 DEF ReturnsInv, HistoryOf
<1>8. Inspected'
  BY <1>2, <1>3, <1>4 DEF ReturnsInv, Inspected
<1>9. RefundBooked' /\ GatewayOnce'
  BY <1>2, <1>3, <1>4 DEF ReturnsInv, RefundBooked, GatewayOnce
<1> QED
  BY <1>3, <1>5, <1>6, <1>7, <1>8, <1>9, EndFacts DEF ReturnsInv

\* Finance completes: the first completion pays by hand, the others find it paid.
LEMMA CommitCompleteKeeps ==
  ASSUME ReturnsInv, NEW w \in Workers, CommitComplete(w)
  PROVE  ReturnsInv'
<1>1. PICK r \in Returns :
        /\ r = txn[w].ret /\ of[r] \in SubOrders
        /\ refund[r] # "none"
        /\ refund[r] = "completed" => handPaid[r] = 1
  BY DEF CommitComplete, ReturnsInv, StillHolds
<1>2. /\ Ends(w) /\ Completes(r)
      /\ handPaid' = Once(handPaid, r)
      /\ UNCHANGED <<of, method, wallet, restocks, refunded, payStatus, gatewayVars>>
  BY <1>1 DEF CommitComplete, paymentVars
<1>3. r \in received /\ "qc_passed" \in inspected[r]
  BY <1>1 DEF ReturnsInv, Inspected
<1>4. /\ handPaid \in [Returns -> Nat] /\ wallet \in [Returns -> Nat]
      /\ refunded \in [Orders -> Nat]
      /\ payStatus \in [Orders -> {"paid", "partially_refunded", "refunded"}]
  BY DEF ReturnsInv, TypeOK
<1>5. /\ wallet[r] + handPaid[r] <= 1
      /\ refund[r] # "completed" => wallet[r] + handPaid[r] # 1
  BY DEF ReturnsInv, RefundBooked
<1>6. wallet[r] = 0 /\ handPaid[r] \in {0, 1}
  BY <1>1, <1>4, <1>5
<1>7. /\ handPaid' \in [Returns -> Nat] /\ handPaid'[r] = 1
      /\ \A q \in Returns \ {r} : handPaid'[q] = handPaid[q]
  BY <1>2, <1>4, <1>6 DEF Once
<1>8. \A v \in Workers : txn[v].ret = r => ~txn[v].inserted
  BY <1>1 DEF ReturnsInv, StillHolds
<1> QED
  BY <1>1, <1>2, <1>3, <1>4, <1>6, <1>7, <1>8, CompletesKeeps

\* What a lost transaction leaves behind is what the gateway executed for it.
LEMMA RollbackKeeps ==
  ASSUME ReturnsInv, NEW w \in Workers, Rollback(w)
  PROVE  ReturnsInv'
<1>1. /\ Ends(w)
      /\ lost' = IF txn[w].inserted /\ txn[w].rail \in Gateways
                 THEN [lost EXCEPT ![txn[w].ret] = @ + 1] ELSE lost
      /\ UNCHANGED <<status, of, method, received, inspected, refund, wallet,
                     reversal, handPaid, notes, restocks, refunded, payStatus,
                     paidBack>>
  BY DEF Rollback, requestVars, moneyVars, paymentVars
<1>2. CASE ~(txn[w].inserted /\ txn[w].rail \in Gateways)
  <2>1. lost' = lost
    BY <1>1, <1>2
  <2>2. TypeOK'
    BY <1>1, <2>1, EndFacts DEF ReturnsInv, TypeOK
  <2>3. \A v \in Workers : StillHolds(txn[v])'
    BY <1>1, <2>1, EndFacts DEF ReturnsInv, StillHolds
  <2>4. \A q \in Returns : NoneOpen(q)' => NoneOpen(q)
    BY <1>1, <1>2, EndFacts DEF NoneOpen
  <2>5. \A q \in Returns : HistoryOf(q)'
    BY <1>1, <2>1, <2>4 DEF ReturnsInv, HistoryOf
  <2>6. Inspected' /\ RefundBooked' /\ GatewayOnce'
    BY <1>1, <2>1 DEF ReturnsInv, Inspected, RefundBooked, GatewayOnce
  <2> QED
    BY <1>1, <2>2, <2>3, <2>5, <2>6, EndFacts DEF ReturnsInv
<1>3. CASE txn[w].inserted /\ txn[w].rail \in Gateways
  <2>1. PICK r \in Returns :
          /\ r = txn[w].ret /\ refund[r] = "none" /\ paidBack[r] = lost[r] + 1
          /\ \A v \in Workers \ {w} : txn[v].ret = r => ~txn[v].inserted
    BY <1>3, InsertedFacts
  <2>2. /\ lost' \in [Returns -> Nat] /\ lost'[r] = lost[r] + 1
        /\ \A q \in Returns \ {r} : lost'[q] = lost[q]
    BY <1>1, <1>3, <2>1 DEF ReturnsInv, TypeOK
  <2>3. TypeOK'
    BY <1>1, <2>2, EndFacts DEF ReturnsInv, TypeOK
  <2>4. \A v \in Workers : StillHolds(txn[v])'
    BY <1>1, <2>1, <2>2, EndFacts DEF ReturnsInv, StillHolds
  <2>5. \A q \in Returns \ {r} : NoneOpen(q)' => NoneOpen(q)
    BY <1>1, <2>1, EndFacts
  <2>6. \A q \in Returns : HistoryOf(q)'
    BY <1>1, <2>1, <2>2, <2>5 DEF ReturnsInv, HistoryOf
  <2>7. Inspected' /\ RefundBooked'
    BY <1>1 DEF ReturnsInv, Inspected, RefundBooked
  <2>8. GatewayOnce'
    <3>1. lost[r] \in Nat
      BY DEF ReturnsInv, TypeOK
    <3> QED
      BY <1>1, <2>1, <2>2, <3>1 DEF ReturnsInv, GatewayOnce
  <2> QED
    BY <1>1, <2>3, <2>4, <2>6, <2>7, <2>8, EndFacts DEF ReturnsInv
<1> QED
  BY <1>2, <1>3

LEMMA StepKeeps == ReturnsInv /\ [Next]_vars => ReturnsInv'
<1> SUFFICES ASSUME ReturnsInv, [Next]_vars
             PROVE  ReturnsInv'
  OBVIOUS
<1>1. ASSUME NEW w \in Workers, WorkerStep(w)
      PROVE  ReturnsInv'
  <2>1. ASSUME NEW r \in Returns, NEW s \in SubOrders, NEW m \in Methods,
               OpenRequest(w, r, s, m)
        PROVE  ReturnsInv'
    BY <2>1, OpenRequestKeeps
  <2>2. ASSUME NEW r \in Returns, NEW target \in Moves \cup Verdicts, Open(w, r, target)
        PROVE  ReturnsInv'
    BY <2>2, OpenMoveKeeps
  <2>3. ASSUME NEW r \in Returns, OpenRefund(w, r) \/ OpenComplete(w, r)
        PROVE  ReturnsInv'
    BY <2>3, OpenRefundKeeps, OpenCompleteKeeps
  <2>4. CASE CommitRequest(w) \/ CommitMove(w) \/ CommitQc(w)
    BY <2>4, MovesKeep
  <2>5. CASE InsertRefund(w)
    BY <2>5, InsertRefundKeeps
  <2>6. CASE CommitRefund(w)
    BY <2>6, CommitRefundKeeps
  <2>7. CASE CommitPending(w)
    BY <2>7, CommitPendingKeeps
  <2>8. CASE CommitComplete(w)
    BY <2>8, CommitCompleteKeeps
  <2>9. CASE Rollback(w)
    BY <2>9, RollbackKeeps
  <2> QED
    BY <1>1, <2>1, <2>2, <2>3, <2>4, <2>5, <2>6, <2>7, <2>8, <2>9 DEF WorkerStep
<1>2. CASE UNCHANGED vars
  <2> USE <1>2 DEF ReturnsInv, vars, requestVars, moneyVars, paymentVars, gatewayVars
  <2>1. TypeOK'
    BY DEF TypeOK
  <2>2. (\A w \in Workers : StillHolds(txn[w])') /\ OneInsert'
    BY DEF StillHolds, OneInsert
  <2>3. \A r \in Returns : HistoryOf(r)'
    BY DEF HistoryOf, NoneOpen
  <2>4. Inspected' /\ RefundBooked' /\ GatewayOnce'
    BY DEF Inspected, RefundBooked, GatewayOnce
  <2> QED
    BY <2>1, <2>2, <2>3, <2>4
<1> QED
  BY <1>1, <1>2 DEF Next

-----------------------------------------------------------------------------
(* Theorems *)

\* The invariant that carries the properties of returns: although no handler
\* locks what it reads, what an open transaction still relies on stays true.
THEOREM ReturnsHold == Spec => []ReturnsInv
<1>1. Init => ReturnsInv
  BY InitHolds
<1>2. ReturnsInv /\ [Next]_vars => ReturnsInv'
  BY StepKeeps
<1> QED
  BY <1>1, <1>2, PTL DEF Spec

\* No money moves for goods that were not received and did not pass inspection,
\* whichever decisions, inspections and refunds cross.
THEOREM InspectedHolds == Spec => []Inspected
<1>1. ReturnsInv => Inspected
  BY DEF ReturnsInv
<1> QED
  BY <1>1, ReturnsHold, PTL

\* A refund is in the ledger, on a credit note and with the buyer when and only
\* when it is completed, once each, however often it is completed.
THEOREM RefundBookedHolds == Spec => []RefundBooked
<1>1. ReturnsInv => RefundBooked
  BY DEF ReturnsInv
<1> QED
  BY <1>1, ReturnsHold, PTL

\* For any number of staff and clicks a gateway executes at most one refund of a
\* return more than the transactions that were lost after it did.
THEOREM GatewayOnceHolds == Spec => []GatewayOnce
<1>1. ReturnsInv => GatewayOnce
  BY DEF ReturnsInv
<1> QED
  BY <1>1, ReturnsHold, PTL

-----------------------------------------------------------------------------
(* What the payment claims *)

\* What an open refund t has read is no more than the gateway has executed without
\* it, so that writing one more once it has executed is no overstatement.
ReadIsCovered(t) ==
  t.target = "refunded" =>
    /\ status[t.ret] # "none"
    /\ t.seen + (IF t.inserted /\ t.rail \in Gateways THEN 1 ELSE 0)
         <= PaidBackTo(OrderOfReturn(t.ret))

\* Refunds of one order overwrite each other's sum, which may lose some of it; the
\* inductive invariant is that no open transaction holds a sum that is too large.
ReturnBooksInv ==
  /\ ReturnsInv
  /\ \A w \in Workers : ReadIsCovered(txn[w])
  /\ \A r \in Returns : status[r] = "none" => paidBack[r] = 0
  /\ NeverOverstated

LEMMA BackType ==
  ASSUME ReturnsInv
  PROVE  \A o : ReturnsOfOrder(o) \subseteq Returns /\ IsFiniteSet(ReturnsOfOrder(o))
                /\ PaidBackTo(o) \in Nat
<1> SUFFICES ASSUME NEW o
             PROVE  ReturnsOfOrder(o) \subseteq Returns /\ IsFiniteSet(ReturnsOfOrder(o))
                    /\ PaidBackTo(o) \in Nat
  OBVIOUS
<1>1. ReturnsOfOrder(o) \subseteq Returns
  BY DEF ReturnsOfOrder
<1>2. IsFiniteSet(ReturnsOfOrder(o))
  BY <1>1, FS_Subset, ReturnsAssumption DEF ReturnsAssumption
<1>3. \A r \in ReturnsOfOrder(o) : paidBack[r] \in Nat
  BY <1>1 DEF ReturnsInv, TypeOK
<1> QED
  BY <1>1, <1>2, <1>3, SumNat DEF PaidBackTo

LEMMA BackTypeNext == ReturnsInv' => \A o : PaidBackTo(o)' \in Nat
<1> SUFFICES ASSUME ReturnsInv', NEW o
             PROVE  PaidBackTo(o)' \in Nat
  OBVIOUS
<1> DEFINE A == ReturnsOfOrder(o)'
           after == paidBack'
<1>1. A \subseteq Returns /\ after \in [Returns -> Nat]
  BY DEF ReturnsOfOrder, ReturnsInv, TypeOK
<1>2. PaidBackTo(o)' = SumFunctionOnSet(after, A)
  BY DEF PaidBackTo
<1> HIDE DEF A, after
<1>3. IsFiniteSet(A) /\ \A r \in A : after[r] \in Nat
  BY <1>1, FS_Subset, ReturnsAssumption DEF ReturnsAssumption
<1> QED
  BY <1>2, <1>3, SumNat

LEMMA BackUnchanged ==
  ASSUME UNCHANGED <<of, paidBack>>
  PROVE  \A o : PaidBackTo(o)' = PaidBackTo(o)
  BY DEF PaidBackTo, ReturnsOfOrder, OrderOfReturn

\* A return that is requested again brings no money with it.
LEMMA BackOfRequest ==
  ASSUME ReturnBooksInv, NEW r \in Returns, status[r] = "none", NEW s,
         of' = [of EXCEPT ![r] = s], UNCHANGED paidBack
  PROVE  \A o : PaidBackTo(o)' = PaidBackTo(o)
<1> SUFFICES ASSUME NEW o
             PROVE  PaidBackTo(o)' = PaidBackTo(o)
  OBVIOUS
<1> DEFINE A == ReturnsOfOrder(o)
           B == ReturnsOfOrder(o)'
<1>1. /\ paidBack[r] = 0 /\ paidBack \in [Returns -> Nat]
      /\ of \in [Returns -> SubOrders \cup {"none"}]
  BY DEF ReturnBooksInv, ReturnsInv, TypeOK
<1>2. \A q \in Returns \ {r} : of'[q] = of[q]
  BY <1>1
<1>3. A \subseteq Returns /\ B \subseteq Returns /\ A \ {r} = B \ {r}
  BY <1>2 DEF ReturnsOfOrder, OrderOfReturn
<1>4. PaidBackTo(o)' = SumFunctionOnSet(paidBack, B)
  BY DEF PaidBackTo
<1>5. PaidBackTo(o) = SumFunctionOnSet(paidBack, A)
  BY DEF PaidBackTo
<1> HIDE DEF A, B
<1>6. ASSUME NEW C \in SUBSET Returns
      PROVE  SumFunctionOnSet(paidBack, C) = SumFunctionOnSet(paidBack, C \ {r})
  <2>1. IsFiniteSet(C) /\ \A q \in C : paidBack[q] \in Int
    BY <1>1, FS_Subset, ReturnsAssumption DEF ReturnsAssumption
  <2>2. CASE r \in C
    <3>1. SumFunctionOnSet(paidBack, C) =
            paidBack[r] + SumFunctionOnSet(paidBack, C \ {r})
      BY <2>1, <2>2, SumTakeOut
    <3>2. IsFiniteSet(C \ {r})
      BY <2>1, FS_RemoveElement
    <3>3. SumFunctionOnSet(paidBack, C \ {r}) \in Int
      BY <2>1, <3>2, SumInt
    <3> QED
      BY <1>1, <3>1, <3>3
  <2>3. CASE r \notin C
    <3>1. C \ {r} = C
      BY <2>3
    <3> QED
      BY <3>1
  <2> QED
    BY <2>2, <2>3
<1> QED
  BY <1>3, <1>4, <1>5, <1>6

\* What the gateway executes for a return is given back to the return's order.
LEMMA BackOfInsert ==
  ASSUME ReturnsInv, NEW r \in Returns, of[r] # "none",
         paidBack' = [paidBack EXCEPT ![r] = @ + 1], UNCHANGED of
  PROVE  \A o : /\ PaidBackTo(o) <= PaidBackTo(o)'
                /\ o = OrderOfReturn(r) => PaidBackTo(o)' = PaidBackTo(o) + 1
<1> SUFFICES ASSUME NEW o
             PROVE  /\ PaidBackTo(o) <= PaidBackTo(o)'
                    /\ o = OrderOfReturn(r) => PaidBackTo(o)' = PaidBackTo(o) + 1
  OBVIOUS
<1> DEFINE A == ReturnsOfOrder(o)
<1>1. /\ paidBack \in [Returns -> Nat] /\ paidBack'[r] = paidBack[r] + 1
      /\ paidBack' \in [Returns -> Nat]
      /\ \A q \in Returns \ {r} : paidBack'[q] = paidBack[q]
  BY DEF ReturnsInv, TypeOK
<1>2. A \subseteq Returns /\ IsFiniteSet(A) /\ PaidBackTo(o) \in Nat
  BY BackType
<1>3. PaidBackTo(o)' = SumFunctionOnSet(paidBack', A)
  BY DEF PaidBackTo, ReturnsOfOrder, OrderOfReturn
<1>4. PaidBackTo(o) = SumFunctionOnSet(paidBack, A)
  BY DEF PaidBackTo
<1>5. o = OrderOfReturn(r) => r \in A
  BY DEF ReturnsOfOrder
<1> HIDE DEF A
<1>6. CASE r \in A
  <2> DEFINE before == paidBack
             after == paidBack'
  <2>1. /\ \A q \in A : before[q] \in Int /\ after[q] \in Int
        /\ \A q \in A \ {r} : after[q] = before[q]
        /\ after[r] = before[r] + 1
    BY <1>1, <1>2
  <2>2. PaidBackTo(o) = SumFunctionOnSet(before, A)
        /\ PaidBackTo(o)' = SumFunctionOnSet(after, A)
    BY <1>3, <1>4
  <2> HIDE DEF before, after
  <2>3. SumFunctionOnSet(after, A) = SumFunctionOnSet(before, A) - before[r] + after[r]
    BY <1>2, <1>6, <2>1, SumChange
  <2> QED
    BY <1>2, <1>6, <2>1, <2>2, <2>3
<1>7. CASE r \notin A
  <2>1. \A q \in A : paidBack'[q] = paidBack[q]
    BY <1>1, <1>2, <1>7
  <2>2. SumFunctionOnSet(paidBack', A) = SumFunctionOnSet(paidBack, A)
    BY <1>2, <2>1, SumSame
  <2> QED
    BY <1>2, <1>3, <1>4, <1>5, <1>7, <2>2
<1> QED
  BY <1>6, <1>7

\* A step after which no order has less back, which raises no claim and writes no
\* sum into a transaction, keeps the books.
LEMMA QuietKeeps ==
  ASSUME ReturnBooksInv, ReturnsInv',
         \A o : PaidBackTo(o)' \in Nat /\ PaidBackTo(o) <= PaidBackTo(o)',
         \A w \in Workers : \/ txn'[w] = txn[w] /\ of'[txn[w].ret] = of[txn[w].ret]
                            \/ ReadIsCovered(txn[w])',
         \A r \in Returns :
           status'[r] = "none" => status[r] = "none" /\ paidBack'[r] = paidBack[r],
         UNCHANGED refunded
  PROVE  ReturnBooksInv'
<1>1. \A w \in Workers : ReadIsCovered(txn[w])'
  <2> SUFFICES ASSUME NEW w \in Workers,
                      txn'[w] = txn[w], of'[txn[w].ret] = of[txn[w].ret],
                      txn[w].target = "refunded"
               PROVE  ReadIsCovered(txn[w])'
    BY DEF ReadIsCovered
  <2>1. ReadIsCovered(txn[w]) /\ txn[w].seen \in Nat /\ txn[w].ret \in Returns
    BY TxnTypes DEF ReturnBooksInv, ReturnsInv, TypeOK, StillHolds
  <2>2. OrderOfReturn(txn[w].ret)' = OrderOfReturn(txn[w].ret)
    BY DEF OrderOfReturn
  <2> DEFINE o == OrderOfReturn(txn[w].ret)
             n == txn[w].seen + (IF txn[w].inserted /\ txn[w].rail \in Gateways THEN 1 ELSE 0)
  <2>3. n <= PaidBackTo(o) /\ n \in Nat
    BY <2>1 DEF ReadIsCovered
  <2>4. PaidBackTo(o) <= PaidBackTo(o)'
    BY <2>2
  <2>5. PaidBackTo(o) \in Nat /\ PaidBackTo(o)' \in Nat
    BY BackType DEF ReturnBooksInv
  <2>6. n <= PaidBackTo(o)'
    <3> HIDE DEF o, n
    <3> QED
      BY <2>3, <2>4, <2>5
  <2>7. status'[txn[w].ret] # "none"
    BY <2>1 DEF ReadIsCovered
  <2> QED
    BY <2>2, <2>6, <2>7 DEF ReadIsCovered
<1>2. NeverOverstated'
  <2> SUFFICES ASSUME NEW o \in Orders
               PROVE  refunded'[o] <= PaidBackTo(o)'
    BY DEF NeverOverstated
  <2>1. refunded[o] <= PaidBackTo(o) /\ refunded[o] \in Nat
    BY DEF ReturnBooksInv, NeverOverstated, ReturnsInv, TypeOK
  <2>2. PaidBackTo(o) \in Nat
    BY BackType DEF ReturnBooksInv
  <2> QED
    BY <2>1, <2>2
<1>3. \A r \in Returns : status'[r] = "none" => paidBack'[r] = 0
  BY DEF ReturnBooksInv
<1> QED
  BY <1>1, <1>2, <1>3 DEF ReturnBooksInv

LEMMA BooksInit == Init => ReturnBooksInv
<1> SUFFICES ASSUME Init
             PROVE  ReturnBooksInv
  OBVIOUS
<1>1. ReturnsInv
  BY InitHolds
<1>2. \A w \in Workers : ReadIsCovered(txn[w])
  BY DEF Init, Idle, ReadIsCovered
<1>3. \A r \in Returns : paidBack[r] = 0
  BY DEF Init
<1>4. NeverOverstated
  <2> SUFFICES ASSUME NEW o \in Orders
               PROVE  refunded[o] <= PaidBackTo(o)
    BY DEF NeverOverstated
  <2>1. refunded[o] = 0 /\ PaidBackTo(o) \in Nat
    BY <1>1, BackType DEF Init
  <2> QED
    BY <2>1
<1> QED
  BY <1>1, <1>2, <1>3, <1>4 DEF ReturnBooksInv

\* A transaction that opens without money, or ends without having moved any.
LEMMA OpensOrEnds ==
  ASSUME ReturnBooksInv, ReturnsInv',
         NEW w \in Workers, NEW t, txn' = [txn EXCEPT ![w] = t],
         t.target # "refunded",
         UNCHANGED <<of, paidBack, refunded>>,
         \A r \in Returns : status'[r] = "none" => status[r] = "none"
  PROVE  ReturnBooksInv'
<1>1. \A o : PaidBackTo(o)' = PaidBackTo(o) /\ PaidBackTo(o) \in Nat
  BY BackUnchanged, BackType DEF ReturnBooksInv
<1>2. /\ txn'[w] = t
      /\ \A v \in Workers \ {w} : txn'[v] = txn[v]
  BY DEF ReturnBooksInv, ReturnsInv, TypeOK
<1>3. \A v \in Workers : \/ txn'[v] = txn[v] /\ of'[txn[v].ret] = of[txn[v].ret]
                         \/ ReadIsCovered(txn[v])'
  BY <1>2 DEF ReadIsCovered
<1>4. \A o : PaidBackTo(o)' \in Nat /\ PaidBackTo(o) <= PaidBackTo(o)'
  BY <1>1
<1> QED
  BY <1>3, <1>4, QuietKeeps

LEMMA SetStatusNeverNone ==
  ASSUME ReturnsInv, NEW r, NEW to, to # "none", SetStatus(r, to)
  PROVE  \A q \in Returns : status'[q] = "none" => status[q] = "none"
<1>1. status' = [status EXCEPT ![r] = to] /\ status \in [Returns -> Statuses \cup {"none"}]
  BY DEF SetStatus, ReturnsInv, TypeOK
<1>2. \A q \in Returns : status'[q] = status[q] \/ status'[q] = to
  BY <1>1
<1> QED
  BY <1>1, <1>2


LEMMA RequestKeepsBooks ==
  ASSUME ReturnBooksInv, ReturnsInv', NEW w \in Workers, NEW r \in Returns,
         NEW s \in SubOrders, NEW m \in Methods, OpenRequest(w, r, s, m)
  PROVE  ReturnBooksInv'
<1>1. /\ txn' = [txn EXCEPT ![w] = [Idle EXCEPT !.target = "requested", !.ret = r]]
      /\ of' = [of EXCEPT ![r] = s] /\ status[r] = "none"
      /\ \A v \in Workers : txn[v].ret # r
      /\ UNCHANGED <<status, paidBack, refunded>>
  BY DEF OpenRequest, Begins, paymentVars, gatewayVars
<1>2. \A o : PaidBackTo(o)' = PaidBackTo(o) /\ PaidBackTo(o) \in Nat
  BY <1>1, BackOfRequest, BackType DEF ReturnBooksInv
<1>3. /\ txn'[w].target = "requested"
      /\ \A v \in Workers \ {w} : txn'[v] = txn[v]
  BY <1>1 DEF ReturnBooksInv, ReturnsInv, TypeOK, Idle
<1>4. ASSUME NEW v \in Workers \ {w}
      PROVE  ReadIsCovered(txn[v])'
  <2>1. CASE txn[v].target = "refunded"
    <3>1. /\ ReadIsCovered(txn[v]) /\ txn[v].ret \in Returns \ {r}
      BY <1>1, <2>1 DEF ReturnBooksInv, ReturnsInv, StillHolds
    <3>2. of'[txn[v].ret] = of[txn[v].ret]
      BY <1>1, <3>1 DEF ReturnBooksInv, ReturnsInv, TypeOK
    <3>3. OrderOfReturn(txn[v].ret)' = OrderOfReturn(txn[v].ret)
      BY <1>3, <3>2 DEF OrderOfReturn
    <3> QED
      BY <1>1, <1>2, <1>3, <3>1, <3>3 DEF ReadIsCovered
  <2>2. CASE txn[v].target # "refunded"
    BY <1>3, <2>2 DEF ReadIsCovered
  <2> QED
    BY <2>1, <2>2
<1>5. ReadIsCovered(txn[w])'
  BY <1>3 DEF ReadIsCovered
<1>6. NeverOverstated'
  BY <1>1, <1>2 DEF ReturnBooksInv, NeverOverstated
<1> QED
  BY <1>1, <1>4, <1>5, <1>6 DEF ReturnBooksInv

\* A refund opens with the sum the payment shows, which is covered.
LEMMA RefundOpensCovered ==
  ASSUME ReturnBooksInv, ReturnsInv', NEW w \in Workers, NEW r \in Returns,
         OpenRefund(w, r)
  PROVE  ReturnBooksInv'
<1> DEFINE o == OrderOfReturn(r)
           rail == Rail(o, method[r])
           t == [target |-> "refunded", ret |-> r, inserted |-> FALSE,
                 rail |-> rail, seen |-> refunded[o]]
<1>1. /\ txn' = [txn EXCEPT ![w] = t]
      /\ status[r] # "none"
      /\ UNCHANGED <<status, of, paidBack, refunded>>
  BY DEF OpenRefund, Begins, requestVars, paymentVars, gatewayVars
<1>2. \A q : PaidBackTo(q)' = PaidBackTo(q) /\ PaidBackTo(q) \in Nat
  BY <1>1, BackUnchanged, BackType DEF ReturnBooksInv
<1>3. o \in Orders
  <2>1. of[r] \in SubOrders
    BY <1>1 DEF ReturnBooksInv, ReturnsInv, HistoryOf
  <2> QED
    BY <2>1, ReturnsAssumption DEF ReturnsAssumption, OrderOfReturn
<1>4. refunded[o] <= PaidBackTo(o) /\ refunded[o] \in Nat
  BY <1>3 DEF ReturnBooksInv, NeverOverstated, ReturnsInv, TypeOK
<1>5. OrderOfReturn(r)' = o
  BY <1>1 DEF OrderOfReturn
<1>6. t.target = "refunded" /\ t.ret = r /\ ~t.inserted /\ t.seen = refunded[o]
  OBVIOUS
<1> HIDE DEF t, rail, o
<1>7. /\ txn'[w] = t
      /\ \A v \in Workers \ {w} : txn'[v] = txn[v]
  BY <1>1 DEF ReturnBooksInv, ReturnsInv, TypeOK
<1>8. ReadIsCovered(txn[w])'
  BY <1>1, <1>2, <1>4, <1>5, <1>6, <1>7 DEF ReadIsCovered
<1>9. \A v \in Workers : \/ txn'[v] = txn[v] /\ of'[txn[v].ret] = of[txn[v].ret]
                         \/ ReadIsCovered(txn[v])'
  BY <1>1, <1>7, <1>8
<1>10. \A q : PaidBackTo(q)' \in Nat /\ PaidBackTo(q) <= PaidBackTo(q)'
  BY <1>2
<1> QED
  BY <1>1, <1>9, <1>10, QuietKeeps

\* The gateway executes: what the transaction will write is still covered.
LEMMA InsertKeepsBooks ==
  ASSUME ReturnBooksInv, ReturnsInv', NEW w \in Workers, InsertRefund(w)
  PROVE  ReturnBooksInv'
<1>1. PICK r \in Returns : r = txn[w].ret /\ of[r] \in SubOrders
  BY DEF InsertRefund, ReturnBooksInv, ReturnsInv, StillHolds
<1>2. PICK o : o = OrderOfReturn(r)
  OBVIOUS
<1>3. /\ txn[w].target = "refunded" /\ ~txn[w].inserted
      /\ of[r] # "none" /\ status[r] # "none"
      /\ txn[w].seen \in Nat /\ txn[w].seen <= PaidBackTo(o)
  <2>1. txn[w].target = "refunded" /\ ~txn[w].inserted
    BY DEF InsertRefund
  <2>2. txn[w].seen \in Nat
    BY TxnTypes DEF ReturnBooksInv, ReturnsInv, TypeOK
  <2>3. of[r] # "none"
    BY <1>1, ReturnsAssumption DEF ReturnsAssumption
  <2>4. status[r] # "none" /\ txn[w].seen + 0 <= PaidBackTo(o)
    BY <1>1, <1>2, <2>1 DEF ReturnBooksInv, ReadIsCovered
  <2> QED
    BY <2>1, <2>2, <2>3, <2>4, BackType DEF ReturnBooksInv
<1>4. /\ txn' = [txn EXCEPT ![w].inserted = TRUE]
      /\ paidBack' = IF txn[w].rail \in Gateways
                     THEN [paidBack EXCEPT ![r] = @ + 1] ELSE paidBack
      /\ UNCHANGED <<status, of, refunded>>
  BY <1>1 DEF InsertRefund, requestVars, paymentVars
<1>5. /\ txn'[w] = [txn[w] EXCEPT !.inserted = TRUE]
      /\ \A v \in Workers \ {w} : txn'[v] = txn[v]
  BY <1>4 DEF ReturnBooksInv, ReturnsInv, TypeOK
<1>6. /\ txn'[w].target = "refunded" /\ txn'[w].ret = r /\ txn'[w].inserted
      /\ txn'[w].rail = txn[w].rail /\ txn'[w].seen = txn[w].seen
  <2>1. txn[w] \in Txns
    BY DEF ReturnBooksInv, ReturnsInv, TypeOK
  <2> QED
    BY <1>1, <1>3, <1>5, <2>1 DEF Txns
<1>7. OrderOfReturn(r)' = o
  BY <1>4, <1>2 DEF OrderOfReturn
<1>8. /\ \A q : PaidBackTo(q)' \in Nat /\ PaidBackTo(q) <= PaidBackTo(q)'
      /\ txn[w].rail \in Gateways => PaidBackTo(o)' = PaidBackTo(o) + 1
  <2>1. \A q : PaidBackTo(q)' \in Nat /\ PaidBackTo(q) \in Nat
    BY BackType, BackTypeNext DEF ReturnBooksInv
  <2>2. CASE txn[w].rail \in Gateways
    <3>1. paidBack' = [paidBack EXCEPT ![r] = @ + 1] /\ UNCHANGED of
      BY <1>4, <2>2
    <3>2. \A q : /\ PaidBackTo(q) <= PaidBackTo(q)'
                 /\ q = OrderOfReturn(r) => PaidBackTo(q)' = PaidBackTo(q) + 1
      BY <1>3, <3>1, BackOfInsert DEF ReturnBooksInv
    <3> QED
      BY <1>2, <2>1, <3>2
  <2>3. CASE txn[w].rail \notin Gateways
    BY <1>4, <2>1, <2>3, BackUnchanged
  <2> QED
    BY <2>2, <2>3
<1>9. txn[w].seen + (IF txn[w].rail \in Gateways THEN 1 ELSE 0) <= PaidBackTo(o)'
  <2>1. PaidBackTo(o) \in Nat /\ PaidBackTo(o)' \in Nat
    BY BackType, BackTypeNext DEF ReturnBooksInv
  <2> QED
    BY <1>3, <1>8, <2>1
<1>10. ReadIsCovered(txn[w])'
  BY <1>3, <1>4, <1>6, <1>7, <1>9 DEF ReadIsCovered
<1>11. \A v \in Workers : \/ txn'[v] = txn[v] /\ of'[txn[v].ret] = of[txn[v].ret]
                         \/ ReadIsCovered(txn[v])'
  BY <1>4, <1>5, <1>10
<1>12. \A q \in Returns :
         status'[q] = "none" => status[q] = "none" /\ paidBack'[q] = paidBack[q]
  BY <1>3, <1>4 DEF ReturnBooksInv, ReturnsInv, TypeOK
<1> QED
  BY <1>4, <1>8, <1>11, <1>12, QuietKeeps

\* The refund commits: it writes the sum it read and its own unit, no more than
\* the gateway has executed, whatever the others have written meanwhile.
LEMMA CommitKeepsBooks ==
  ASSUME ReturnBooksInv, ReturnsInv', NEW w \in Workers, CommitRefund(w)
  PROVE  ReturnBooksInv'
<1> DEFINE r == txn[w].ret
           o == OrderOfReturn(r)
<1>1. /\ txn[w].target = "refunded" /\ txn[w].inserted /\ r \in Returns
      /\ of[r] \in SubOrders
  BY DEF CommitRefund, ReturnBooksInv, ReturnsInv, StillHolds
<1>2. o \in Orders
  BY <1>1, ReturnsAssumption DEF ReturnsAssumption, OrderOfReturn
<1>3. /\ txn' = [txn EXCEPT ![w] = Idle]
      /\ status' = [status EXCEPT ![r] = "refunded"]
      /\ UNCHANGED <<of, paidBack>>
  BY DEF CommitRefund, Ends, Completes, SetStatus, gatewayVars
<1>4. /\ txn'[w] = Idle
      /\ \A v \in Workers \ {w} : txn'[v] = txn[v]
      /\ \A q \in Returns : status'[q] = "none" => status[q] = "none"
  BY <1>3 DEF ReturnBooksInv, ReturnsInv, TypeOK
<1>5. \A q : PaidBackTo(q)' = PaidBackTo(q) /\ PaidBackTo(q) \in Nat
  BY <1>3, BackUnchanged, BackType DEF ReturnBooksInv
<1>6. \A v \in Workers : ReadIsCovered(txn[v])'
  <2>1. ASSUME NEW v \in Workers \ {w}
        PROVE  ReadIsCovered(txn[v])'
    <3>1. CASE txn[v].target = "refunded"
      <4>1. ReadIsCovered(txn[v]) /\ txn[v].ret \in Returns
        BY <3>1 DEF ReturnBooksInv, ReturnsInv, StillHolds
      <4>2. OrderOfReturn(txn[v].ret)' = OrderOfReturn(txn[v].ret)
        BY <1>3, <1>4 DEF OrderOfReturn
      <4> QED
        BY <1>4, <1>5, <4>1, <4>2 DEF ReadIsCovered
    <3>2. CASE txn[v].target # "refunded"
      BY <1>4, <3>2 DEF ReadIsCovered
    <3> QED
      BY <3>1, <3>2
  <2>2. ReadIsCovered(txn[w])'
    BY <1>4 DEF ReadIsCovered, Idle
  <2> QED
    BY <2>1, <2>2
<1>7. NeverOverstated'
  <2>1. CASE txn[w].rail = "store_credit"
    <3>1. UNCHANGED refunded
      BY <2>1 DEF CommitRefund, paymentVars
    <3> QED
      BY <1>5, <3>1 DEF ReturnBooksInv, NeverOverstated
  <2>2. CASE txn[w].rail # "store_credit"
    <3>1. txn[w].rail \in Gateways
      <4>1. txn[w].rail \in Rails
        BY <1>1 DEF ReturnBooksInv, ReturnsInv, StillHolds
      <4> QED
        BY <2>2, <4>1 DEF CommitRefund, Rails
    <3>2. refunded' = [refunded EXCEPT ![o] = txn[w].seen + 1]
      <4>1. RecordRefund(o, txn[w].seen)
        BY <2>2 DEF CommitRefund
      <4> HIDE DEF o
      <4> QED
        BY <4>1, Zenon DEF RecordRefund
    <3>3. txn[w].seen + 1 <= PaidBackTo(o)
      BY <1>1, <3>1 DEF ReturnBooksInv, ReadIsCovered
    <3>4. refunded \in [Orders -> Nat]
      BY DEF ReturnBooksInv, ReturnsInv, TypeOK
    <3> HIDE DEF o
    <3> SUFFICES ASSUME NEW p \in Orders
                 PROVE  refunded'[p] <= PaidBackTo(p)'
      BY DEF NeverOverstated
    <3>5. refunded[p] <= PaidBackTo(p)
      BY DEF ReturnBooksInv, NeverOverstated
    <3>6. CASE p = o
      BY <1>2, <1>5, <3>2, <3>3, <3>4, <3>6
    <3>7. CASE p # o
      BY <1>5, <3>2, <3>4, <3>5, <3>7
    <3> QED
      BY <3>6, <3>7
  <2> QED
    BY <2>1, <2>2
<1> QED
  BY <1>3, <1>4, <1>6, <1>7 DEF ReturnBooksInv

LEMMA BooksStep == ReturnBooksInv /\ [Next]_vars => ReturnBooksInv'
<1> SUFFICES ASSUME ReturnBooksInv, [Next]_vars
             PROVE  ReturnBooksInv'
  OBVIOUS
<1>1. ReturnsInv'
  BY StepKeeps DEF ReturnBooksInv
<1>2. ASSUME NEW w \in Workers, WorkerStep(w)
      PROVE  ReturnBooksInv'
  <2>1. ASSUME NEW r \in Returns, NEW s \in SubOrders, NEW m \in Methods,
               OpenRequest(w, r, s, m)
        PROVE  ReturnBooksInv'
    BY <1>1, <2>1, RequestKeepsBooks
  <2>2. ASSUME NEW r \in Returns, NEW target \in Moves \cup Verdicts, Open(w, r, target)
        PROVE  ReturnBooksInv'
    <3> DEFINE t == [Idle EXCEPT !.target = target, !.ret = r]
    <3>1. t.target # "refunded"
      BY DEF Idle, Moves, Decisions, Marks, Verdicts
    <3>2. /\ txn' = [txn EXCEPT ![w] = t]
          /\ UNCHANGED <<status, of, paidBack, refunded>>
      BY <2>2 DEF Open, Begins, requestVars, paymentVars, gatewayVars
    <3> HIDE DEF t
    <3> QED
      BY <1>1, <3>1, <3>2, OpensOrEnds
  <2>3. ASSUME NEW r \in Returns, OpenRefund(w, r)
        PROVE  ReturnBooksInv'
    BY <1>1, <2>3, RefundOpensCovered
  <2>4. ASSUME NEW r \in Returns, OpenComplete(w, r)
        PROVE  ReturnBooksInv'
    <3> DEFINE t == [Idle EXCEPT !.target = "completed", !.ret = r]
    <3>1. t.target # "refunded"
      BY DEF Idle
    <3>2. /\ txn' = [txn EXCEPT ![w] = t]
          /\ UNCHANGED <<status, of, paidBack, refunded>>
      BY <2>4 DEF OpenComplete, Begins, requestVars, paymentVars, gatewayVars
    <3> HIDE DEF t
    <3> QED
      BY <1>1, <3>1, <3>2, OpensOrEnds
  <2>5. Idle.target # "refunded"
    BY DEF Idle
  <2>6. CASE CommitRequest(w) \/ CommitMove(w) \/ CommitQc(w) \/ CommitComplete(w)
    <3>1. PICK r, to : SetStatus(r, to) /\ to # "none"
      <4>1. CASE CommitRequest(w)
        BY <4>1 DEF CommitRequest
      <4>2. CASE CommitMove(w)
        BY <4>2 DEF CommitMove, Moves, Decisions, Marks
      <4>3. CASE CommitQc(w)
        BY <4>3 DEF CommitQc, Verdicts
      <4>4. CASE CommitComplete(w)
        BY <4>4 DEF CommitComplete, Completes
      <4> QED
        BY <2>6, <4>1, <4>2, <4>3, <4>4
    <3>2. \A q \in Returns : status'[q] = "none" => status[q] = "none"
      BY <3>1, SetStatusNeverNone DEF ReturnBooksInv
    <3>3. txn' = [txn EXCEPT ![w] = Idle] /\ UNCHANGED <<of, paidBack, refunded>>
      BY <2>6 DEF CommitRequest, CommitMove, CommitQc, CommitComplete, Ends,
         paymentVars, gatewayVars
    <3> QED
      BY <1>1, <2>5, <3>2, <3>3, OpensOrEnds
  <2>7. CASE InsertRefund(w)
    BY <1>1, <2>7, InsertKeepsBooks
  <2>8. CASE CommitRefund(w)
    BY <1>1, <2>8, CommitKeepsBooks
  <2>9. CASE CommitPending(w) \/ Rollback(w)
    <3>1. /\ txn' = [txn EXCEPT ![w] = Idle]
          /\ UNCHANGED <<status, of, paidBack, refunded>>
      BY <2>9 DEF CommitPending, Rollback, Ends, requestVars, paymentVars, gatewayVars
    <3> QED
      BY <1>1, <2>5, <3>1, OpensOrEnds
  <2> QED
    BY <1>2, <2>1, <2>2, <2>3, <2>4, <2>6, <2>7, <2>8, <2>9 DEF WorkerStep
<1>3. CASE UNCHANGED vars
  <2>1. UNCHANGED <<status, of, txn, paidBack, refunded>>
    BY <1>3 DEF vars, requestVars, paymentVars, gatewayVars
  <2>2. \A o : PaidBackTo(o)' \in Nat /\ PaidBackTo(o) <= PaidBackTo(o)'
    BY <2>1, BackUnchanged, BackType DEF ReturnBooksInv
  <2> QED
    BY <1>1, <2>1, <2>2, QuietKeeps
<1> QED
  BY <1>2, <1>3 DEF Next

\* Two refunds of one order overwrite each other's sum on the payment, and yet the
\* payment never claims that more was given back than the gateway executed
\* (returns/service.py _record_payment_refund), for any number of returns.
THEOREM ReturnBooksHold == Spec => []ReturnBooks
<1>1. Init => ReturnBooksInv
  BY BooksInit
<1>2. ReturnBooksInv /\ [Next]_vars => ReturnBooksInv'
  BY BooksStep
<1>3. ReturnBooksInv => ReturnBooks
  BY DEF ReturnBooksInv, ReturnsInv, ReturnBooks
<1> QED
  BY <1>1, <1>2, <1>3, PTL DEF Spec
=============================================================================
