-------------------------- MODULE Shipment_proofs --------------------------
(***************************************************************************)
(* Theorems about Shipment for every number of orders, vendors and parcels *)
(* and for every order in which the courier reports.                       *)
(***************************************************************************)
EXTENDS Shipment, TLAPS

-----------------------------------------------------------------------------
(* The inductive invariant *)

\* A row, its open transactions and the courier's parcel agree as far as the
\* crossing of bookings, cancellations and events lets them.
RowMatchesParcel(k) ==
  /\ of[k] = "none" <=> parcel[k] = "none"
  /\ parcel[k] # "none" => {parcel[k], "booked"} \subseteq reached[k]
  /\ k \in booking => ship[k] = "none" /\ of[k] # "none"
  /\ ship[k] = "none" => restocks[k] = 0 /\ k \notin cancelling
  /\ ship[k] # "none" => of[k] # "none"
  /\ ship[k] \in Statuses \ {"cancelled"} => ship[k] \in reached[k]

\* A parcel whose cancellation the courier accepted is never handed over, and a
\* delivered one stays where it is.
WayBack(k) ==
  /\ k \in cancelling => parcel[k] \in {"cancelled", "returning", "returned"}
  /\ "delivered" \in reached[k] => parcel[k] = "delivered"

ParcelInv == \A k \in Consignments : RowMatchesParcel(k) /\ WayBack(k)

\* The stock of a prepaid order was consumed when it was paid.
PrepaidConsumed == \A o \in Orders \ CodOrders : resv[o] = "consumed"

ShipmentInv == TypeOK /\ ParcelInv /\ PrepaidConsumed /\ GoodsMove /\ CashBooks

-----------------------------------------------------------------------------
(* The tables of the code *)

LEMMA ProgressFacts ==
  /\ Statuses = {"booked", "picked_up", "in_transit", "out_for_delivery",
                 "delivered", "partial_delivered", "failed_attempt", "returning",
                 "returned", "cancelled"}
  /\ \A status \in Statuses : Progress[status] \in 0 .. 9
  /\ \A status \in Statuses : Progress[status] >= 1 <=> status # "booked"
  /\ Progress["picked_up"] = 1 /\ Progress["booked"] = 0
  /\ Progress["cancelled"] = 9
  BY DEF Statuses, Progress

LEMMA CourierFacts ==
  ASSUME NEW status \in Statuses, NEW next \in CourierNext[status]
  PROVE  /\ next \in Statuses
         /\ status \notin Terminal
         /\ status = "returning" => next = "returned"
  BY ProgressFacts DEF CourierNext, Terminal

-----------------------------------------------------------------------------
(* The parts of the invariant that an action leaves alone *)

\* CashBooks depends on what parcels have reached only monotonically.
LEMMA CashKept ==
  ASSUME TypeOK, CashBooks,
         UNCHANGED <<receivable, codPay, delivery, settlement>>,
         \A k \in Consignments :
           of[k] \in SubOrders => of'[k] = of[k] /\ reached[k] \subseteq reached'[k]
  PROVE  CashBooks'
  BY DEF CashBooks, ParcelsOf, TypeOK

\* GoodsMove is about a row, its restocks, its parcel's past and its order's stock.
LEMMA GoodsKept ==
  ASSUME GoodsMove, UNCHANGED <<resv, restocks>>,
         \A k \in Consignments :
           /\ of[k] \in SubOrders => of'[k] = of[k] /\ reached[k] \subseteq reached'[k]
           /\ ship[k] # "none" => of[k] \in SubOrders
           /\ restocks[k] > 0 => ship[k] # "none"
           /\ \/ ship'[k] = ship[k]
              \/ ship'[k] = "cancelled"
              \/ ship[k] = "none" /\ ship'[k] = "booked"
  PROVE  GoodsMove'
  BY ProgressFacts DEF GoodsMove, Terminal

LEMMA InitHolds == Init => ShipmentInv
<1> SUFFICES ASSUME Init
             PROVE  ShipmentInv
  OBVIOUS
<1>1. TypeOK
  BY FulfilmentAssumption DEF FulfilmentAssumption, Init, TypeOK, Cod
<1>2. ParcelInv
  BY ProgressFacts DEF Init, ParcelInv, RowMatchesParcel, WayBack
<1>3. PrepaidConsumed /\ GoodsMove
  BY ProgressFacts DEF Init, PrepaidConsumed, GoodsMove
<1>4. CashBooks
  BY FulfilmentAssumption DEF FulfilmentAssumption, Init, CashBooks, Cod
<1> QED
  BY <1>1, <1>2, <1>3, <1>4 DEF ShipmentInv

-----------------------------------------------------------------------------
(* Bookings and cancellations *)

LEMMA MarkReadyKeeps ==
  ASSUME ShipmentInv, NEW s \in SubOrders, MarkReady(s)
  PROVE  ShipmentInv'
<1> USE DEF ShipmentInv, MarkReady, openVars, courierVars, cashVars
<1>1. TypeOK'
  BY DEF TypeOK
<1>2. ParcelInv' /\ PrepaidConsumed'
  BY DEF ParcelInv, RowMatchesParcel, WayBack, PrepaidConsumed
<1>3. CashBooks' /\ GoodsMove'
  BY DEF CashBooks, GoodsMove, ParcelsOf
<1> QED
  BY <1>1, <1>2, <1>3

\* Before its booking nothing is known of a consignment.
LEMMA UnbookedIsBlank ==
  ASSUME ShipmentInv, NEW k \in Consignments, parcel[k] = "none"
  PROVE  of[k] = "none" /\ ship[k] = "none" /\ k \notin booking
  BY DEF ShipmentInv, ParcelInv, RowMatchesParcel

\* What GoodsKept needs of the rows an action does not move.
LEMMA RowFacts ==
  ASSUME ShipmentInv, NEW k \in Consignments
  PROVE  /\ ship[k] # "none" => of[k] \in SubOrders
         /\ restocks[k] > 0 => ship[k] # "none"
  BY DEF ShipmentInv, ParcelInv, RowMatchesParcel, TypeOK

LEMMA BookShipmentKeeps ==
  ASSUME ShipmentInv, NEW s \in SubOrders, NEW k \in Consignments,
         BookShipment(s, k)
  PROVE  ShipmentInv'
<1>1. TypeOK'
  BY ProgressFacts DEF ShipmentInv, BookShipment, TypeOK, cashVars
<1>2. parcel[k] = "none" /\ of[k] = "none" /\ ship[k] = "none" /\ k \notin booking
  BY UnbookedIsBlank DEF BookShipment
<1>3. /\ parcel' = [parcel EXCEPT ![k] = "booked"]
      /\ reached' = [reached EXCEPT ![k] = {"booked"}]
      /\ of' = [of EXCEPT ![k] = s]
      /\ booking' = booking \cup {k}
      /\ UNCHANGED <<ship, cancelling, resv, restocks, receivable, codPay, delivery,
                     settlement>>
  BY DEF BookShipment, cashVars
<1>4. ParcelInv'
  <2>1. ASSUME NEW j \in Consignments, j # k
        PROVE  (RowMatchesParcel(j) /\ WayBack(j))'
    BY <1>3, <2>1 DEF ShipmentInv, TypeOK, ParcelInv, RowMatchesParcel, WayBack
  <2>2. /\ of'[k] = s /\ parcel'[k] = "booked" /\ reached'[k] = {"booked"}
        /\ ship'[k] = "none" /\ k \in booking' /\ restocks'[k] = 0
        /\ k \notin cancelling'
    BY <1>2, <1>3 DEF ShipmentInv, TypeOK, ParcelInv, RowMatchesParcel
  <2>3. s # "none" /\ "none" \notin Statuses
    BY FulfilmentAssumption, ProgressFacts DEF FulfilmentAssumption
  <2>4. (RowMatchesParcel(k) /\ WayBack(k))'
    BY <2>2, <2>3 DEF RowMatchesParcel, WayBack
  <2> QED
    BY <2>1, <2>4 DEF ParcelInv
<1>5. \A j \in Consignments :
        of[j] \in SubOrders => of'[j] = of[j] /\ reached[j] \subseteq reached'[j]
  BY <1>2, <1>3, FulfilmentAssumption DEF FulfilmentAssumption, ShipmentInv, TypeOK
<1>6. CashBooks'
  BY <1>3, <1>5, CashKept DEF ShipmentInv
<1>7. GoodsMove'
  BY <1>3, <1>5, RowFacts, GoodsKept DEF ShipmentInv
<1> QED
  BY <1>1, <1>3, <1>4, <1>6, <1>7 DEF ShipmentInv, PrepaidConsumed

LEMMA BookCommitsKeeps ==
  ASSUME ShipmentInv, NEW k \in Consignments, BookCommits(k)
  PROVE  ShipmentInv'
<1>1. /\ k \in booking /\ ship[k] = "none" /\ of[k] \in SubOrders
      /\ parcel[k] # "none" /\ restocks[k] = 0 /\ k \notin cancelling
  BY DEF BookCommits, ShipmentInv, ParcelInv, RowMatchesParcel, TypeOK
<1>2. /\ booking' = booking \ {k}
      /\ ship' = [ship EXCEPT ![k] = "booked"]
      /\ UNCHANGED <<of, cancelling, parcel, reached, resv, restocks, receivable,
                     codPay, delivery, settlement>>
  BY DEF BookCommits, courierVars, cashVars
<1>3. TypeOK'
  BY <1>1, ProgressFacts
  DEF ShipmentInv, BookCommits, TypeOK, cashVars, courierVars
<1>4. ParcelInv'
  <2>1. ASSUME NEW j \in Consignments, j # k
        PROVE  (RowMatchesParcel(j) /\ WayBack(j))'
    BY <1>2, <2>1 DEF ShipmentInv, TypeOK, ParcelInv, RowMatchesParcel, WayBack
  <2>2. ship'[k] = "booked" /\ k \notin booking'
    BY <1>2 DEF ShipmentInv, TypeOK
  <2>3. "booked" \in reached[k]
    BY <1>1 DEF ShipmentInv, ParcelInv, RowMatchesParcel
  <2> QED
    BY <1>1, <1>2, <2>1, <2>2, <2>3
    DEF ShipmentInv, ParcelInv, RowMatchesParcel, WayBack
<1>5. CashBooks'
  BY <1>2, CashKept DEF ShipmentInv
<1>6. GoodsMove'
  BY <1>1, <1>2, RowFacts, GoodsKept DEF ShipmentInv, TypeOK
<1> QED
  BY <1>2, <1>3, <1>4, <1>5, <1>6 DEF ShipmentInv, PrepaidConsumed

\* Only open transactions end; the rows and the parcels stay.
LEMMA FailureKeeps ==
  ASSUME ShipmentInv, NEW k \in Consignments, BookFails(k) \/ CancelFails(k)
  PROVE  ShipmentInv'
<1>1. /\ booking' \subseteq booking /\ cancelling' \subseteq cancelling
      /\ UNCHANGED <<sub, ship, of, parcel, reached, missed, resv, restocks,
                     receivable, codPay, delivery, settlement>>
  BY DEF BookFails, CancelFails, rowVars, courierVars, cashVars
<1>2. TypeOK'
  BY <1>1 DEF ShipmentInv, TypeOK
<1>3. ParcelInv'
  BY <1>1 DEF ShipmentInv, ParcelInv, RowMatchesParcel, WayBack
<1>4. PrepaidConsumed' /\ GoodsMove' /\ CashBooks'
  BY <1>1 DEF ShipmentInv, PrepaidConsumed, GoodsMove, CashBooks, ParcelsOf
<1> QED
  BY <1>2, <1>3, <1>4 DEF ShipmentInv

\* The parcel goes on, and nothing of ours changes but an accepted cancellation.
LEMMA ParcelMoveKeeps ==
  ASSUME ShipmentInv, NEW k \in Consignments, NEW to \in Statuses,
         parcel[k] \in Statuses, of[k] # "none",
         parcel[k] # "delivered",
         parcel[k] = "returning" => to \in {"returning", "returned"},
         parcel[k] \notin {"cancelled", "returned"},
         parcel' = [parcel EXCEPT ![k] = to],
         reached' = [reached EXCEPT ![k] = @ \cup {to}],
         \/ cancelling' = cancelling
         \/ /\ cancelling' = cancelling \cup {k}
            /\ ship[k] # "none"
            /\ to \in {"cancelled", "returning"},
         UNCHANGED <<sub, ship, of, booking, missed, resv, restocks, receivable,
                     codPay, delivery, settlement>>
  PROVE  ShipmentInv'
<1>1. TypeOK'
  BY DEF ShipmentInv, TypeOK
<1>2. "none" \notin Statuses
  BY ProgressFacts
<1>3. ParcelInv'
  <2>1. ASSUME NEW j \in Consignments, j # k
        PROVE  (RowMatchesParcel(j) /\ WayBack(j))'
    BY <2>1 DEF ShipmentInv, TypeOK, ParcelInv, RowMatchesParcel, WayBack
  <2>2. parcel'[k] = to /\ reached'[k] = reached[k] \cup {to}
    BY DEF ShipmentInv, TypeOK
  <2>3. RowMatchesParcel(k)'
    BY <1>2, <2>2 DEF ShipmentInv, ParcelInv, RowMatchesParcel
  <2>4. WayBack(k)'
    BY <1>2, <2>2 DEF ShipmentInv, ParcelInv, WayBack
  <2> QED
    BY <2>1, <2>3, <2>4 DEF ParcelInv
<1>4. \A j \in Consignments : reached[j] \subseteq reached'[j]
  BY DEF ShipmentInv, TypeOK
<1>5. CashBooks'
  BY <1>4, CashKept DEF ShipmentInv
<1>6. GoodsMove'
  BY <1>4, RowFacts, GoodsKept DEF ShipmentInv
<1> QED
  BY <1>1, <1>3, <1>5, <1>6 DEF ShipmentInv, PrepaidConsumed

LEMMA CancelShipmentKeeps ==
  ASSUME ShipmentInv, NEW k \in Consignments, CancelShipment(k)
  PROVE  ShipmentInv'
<1> DEFINE answer == IF parcel[k] = "booked" THEN "cancelled" ELSE "returning"
<1>1. /\ ship[k] # "none" /\ of[k] # "none"
      /\ parcel[k] \in Statuses \ (Terminal \cup {"partial_delivered"})
  BY DEF CancelShipment, ShipmentInv, ParcelInv, RowMatchesParcel, TypeOK
<1>2. answer \in Statuses \cap {"cancelled", "returning"}
      /\ (parcel[k] = "returning" => answer = "returning")
  BY ProgressFacts
<1>3. /\ parcel' = [parcel EXCEPT ![k] = answer]
      /\ reached' = [reached EXCEPT ![k] = @ \cup {answer}]
      /\ cancelling' = cancelling \cup {k}
      /\ UNCHANGED <<sub, ship, of, booking, missed, resv, restocks, receivable,
                     codPay, delivery, settlement>>
  BY DEF CancelShipment, rowVars, cashVars
<1> QED
  BY <1>1, <1>2, <1>3, ParcelMoveKeeps DEF Terminal

LEMMA CourierMovesKeeps ==
  ASSUME ShipmentInv, NEW k \in Consignments, CourierMoves(k)
  PROVE  ShipmentInv'
<1>1. of[k] # "none" /\ parcel[k] \in Statuses
  BY DEF CourierMoves, ShipmentInv, ParcelInv, RowMatchesParcel, TypeOK
<1>2. PICK to \in CourierNext[parcel[k]] :
        /\ parcel' = [parcel EXCEPT ![k] = to]
        /\ reached' = [reached EXCEPT ![k] = @ \cup {to}]
  BY DEF CourierMoves
<1>3. UNCHANGED <<sub, ship, of, booking, cancelling, missed, resv, restocks,
                  receivable, codPay, delivery, settlement>>
  BY DEF CourierMoves, rowVars, openVars, cashVars
<1>4. /\ to \in Statuses /\ parcel[k] \notin Terminal
      /\ parcel[k] = "returning" => to = "returned"
  BY <1>1, CourierFacts
<1> QED
  BY <1>1, <1>2, <1>3, <1>4, ParcelMoveKeeps DEF Terminal

LEMMA CancelCommitsKeeps ==
  ASSUME ShipmentInv, NEW k \in Consignments, CancelCommits(k)
  PROVE  ShipmentInv'
<1>1. ship[k] # "none" /\ of[k] \in SubOrders /\ k \notin booking
  BY DEF CancelCommits, ShipmentInv, ParcelInv, RowMatchesParcel, TypeOK
<1>2. /\ cancelling' = cancelling \ {k}
      /\ ship' = [ship EXCEPT ![k] = "cancelled"]
      /\ UNCHANGED <<of, booking, parcel, reached, resv, restocks, receivable,
                     codPay, delivery, settlement>>
  BY DEF CancelCommits, courierVars, cashVars
<1>3. TypeOK'
  <2>1. "cancelled" \in Statuses
    BY ProgressFacts
  <2> QED
    BY <1>1, <2>1 DEF ShipmentInv, CancelCommits, TypeOK, cashVars, courierVars
<1>4. ParcelInv'
  <2>1. ASSUME NEW j \in Consignments, j # k
        PROVE  (RowMatchesParcel(j) /\ WayBack(j))'
    BY <1>2, <2>1 DEF ShipmentInv, TypeOK, ParcelInv, RowMatchesParcel, WayBack
  <2>2. ship'[k] = "cancelled" /\ k \notin cancelling'
    BY <1>2 DEF ShipmentInv, TypeOK
  <2>3. (RowMatchesParcel(k) /\ WayBack(k))'
    BY <1>1, <1>2, <2>2 DEF ShipmentInv, ParcelInv, RowMatchesParcel, WayBack
  <2> QED
    BY <2>1, <2>3 DEF ParcelInv
<1>5. CashBooks'
  BY <1>2, CashKept DEF ShipmentInv
<1>6. GoodsMove'
  BY <1>1, <1>2, RowFacts, GoodsKept DEF ShipmentInv, TypeOK
<1> QED
  BY <1>2, <1>3, <1>4, <1>5, <1>6 DEF ShipmentInv, PrepaidConsumed

-----------------------------------------------------------------------------
(* Events and statements *)

LEMMA WebhookUnknownKeeps ==
  ASSUME ShipmentInv, NEW k \in Consignments, NEW status \in Statuses,
         WebhookUnknown(k, status)
  PROVE  ShipmentInv'
<1> USE DEF ShipmentInv, WebhookUnknown, rowVars, openVars, courierVars, cashVars
<1>1. TypeOK'
  BY DEF TypeOK
<1>2. ParcelInv' /\ PrepaidConsumed'
  BY DEF ParcelInv, RowMatchesParcel, WayBack, PrepaidConsumed
<1>3. GoodsMove' /\ CashBooks'
  BY DEF GoodsMove, CashBooks, ParcelsOf
<1> QED
  BY <1>1, <1>2, <1>3

\* What an event finds when it is applied: a row that is still open, goods that
\* were not restocked, and, once its reservations are consumed, an order whose
\* stock is off the shelf.
LEMMA EventFacts ==
  ASSUME ShipmentInv, NEW k \in Consignments, NEW status \in reached[k],
         ApplyEvent(k, status)
  PROVE  /\ status \in Statuses \ {"booked"}
         /\ ship[k] \in Statuses \ Terminal
         /\ Progress[status] > Progress[ship[k]]
         /\ of[k] \in SubOrders /\ OrderOf[of[k]] \in Orders
         /\ restocks[k] = 0
         /\ resv' \in [Orders -> {"held", "consumed"}]
         /\ resv'[OrderOf[of[k]]] = "consumed"
         /\ \A o \in Orders : resv[o] = "consumed" => resv'[o] = "consumed"
<1>1. status \in Statuses /\ ship[k] \in Statuses /\ of[k] \in SubOrders
  BY DEF ApplyEvent, ShipmentInv, TypeOK, ParcelInv, RowMatchesParcel
<1>2. ship[k] \notin Terminal /\ Progress[status] > Progress[ship[k]]
  BY <1>1, ProgressFacts DEF ApplyEvent, Stale
<1>3. status # "booked"
  BY <1>1, <1>2, ProgressFacts
<1>4. restocks[k] = 0
  BY <1>2 DEF ShipmentInv, GoodsMove, TypeOK
<1>5. OrderOf[of[k]] \in Orders
  BY <1>1, FulfilmentAssumption DEF FulfilmentAssumption
<1>6. resv' = IF OrderOf[of[k]] \in CodOrders
              THEN [resv EXCEPT ![OrderOf[of[k]]] = "consumed"] ELSE resv
  BY <1>1, <1>3, ProgressFacts DEF ApplyEvent, ConsumeOnPickup
<1>7. resv \in [Orders -> {"held", "consumed"}]
  BY DEF ShipmentInv, TypeOK
<1>8. OrderOf[of[k]] \notin CodOrders => resv[OrderOf[of[k]]] = "consumed"
  BY <1>5 DEF ShipmentInv, PrepaidConsumed
<1> QED
  BY <1>1, <1>2, <1>3, <1>4, <1>5, <1>6, <1>7, <1>8

\* Cash: a delivery is booked once, a parcel that came back cancels what was due.
LEMMA EventCash ==
  ASSUME ShipmentInv, NEW k \in Consignments, NEW status \in reached[k],
         ApplyEvent(k, status)
  PROVE  /\ CashBooks'
         /\ receivable' \in [SubOrders -> {"none", "due", "collected", "settled",
                                           "cancelled"}]
         /\ codPay' \in [Orders -> {"none", "pending", "paid"}]
         /\ delivery' \subseteq SubOrders
<1> DEFINE s == of[k]
<1>1. /\ s \in SubOrders /\ OrderOf[s] \in Orders
      /\ OrderOf \in [SubOrders -> Orders] /\ CodOrders \subseteq Orders
  BY EventFacts, FulfilmentAssumption DEF FulfilmentAssumption
<1>2. /\ receivable \in [SubOrders -> {"none", "due", "collected", "settled",
                                       "cancelled"}]
      /\ codPay \in [Orders -> {"none", "pending", "paid"}]
      /\ delivery \subseteq SubOrders
  BY DEF ShipmentInv, TypeOK
<1>3. UNCHANGED <<of, reached, settlement>>
  BY DEF ApplyEvent, courierVars
<1>4. \A p \in SubOrders : ParcelsOf(p)' = ParcelsOf(p)
  BY <1>3 DEF ParcelsOf
<1>5. CASE status \in Delivered /\ Cod(s) /\ receivable[s] = "due"
  <2>1. /\ receivable' = [receivable EXCEPT ![s] = "collected"]
        /\ codPay' =
             IF \E p \in SubOrders : OrderOf[p] = OrderOf[s] /\ receivable'[p] = "due"
             THEN codPay ELSE [codPay EXCEPT ![OrderOf[s]] = "paid"]
        /\ delivery' = delivery \cup {s}
    BY <1>5 DEF ApplyEvent, CollectCod
  <2>2. /\ receivable'[s] = "collected"
        /\ \A p \in SubOrders \ {s} : receivable'[p] = receivable[p]
    BY <1>1, <1>2, <2>1
  <2>3. k \in ParcelsOf(s) /\ reached[k] \cap Delivered # {}
    BY <1>5 DEF ParcelsOf
  <2>4. ASSUME NEW p \in SubOrders
        PROVE  /\ p \in delivery' =>
                    /\ receivable'[p] \in {"collected", "settled"}
                    /\ \E j \in ParcelsOf(p) : reached[j] \cap Delivered # {}
               /\ receivable'[p] = "collected" => p \in delivery'
               /\ receivable'[p] = "settled" => ParcelsOf(p) \cap settlement # {}
    BY <2>1, <2>2, <2>3 DEF ShipmentInv, CashBooks
  <2>5. ASSUME NEW o \in CodOrders, codPay'[o] = "paid"
        PROVE  /\ \E p \in delivery' : OrderOf[p] = o
               /\ \A p \in SubOrders : OrderOf[p] = o => receivable'[p] # "due"
    <3>1. CASE o = OrderOf[s]
      <4>1. codPay[o] # "paid"
        BY <1>1, <1>5, <3>1 DEF ShipmentInv, CashBooks
      <4>2. \A p \in SubOrders : OrderOf[p] = OrderOf[s] => receivable'[p] # "due"
        BY <2>1, <2>5, <4>1
      <4> QED
        BY <2>1, <3>1, <4>2
    <3>2. CASE o # OrderOf[s]
      <4>1. codPay[o] = "paid"
        BY <1>1, <1>2, <2>1, <2>5, <3>2
      <4> QED
        BY <2>1, <2>2, <3>2, <4>1 DEF ShipmentInv, CashBooks
    <3> QED
      BY <3>1, <3>2
  <2>6. CashBooks'
    BY <1>3, <1>4, <2>4, <2>5 DEF CashBooks
  <2> QED
    BY <1>1, <1>2, <2>1, <2>6
<1>6. CASE ~(status \in Delivered /\ Cod(s) /\ receivable[s] = "due")
  <2>1. /\ receivable' = receivable \/ receivable' = CancelDue(s)
        /\ UNCHANGED <<codPay, delivery>>
    BY <1>6 DEF ApplyEvent
  <2>2. \A p \in SubOrders :
          \/ receivable'[p] = receivable[p]
          \/ receivable[p] = "due" /\ receivable'[p] = "cancelled"
    BY <1>1, <1>2, <2>1 DEF CancelDue
  <2>3. receivable' \in [SubOrders -> {"none", "due", "collected", "settled",
                                       "cancelled"}]
    BY <1>2, <2>1 DEF CancelDue
  <2>4. CashBooks'
    BY <1>3, <1>4, <2>1, <2>2 DEF ShipmentInv, CashBooks
  <2> QED
    BY <1>2, <2>1, <2>3, <2>4
<1> QED
  BY <1>5, <1>6

LEMMA ApplyEventKeeps ==
  ASSUME ShipmentInv, NEW k \in Consignments, NEW status \in reached[k],
         ApplyEvent(k, status)
  PROVE  ShipmentInv'
<1>1. /\ ship' = [ship EXCEPT ![k] = status]
      /\ sub' = [sub EXCEPT ![of[k]] = SubOrderStatus(@, status)]
      /\ UNCHANGED <<of, booking, cancelling, parcel, reached, missed, settlement>>
  BY DEF ApplyEvent, openVars, courierVars
<1>2. /\ status \in Statuses \ {"booked"} /\ ship[k] \in Statuses \ Terminal
      /\ of[k] \in SubOrders /\ restocks[k] = 0
  BY EventFacts
<1>3. restocks' = IF status = "returned"
                  THEN [restocks EXCEPT ![k] = 1] ELSE restocks
  <2>1. resv'[OrderOf[of[k]]] = "consumed"
    BY EventFacts
  <2>2. restocks' = IF status = "returned"
                    THEN [restocks EXCEPT ![k] = @ + 1] ELSE restocks
    BY <2>1 DEF ApplyEvent
  <2> QED
    BY <1>2, <2>2
<1>4. TypeOK'
  <2>1. /\ SubOrderStatus(sub[of[k]], status)
             \in {"confirmed", "processing", "ready_to_ship", "shipped", "delivered",
                  "returned"}
        /\ sub' \in [SubOrders -> {"confirmed", "processing", "ready_to_ship",
                                   "shipped", "delivered", "returned"}]
    BY <1>1, <1>2 DEF SubOrderStatus, ShipmentInv, TypeOK
  <2>2. restocks' \in [Consignments -> Nat] /\ ship' \in [Consignments -> Statuses \cup {"none"}]
    BY <1>1, <1>2, <1>3 DEF ShipmentInv, TypeOK
  <2>3. resv' \in [Orders -> {"held", "consumed"}]
    BY EventFacts
  <2> QED
    BY <1>1, <2>1, <2>2, <2>3, EventCash DEF ShipmentInv, TypeOK
<1>5. ParcelInv'
  <2>1. ASSUME NEW j \in Consignments, j # k
        PROVE  (RowMatchesParcel(j) /\ WayBack(j))'
    BY <1>1, <1>3, <2>1 DEF ShipmentInv, TypeOK, ParcelInv, RowMatchesParcel, WayBack
  <2>2. ship'[k] = status /\ status # "none"
    BY <1>1, <1>2, ProgressFacts DEF ShipmentInv, TypeOK
  <2>3. (RowMatchesParcel(k) /\ WayBack(k))'
    BY <1>1, <1>2, <2>2, ProgressFacts
    DEF ShipmentInv, ParcelInv, RowMatchesParcel, WayBack
  <2> QED
    BY <2>1, <2>3 DEF ParcelInv
<1>6. PrepaidConsumed'
  BY EventFacts DEF ShipmentInv, PrepaidConsumed
<1>7. GoodsMove'
  <2>1. ASSUME NEW j \in Consignments, j # k
        PROVE  /\ ship'[j] = ship[j] /\ restocks'[j] = restocks[j]
               /\ ship[j] # "none" => OrderOf[of[j]] \in Orders
    BY <1>1, <1>3, <2>1, RowFacts, FulfilmentAssumption
    DEF FulfilmentAssumption, ShipmentInv, TypeOK
  <2>2. \A o \in Orders : resv[o] = "consumed" => resv'[o] = "consumed"
    BY EventFacts
  <2>3. /\ ship'[k] = status /\ resv'[OrderOf[of[k]]] = "consumed"
        /\ restocks'[k] = IF status = "returned" THEN 1 ELSE 0
    BY <1>1, <1>2, <1>3, EventFacts DEF ShipmentInv, TypeOK
  <2>4. "none" \notin Statuses
    BY ProgressFacts
  <2> QED
    BY <1>1, <2>1, <2>2, <2>3, <2>4 DEF ShipmentInv, GoodsMove, Terminal
<1> QED
  BY <1>4, <1>5, <1>6, <1>7, EventCash DEF ShipmentInv

LEMMA ImportSettlementKeeps ==
  ASSUME ShipmentInv, NEW k \in Consignments, ImportSettlement(k)
  PROVE  ShipmentInv'
<1>1. /\ settlement' = settlement \cup {k}
      /\ receivable' = [receivable EXCEPT ![of[k]] = SettledStatus(of[k])]
      /\ UNCHANGED <<sub, ship, of, booking, cancelling, parcel, reached, missed,
                     resv, restocks, codPay, delivery>>
  BY DEF ImportSettlement, rowVars, openVars, courierVars
<1>2. of[k] \in SubOrders
  BY RowFacts DEF ImportSettlement
<1>3. TypeOK'
  BY <1>1, <1>2 DEF ShipmentInv, TypeOK, SettledStatus
<1>4. ParcelInv' /\ PrepaidConsumed' /\ GoodsMove'
  BY <1>1 DEF ShipmentInv, ParcelInv, RowMatchesParcel, WayBack, PrepaidConsumed,
              GoodsMove
<1>5. CashBooks'
  <2>1. \A p \in SubOrders :
          \/ receivable'[p] = receivable[p]
          \/ /\ p = of[k] /\ receivable'[p] = "settled"
             /\ receivable[p] \in {"collected", "due"}
    BY <1>1, <1>2 DEF ShipmentInv, TypeOK, SettledStatus
  <2>2. k \in ParcelsOf(of[k]) /\ k \in settlement'
    BY <1>1 DEF ParcelsOf
  <2>3. \A p \in SubOrders : ParcelsOf(p)' = ParcelsOf(p)
    BY <1>1 DEF ParcelsOf
  <2>4. settlement \subseteq settlement'
    BY <1>1
  <2> QED
    BY <1>1, <2>1, <2>2, <2>3, <2>4 DEF ShipmentInv, CashBooks
<1> QED
  BY <1>3, <1>4, <1>5 DEF ShipmentInv

\* Polling reports a state the parcel has reached, as a webhook does.
LEMMA PollIsEvent ==
  ASSUME ShipmentInv, NEW k \in Consignments, PollOpen(k)
  PROVE  parcel[k] \in reached[k] /\ ApplyEvent(k, parcel[k])
  BY DEF PollOpen, ApplyEvent, ShipmentInv, ParcelInv, RowMatchesParcel

LEMMA StepKeeps == ShipmentInv /\ [Next]_vars => ShipmentInv'
<1> SUFFICES ASSUME ShipmentInv, [Next]_vars
             PROVE  ShipmentInv'
  OBVIOUS
<1>1. ASSUME NEW s \in SubOrders, MarkReady(s)
      PROVE  ShipmentInv'
  BY <1>1, MarkReadyKeeps
<1>2. ASSUME NEW k \in Consignments, ParcelStep(k)
      PROVE  ShipmentInv'
  <2>1. ASSUME NEW s \in SubOrders, BookShipment(s, k)
        PROVE  ShipmentInv'
    BY <2>1, BookShipmentKeeps
  <2>2. CASE BookCommits(k)
    BY <2>2, BookCommitsKeeps
  <2>3. CASE BookFails(k) \/ CancelFails(k)
    BY <2>3, FailureKeeps
  <2>4. CASE CancelShipment(k)
    BY <2>4, CancelShipmentKeeps
  <2>5. CASE CancelCommits(k)
    BY <2>5, CancelCommitsKeeps
  <2>6. CASE CourierMoves(k)
    BY <2>6, CourierMovesKeeps
  <2>7. ASSUME NEW status \in Statuses, WebhookUnknown(k, status)
        PROVE  ShipmentInv'
    BY <2>7, WebhookUnknownKeeps
  <2>8. ASSUME NEW status \in Statuses, Webhook(k, status)
        PROVE  ShipmentInv'
    BY <2>8, ApplyEventKeeps DEF Webhook
  <2>9. CASE PollOpen(k)
    BY <2>9, PollIsEvent, ApplyEventKeeps
  <2>10. CASE ImportSettlement(k)
    BY <2>10, ImportSettlementKeeps
  <2> QED
    BY <1>2, <2>1, <2>2, <2>3, <2>4, <2>5, <2>6, <2>7, <2>8, <2>9, <2>10
    DEF ParcelStep
<1>3. CASE UNCHANGED vars
  <2> USE <1>3 DEF ShipmentInv, vars, rowVars, openVars, courierVars, cashVars
  <2>1. TypeOK'
    BY DEF TypeOK
  <2>2. ParcelInv' /\ PrepaidConsumed'
    BY DEF ParcelInv, RowMatchesParcel, WayBack, PrepaidConsumed
  <2>3. GoodsMove' /\ CashBooks'
    BY DEF GoodsMove, CashBooks, ParcelsOf
  <2> QED
    BY <2>1, <2>2, <2>3
<1> QED
  BY <1>1, <1>2, <1>3 DEF Next

-----------------------------------------------------------------------------
(* Theorems *)

\* The invariant that carries the properties of fulfilment: a shipment's row,
\* its open booking or cancellation, the courier's parcel, the order's stock
\* and its cash agree after every booking, event, poll and statement.
THEOREM ShipmentHolds == Spec => []ShipmentInv
<1>1. Init => ShipmentInv
  BY InitHolds
<1>2. ShipmentInv /\ [Next]_vars => ShipmentInv'
  BY StepKeeps
<1> QED
  BY <1>1, <1>2, PTL DEF Spec

\* However often and in whatever order the courier reports a parcel, it takes the
\* order's stock off the shelf, and a return puts it back exactly once.
THEOREM GoodsMoveHolds == Spec => []GoodsMove
<1>1. ShipmentInv => GoodsMove
  BY DEF ShipmentInv
<1> QED
  BY <1>1, ShipmentHolds, PTL

\* Cash on delivery and the ledger agree: what is collected was handed over and
\* is owed to the vendor, and a cash order is paid only when nothing is due.
THEOREM CashBooksHolds == Spec => []CashBooks
<1>1. ShipmentInv => CashBooks
  BY DEF ShipmentInv
<1> QED
  BY <1>1, ShipmentHolds, PTL

\* Cash books and the types of all rows, as the run checks them.
THEOREM ParcelBooksHolds == Spec => []ParcelBooks
<1>1. ShipmentInv => ParcelBooks
  BY DEF ShipmentInv, ParcelBooks
<1> QED
  BY <1>1, ShipmentHolds, PTL

\* Every step moves a shipment forward; a cancellation never reaches one that was
\* delivered, for a courier that accepted it does not hand the parcel over.
LEMMA StepForward == ShipmentInv /\ [Next]_vars => [MovesForward]_vars
<1> SUFFICES ASSUME ShipmentInv, [Next]_vars, NEW k \in Consignments,
                    ship[k] # "none"
             PROVE  /\ ship'[k] # "none"
                    /\ Progress[ship'[k]] >= Progress[ship[k]]
                    /\ ship[k] = "delivered" => ship'[k] = "delivered"
  BY DEF MovesForward
<1>1. ship[k] \in Statuses /\ "none" \notin Statuses
  BY ProgressFacts DEF ShipmentInv, TypeOK
<1>2. ship \in [Consignments -> Statuses \cup {"none"}]
  BY DEF ShipmentInv, TypeOK
<1>3. CASE ship' = ship
  BY <1>1, <1>3, ProgressFacts
<1>4. ASSUME NEW j \in Consignments, BookCommits(j)
      PROVE  ship'[k] = ship[k]
  <2>1. ship[j] = "none"
    BY <1>4 DEF BookCommits, ShipmentInv, ParcelInv, RowMatchesParcel
  <2> QED
    BY <1>2, <1>4, <2>1 DEF BookCommits
<1>5. ASSUME NEW j \in Consignments, CancelCommits(j)
      PROVE  \/ ship'[k] = ship[k]
             \/ /\ ship'[k] = "cancelled"
                /\ ship[k] # "delivered"
  <2>1. ship[j] # "delivered"
    BY <1>5, ProgressFacts
    DEF CancelCommits, ShipmentInv, ParcelInv, RowMatchesParcel, WayBack
  <2>2. ship' = [ship EXCEPT ![j] = "cancelled"]
    BY <1>5 DEF CancelCommits
  <2>3. CASE j = k
    BY <1>2, <2>1, <2>2, <2>3
  <2>4. CASE j # k
    BY <1>2, <2>2, <2>4
  <2> QED
    BY <2>3, <2>4
<1>6. ASSUME NEW j \in Consignments, NEW status \in reached[j], ApplyEvent(j, status)
      PROVE  /\ ship'[k] \in Statuses
             /\ Progress[ship'[k]] >= Progress[ship[k]]
             /\ ship[k] = "delivered" => ship'[k] = "delivered"
  <2>1. /\ ship' = [ship EXCEPT ![j] = status]
        /\ status \in Statuses /\ ship[j] \notin Terminal
        /\ Progress[status] > Progress[ship[j]]
    BY <1>6, EventFacts DEF ApplyEvent
  <2>2. CASE j = k
    BY <1>1, <1>2, <2>1, <2>2, ProgressFacts DEF Terminal
  <2>3. CASE j # k
    BY <1>1, <1>2, <2>1, <2>3, ProgressFacts
  <2> QED
    BY <2>2, <2>3
<1>7. \/ ship' = ship
      \/ \E j \in Consignments : BookCommits(j) \/ CancelCommits(j)
      \/ \E j \in Consignments : \E status \in reached[j] : ApplyEvent(j, status)
  <2>1. ASSUME NEW j \in Consignments, ParcelStep(j),
               ~(BookCommits(j) \/ CancelCommits(j))
        PROVE  ship' = ship \/ \E status \in reached[j] : ApplyEvent(j, status)
    BY <2>1, PollIsEvent
    DEF ParcelStep, BookShipment, BookFails, CancelShipment, CancelFails,
        CourierMoves, WebhookUnknown, Webhook, ImportSettlement, rowVars
  <2>2. ASSUME NEW s \in SubOrders, MarkReady(s)
        PROVE  ship' = ship
    BY <2>2 DEF MarkReady
  <2> QED
    BY <2>1, <2>2 DEF Next, vars, rowVars
<1> QED
  BY <1>1, <1>3, <1>4, <1>5, <1>6, <1>7, ProgressFacts

\* However webhooks, polls and cancellations cross, no shipment goes back in the
\* order of PROGRESS and a delivered one stays delivered.
THEOREM ForwardOnlyHolds == Spec => ForwardOnly
<1>1. ShipmentInv /\ [Next]_vars => [MovesForward]_vars
  BY StepForward
<1> QED
  BY <1>1, ShipmentHolds, PTL DEF Spec, ForwardOnly
=============================================================================
