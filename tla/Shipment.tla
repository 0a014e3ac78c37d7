------------------------------ MODULE Shipment ------------------------------
(***************************************************************************)
(* Fulfilment of confirmed orders: apps/api/app/modules/fulfilment of one  *)
(* tenant, with the cash-on-delivery half of payments and the stock moves  *)
(* a parcel causes.  Booking and cancelling keep a transaction open across *)
(* a call to the courier and are a begin and a commit; every other action  *)
(* is one transaction.                                                     *)
(*                                                                         *)
(* The courier is outside the program.  It walks a parcel through its own  *)
(* states, sends webhooks about any state the parcel has been in, in any   *)
(* order, repeatedly or never, and answers polls with the current one.     *)
(* The goods of a sub-order are one unit.                                  *)
(*                                                                         *)
(* Name_slip next to a definition Name is a plausible mistake in the code  *)
(* that Name models; a check of the project substitutes it for Name.       *)
(***************************************************************************)
EXTENDS Integers

CONSTANTS
  Orders,        \* orders confirmed by checkout
  SubOrders,     \* one per order and vendor
  OrderOf,       \* [SubOrders -> Orders]
  CodOrders,     \* orders paid on delivery; the others are paid already
  Consignments   \* courier consignment ids, each names one parcel

ASSUME FulfilmentAssumption ==
  /\ "none" \notin SubOrders
  /\ OrderOf \in [SubOrders -> Orders]
  /\ CodOrders \subseteq Orders

\* STATUSES in the order of PROGRESS.
Progress ==
  [booked |-> 0, picked_up |-> 1, in_transit |-> 2, out_for_delivery |-> 3,
   delivered |-> 4, partial_delivered |-> 5, failed_attempt |-> 6,
   returning |-> 7, returned |-> 8, cancelled |-> 9]
Statuses == DOMAIN Progress
Terminal == {"delivered", "returned", "cancelled"}
Delivered == {"delivered", "partial_delivered"}

\* SUB_ORDER_STATUS; a cancelled parcel leaves the sub-order alone.
SubOrderStatus(current, status) ==
  CASE status = "booked" -> "ready_to_ship"
    [] status \in Delivered -> "delivered"
    [] status = "returned" -> "returned"
    [] status = "cancelled" -> current
    [] OTHER -> "shipped"

Bookable == {"confirmed", "processing", "ready_to_ship"}

\* Where the courier may take a parcel next.
CourierNext ==
  [booked |-> {"picked_up", "cancelled"},
   picked_up |-> {"in_transit"},
   in_transit |-> {"out_for_delivery"},
   out_for_delivery |-> {"delivered", "partial_delivered", "failed_attempt"},
   failed_attempt |-> {"delivered", "returning"},
   partial_delivered |-> {"returning"},
   returning |-> {"returned"},
   delivered |-> {}, returned |-> {}, cancelled |-> {}]

VARIABLES
  sub,         \* sub_orders.status
  ship,        \* shipments.status, "none" before the booking commits
  of,          \* the sub-order a consignment was booked for
  booking,     \* consignments whose booking transaction is open
  cancelling,  \* consignments whose cancellation the courier accepted, uncommitted
  parcel,      \* the courier's own state of the parcel
  reached,     \* every state the parcel has been in
  missed,      \* shipment_events stored for a consignment we did not know yet
  resv,        \* the order's stock_reservations: held or consumed
  restocks,    \* 'return' inventory movements a consignment caused
  receivable,  \* cod_receivables.status of the sub-order
  codPay,      \* payments.status of the order's cod payment
  delivery,    \* sub-orders with a cod_delivery ledger group
  settlement   \* consignments with a cod_settlement ledger group

courierVars == <<parcel, reached>>
rowVars == <<sub, ship, of>>
openVars == <<booking, cancelling>>
cashVars == <<receivable, codPay, delivery>>
vars == <<rowVars, openVars, courierVars, missed, resv, restocks, cashVars,
          settlement>>

Cod(s) == OrderOf[s] \in CodOrders
ParcelsOf(s) == {k \in Consignments : of[k] = s}

Init ==
  /\ sub = [s \in SubOrders |-> "confirmed"]
  /\ ship = [k \in Consignments |-> "none"]
  /\ of = [k \in Consignments |-> "none"]
  /\ booking = {}
  /\ cancelling = {}
  /\ parcel = [k \in Consignments |-> "none"]
  /\ reached = [k \in Consignments |-> {}]
  /\ missed = {}
  /\ resv = [o \in Orders |-> IF o \in CodOrders THEN "held" ELSE "consumed"]
  /\ restocks = [k \in Consignments |-> 0]
  /\ receivable = [s \in SubOrders |-> IF Cod(s) THEN "due" ELSE "none"]
  /\ codPay = [o \in Orders |-> IF o \in CodOrders THEN "pending" ELSE "none"]
  /\ delivery = {}
  /\ settlement = {}

-----------------------------------------------------------------------------
(* The vendor *)

MarkReady(s) ==
  /\ sub[s] = "confirmed"
  /\ sub' = [sub EXCEPT ![s] = "processing"]
  /\ UNCHANGED <<ship, of, openVars, courierVars, missed, resv, restocks,
                 cashVars, settlement>>

\* book_shipment up to the courier's answer: the state of the sub-order and
\* its shipments are read without a lock, then the parcel exists at the courier.
BookShipment(s, k) ==
  /\ parcel[k] = "none"
  /\ sub[s] \in Bookable
  /\ \A j \in ParcelsOf(s) : ship[j] \in {"none", "cancelled"}
  /\ parcel' = [parcel EXCEPT ![k] = "booked"]
  /\ reached' = [reached EXCEPT ![k] = {"booked"}]
  /\ of' = [of EXCEPT ![k] = s]
  /\ booking' = booking \cup {k}
  /\ UNCHANGED <<sub, ship, cancelling, missed, resv, restocks, cashVars,
                 settlement>>

\* The shipment row and the sub-order's status are written.
BookCommits(k) ==
  /\ k \in booking
  /\ booking' = booking \ {k}
  /\ ship' = [ship EXCEPT ![k] = "booked"]
  /\ sub' = [sub EXCEPT ![of[k]] = "ready_to_ship"]
  /\ UNCHANGED <<of, cancelling, courierVars, missed, resv, restocks, cashVars,
                 settlement>>

\* The transaction is lost after the courier booked: its parcel has no row.
BookFails(k) ==
  /\ k \in booking
  /\ booking' = booking \ {k}
  /\ UNCHANGED <<rowVars, cancelling, courierVars, missed, resv, restocks,
                 cashVars, settlement>>

\* cancel_shipment up to the courier's answer.  A courier that accepts drops a
\* parcel it has not collected and turns back one that is on its way.
CancelShipment(k) ==
  /\ ship[k] \notin {"none"} \cup Terminal
  /\ k \notin cancelling
  /\ parcel[k] \notin Terminal \cup {"partial_delivered"}
  /\ LET answer == IF parcel[k] = "booked" THEN "cancelled" ELSE "returning" IN
       /\ parcel' = [parcel EXCEPT ![k] = answer]
       /\ reached' = [reached EXCEPT ![k] = @ \cup {answer}]
  /\ cancelling' = cancelling \cup {k}
  /\ UNCHANGED <<rowVars, booking, missed, resv, restocks, cashVars, settlement>>

\* The row becomes cancelled, whatever webhooks made of it meanwhile, and a
\* sub-order that was ready to ship goes back to the vendor.
CancelCommits(k) ==
  /\ k \in cancelling
  /\ cancelling' = cancelling \ {k}
  /\ ship' = [ship EXCEPT ![k] = "cancelled"]
  /\ sub' = [sub EXCEPT ![of[k]] = IF @ = "ready_to_ship" THEN "processing" ELSE @]
  /\ UNCHANGED <<of, booking, courierVars, missed, resv, restocks, cashVars,
                 settlement>>

CancelFails(k) ==
  /\ k \in cancelling
  /\ cancelling' = cancelling \ {k}
  /\ UNCHANGED <<rowVars, booking, courierVars, missed, resv, restocks,
                 cashVars, settlement>>

-----------------------------------------------------------------------------
(* The courier *)

\* The goods exist once: the vendor hands them to one parcel at a time.
GoodsAtVendor(s) ==
  \A k \in ParcelsOf(s) : parcel[k] \in {"booked", "cancelled", "returned"}

\* Bound: while a booking waits for its commit the parcel is at most collected
\* or dropped.  A parcel whose booking was lost is never handed over.
CourierMoves(k) ==
  /\ \/ ship[k] # "none"
     \/ k \in booking /\ parcel[k] = "booked"
  /\ \E status \in CourierNext[parcel[k]] :
       /\ status = "picked_up" => GoodsAtVendor(of[k])
       /\ parcel' = [parcel EXCEPT ![k] = status]
       /\ reached' = [reached EXCEPT ![k] = @ \cup {status}]
  /\ UNCHANGED <<rowVars, openVars, missed, resv, restocks, cashVars, settlement>>

-----------------------------------------------------------------------------
(* apply_event *)

\* An event that would not move the shipment forward is stored and forgotten.
Stale_unordered(current, status) == current \in Terminal
Stale(current, status) ==
  current \in Terminal \/ Progress[status] <= Progress[current]

\* consume_reservations: the goods of the whole order are off the shelf once
\* the courier has one of its parcels.
ConsumeOnPickup_exact(o, status) ==
  IF o \in CodOrders /\ status = "picked_up"
  THEN [resv EXCEPT ![o] = "consumed"] ELSE resv
ConsumeOnPickup(o, status) ==
  IF o \in CodOrders /\ Progress[status] >= Progress["picked_up"]
  THEN [resv EXCEPT ![o] = "consumed"] ELSE resv

\* collect_cod: the receivable is collected, the cod payment is paid when no
\* other shipment of the order is due, the ledger owes the vendor.
CollectCod(s) ==
  /\ receivable' = [receivable EXCEPT ![s] = "collected"]
  /\ codPay' =
       IF \E p \in SubOrders : OrderOf[p] = OrderOf[s] /\ receivable'[p] = "due"
       THEN codPay ELSE [codPay EXCEPT ![OrderOf[s]] = "paid"]
  /\ delivery' = delivery \cup {s}

\* _restock cancels what was due for a parcel that came back.
CancelDue_any(s) == [receivable EXCEPT ![s] = "cancelled"]
CancelDue(s) ==
  IF receivable[s] = "due" THEN [receivable EXCEPT ![s] = "cancelled"]
                           ELSE receivable

ApplyEvent(k, status) ==
  LET s == of[k]
      collects == status \in Delivered /\ Cod(s) /\ receivable[s] = "due"
      comesBack == status = "returned" /\ resv'[OrderOf[s]] = "consumed"
  IN
  /\ ship[k] # "none"
  /\ ~Stale(ship[k], status)
  /\ ship' = [ship EXCEPT ![k] = status]
  /\ sub' = [sub EXCEPT ![s] = SubOrderStatus(@, status)]
  /\ resv' = ConsumeOnPickup(OrderOf[s], status)
  /\ IF collects
     THEN CollectCod(s)
     ELSE /\ receivable' = IF comesBack THEN CancelDue(s) ELSE receivable
          /\ UNCHANGED <<codPay, delivery>>
  /\ restocks' = IF comesBack THEN [restocks EXCEPT ![k] = @ + 1] ELSE restocks
  /\ UNCHANGED <<of, openVars, courierVars, missed, settlement>>

\* A webhook for a consignment whose booking is not committed is stored as
\* unknown; sent again under its event id it is a duplicate.
WebhookUnknown(k, status) ==
  /\ k \in booking
  /\ status \in reached[k]
  /\ missed' = missed \cup {<<k, status>>}
  /\ UNCHANGED <<rowVars, openVars, courierVars, resv, restocks, cashVars,
                 settlement>>

Webhook(k, status) ==
  /\ status \in reached[k]
  /\ <<k, status>> \notin missed
  /\ ApplyEvent(k, status)

\* poll_open_shipments asks the courier about every parcel that is not terminal.
PollOpen_uncollected(k) == ship[k] = "booked" /\ ApplyEvent(k, parcel[k])
PollOpen(k) == ship[k] \notin Terminal /\ ApplyEvent(k, parcel[k])

-----------------------------------------------------------------------------
(* import_settlement *)

\* A statement line that matches: the courier collected the cash and remits it.
\* One import is the sequence of its lines.
SettledStatus(s) ==
  IF receivable[s] \in {"collected", "due"} THEN "settled" ELSE receivable[s]

ImportSettlement(k) ==
  /\ ship[k] # "none"
  /\ Cod(of[k])
  /\ reached[k] \cap Delivered # {}
  /\ settlement' = settlement \cup {k}
  /\ receivable' = [receivable EXCEPT ![of[k]] = SettledStatus(of[k])]
  /\ UNCHANGED <<rowVars, openVars, courierVars, missed, resv, restocks, codPay,
                 delivery>>

-----------------------------------------------------------------------------
ParcelStep(k) ==
  \/ \E s \in SubOrders : BookShipment(s, k)
  \/ BookCommits(k)
  \/ BookFails(k)
  \/ CancelShipment(k)
  \/ CancelCommits(k)
  \/ CancelFails(k)
  \/ CourierMoves(k)
  \/ \E status \in Statuses : WebhookUnknown(k, status) \/ Webhook(k, status)
  \/ PollOpen(k)
  \/ ImportSettlement(k)

Next ==
  \/ \E s \in SubOrders : MarkReady(s)
  \/ \E k \in Consignments : ParcelStep(k)

Spec == Init /\ [][Next]_vars

\* The worker runs courier_sweep again and again and an open transaction ends.
\* The courier, its webhooks and the vendor owe nothing.
Fairness ==
  \A k \in Consignments :
    /\ WF_vars(PollOpen(k))
    /\ WF_vars(BookCommits(k) \/ BookFails(k))
    /\ WF_vars(CancelCommits(k) \/ CancelFails(k))

FairSpec == Spec /\ Fairness

-----------------------------------------------------------------------------
(* Properties *)

TypeOK ==
  /\ sub \in [SubOrders -> {"confirmed", "processing", "ready_to_ship", "shipped",
                            "delivered", "returned"}]
  /\ ship \in [Consignments -> Statuses \cup {"none"}]
  /\ of \in [Consignments -> SubOrders \cup {"none"}]
  /\ booking \subseteq Consignments
  /\ cancelling \subseteq Consignments
  /\ parcel \in [Consignments -> Statuses \cup {"none"}]
  /\ reached \in [Consignments -> SUBSET Statuses]
  /\ missed \subseteq Consignments \X Statuses
  /\ resv \in [Orders -> {"held", "consumed"}]
  /\ restocks \in [Consignments -> Nat]
  /\ receivable \in [SubOrders -> {"none", "due", "collected", "settled", "cancelled"}]
  /\ codPay \in [Orders -> {"none", "pending", "paid"}]
  /\ delivery \subseteq SubOrders
  /\ settlement \subseteq Consignments

MovesForward ==
  \A k \in Consignments :
    ship[k] # "none" =>
      /\ ship'[k] # "none"
      /\ Progress[ship'[k]] >= Progress[ship[k]]
      /\ ship[k] = "delivered" => ship'[k] = "delivered"

\* However webhooks, polls and a cancellation by the vendor cross, a shipment
\* never goes back, and a delivered one stays delivered.
ForwardOnly == [][MovesForward]_vars

\* Goods and stock: a parcel under way has taken its order's stock off the
\* shelf, and one that came back has put it there again exactly once, however
\* often and by whatever way the courier says so.
GoodsMove ==
  \A k \in Consignments :
    /\ ship[k] \in Statuses \ {"booked", "cancelled"} =>
         resv[OrderOf[of[k]]] = "consumed"
    /\ ship[k] = "returned" => restocks[k] = 1
    /\ restocks[k] > 0 => /\ restocks[k] = 1
                          /\ "returned" \in reached[k]
                          /\ ship[k] \in Terminal

\* Cash and books: the vendor is owed the money of a COD shipment when and only
\* when some parcel of it was handed over for cash; what is due, cancelled or
\* prepaid is not in the ledger, and the order's payment is paid only when
\* nothing of it is due.
CashBooks ==
  /\ \A s \in SubOrders :
       /\ s \in delivery => /\ receivable[s] \in {"collected", "settled"}
                            /\ \E k \in ParcelsOf(s) : reached[k] \cap Delivered # {}
       /\ receivable[s] = "collected" => s \in delivery
       /\ receivable[s] = "settled" => ParcelsOf(s) \cap settlement # {}
  /\ \A o \in CodOrders :
       codPay[o] = "paid" =>
         /\ \E s \in delivery : OrderOf[s] = o
         /\ \A s \in SubOrders : OrderOf[s] = o => receivable[s] # "due"

\* A parcel that is back at the vendor is closed here even if no webhook comes.
ReturnArrives ==
  \A k \in Consignments :
    (ship[k] # "none" /\ parcel[k] = "returned") ~> ship[k] \in Terminal

-----------------------------------------------------------------------------
(* What the documentation says and the code does not do *)

\* A parcel the courier delivered is delivered here, at the latest by polling.
DeliveryArrives ==
  \A k \in Consignments :
    (ship[k] # "none" /\ parcel[k] = "delivered") ~> ship[k] = "delivered"

\* What cash on delivery is owed, collected and booked agrees (CashBooks), in rows
\* that webhooks, polls, bookings and imports keep well formed (TypeOK).
ParcelBooks == TypeOK /\ CashBooks
=============================================================================
