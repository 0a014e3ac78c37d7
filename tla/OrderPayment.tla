---------------------------- MODULE OrderPayment ----------------------------
(***************************************************************************)
(* Checkout and payment of orders: apps/api/app/modules/checkout and       *)
(* apps/api/app/modules/payments of one tenant.  An action is what one     *)
(* database transaction does between two points at which other             *)
(* transactions can run.  place_order, start_payment and settle keep a     *)
(* transaction open across a lock wait or a gateway call and are therefore *)
(* two steps, a begin and a commit (or rollback); the rows they lock in    *)
(* between are `placing', `starting' and `settling'.                       *)
(*                                                                         *)
(* All sub-orders of an order change status together here (place_order,    *)
(* release_order and confirm_paid_order update every one of them), so an   *)
(* order carries the common status of its sub-orders.                      *)
(*                                                                         *)
(* Name_slip next to a definition Name is a plausible mistake in the code  *)
(* that Name models; a check of the project substitutes it for Name.       *)
(***************************************************************************)
EXTENDS Integers, FiniteSetsExt

CONSTANTS
  Orders,         \* the Idempotency-Keys buyers place orders under
  Variants,       \* product variants with a stock record
  Buyers,         \* signed-in users, owners of store credit
  Buyer,          \* [Orders -> Buyers]
  Method,         \* [Orders -> {"cod", "bkash", "sslcommerz"}]
  Qty,            \* [Orders -> [Variants -> Nat]]: the cart
  Total,          \* [Orders -> Nat]: grand_total
  CouponOrders,   \* orders whose cart carries the coupon
  SaleQty,        \* [Orders -> Nat]: units bought at the campaign price
  MaxAttempts,    \* bound on the start_payment calls of an order
  Stock0,         \* [Variants -> Nat]: stock_on_hand at the start
  MaxStock,       \* bound on stock_on_hand under staff adjustments
  Credit0,        \* [Buyers -> Nat]: store credit balance at the start
  UsageLimit,     \* coupons.usage_limit
  PerBuyerLimit,  \* coupons.per_buyer_limit
  SaleCap         \* campaign_products.stock_cap

Methods == {"cod", "bkash", "sslcommerz"}

ASSUME ConstantsAssumption ==
  /\ IsFiniteSet(Orders)
  /\ Buyer \in [Orders -> Buyers]
  /\ Method \in [Orders -> Methods]
  /\ Qty \in [Orders -> [Variants -> Nat]]
  /\ Total \in [Orders -> Nat \ {0}]
  /\ CouponOrders \subseteq Orders
  /\ SaleQty \in [Orders -> Nat]
  /\ MaxAttempts \in Nat \ {0}
  /\ Stock0 \in [Variants -> Nat]
  /\ Credit0 \in [Buyers -> Nat]
  /\ UsageLimit \in Nat
  /\ PerBuyerLimit \in Nat
  /\ SaleCap \in Nat

\* Rows of `payments' and sessions at the provider, numbered per order.
Attempts == 1 .. MaxAttempts

Open == {"pending"}
PayStatus == {"none", "pending", "paid", "failed", "cancelled"}

\* A gateway session as the provider sees it.  bKash holds an authorised
\* payment until the merchant executes it; SSLCommerz charges on its page.
PageStatus == {"none", "open", "authorised", "captured", "short", "failed"}

\* What an open settle transaction holds: the answer it got, the provider_ref
\* it will leave on the row and the webhook event it will store (0: none).
Idle == [answer |-> "none", ref |-> 0, event |-> 0]
Answers == {"pending", "failed", "mismatch", "paid"}
InFlight == [answer: Answers \cup {"none"}, ref: 0 .. MaxAttempts, event: 0 .. MaxAttempts]

VARIABLES
  order,       \* common sub_orders.status of the order, "none" before placement
  due,         \* payment_due_at: NULL, in the future or past
  resv,        \* the order's stock_reservations rows
  onHand,      \* product_variants.stock_on_hand
  reserved,    \* product_variants.stock_reserved
  adjusted,    \* sum of the staff inventory movements of a variant
  used,        \* coupons.used_count
  redeemed,    \* orders with a coupon_redemptions row
  sold,        \* campaign_products.sold_count
  credit,      \* store_credit_accounts.balance
  creditPaid,  \* amount of the order's store_credit payment, 0 without one
  pay,         \* payments.status of each gateway (or COD) attempt
  payRef,      \* payments.provider_ref: the session it verifies, 0 unknown
  amount,      \* payments.amount
  page,        \* the provider's side of each session
  events,      \* payment_events: <<order, session>> of each stored callback
  receivable,  \* cod_receivables.status
  ledger,      \* orders whose capture group is posted
  placing,     \* orders whose placement holds its variant rows
  seen,        \* redemptions visible to a placement's coupon query
  starting,    \* orders whose start_payment transaction is open
  superseded,  \* the open attempts such a transaction has cancelled
  settling     \* open settle transactions, per payment row

stockVars == <<onHand, reserved, adjusted>>
promoVars == <<used, redeemed, sold>>
creditVars == <<credit, creditPaid>>
payVars == <<pay, payRef, amount>>
placeVars == <<placing, seen>>
startVars == <<starting, superseded>>
vars == <<order, due, resv, stockVars, promoVars, creditVars, payVars, page,
          events, receivable, ledger, placeVars, startVars, settling>>

Prepaid(o) == Method[o] # "cod"
Paid(o) == {n \in Attempts : pay[o][n] = "paid"}
OpenAttempts(o) == {n \in Attempts : pay[o][n] \in Open}
SharesVariant(o, p) == \E v \in Variants : Qty[o][v] > 0 /\ Qty[p][v] > 0

\* _paid_payment: a gateway capture stands on the order; store credit is none.
AlreadyPaid_byStatus(o) == order[o] = "confirmed"
AlreadyPaid(o) == Paid(o) # {}

\* No other placement holds FOR UPDATE locks on the variants of order o.
VariantsFree(o) == \A p \in placing \ {o} : ~SharesVariant(o, p)

\* The payments row is not locked by another settle or by a start_payment
\* that superseded it.
RowFree(o, n) ==
  /\ settling[o][n] = Idle
  /\ n \notin superseded[o]

Init ==
  /\ order = [o \in Orders |-> "none"]
  /\ due = [o \in Orders |-> "null"]
  /\ resv = [o \in Orders |-> "none"]
  /\ onHand = Stock0
  /\ reserved = [v \in Variants |-> 0]
  /\ adjusted = [v \in Variants |-> 0]
  /\ used = 0
  /\ redeemed = {}
  /\ sold = 0
  /\ credit = Credit0
  /\ creditPaid = [o \in Orders |-> 0]
  /\ pay = [o \in Orders |-> [n \in Attempts |-> "none"]]
  /\ payRef = [o \in Orders |-> [n \in Attempts |-> 0]]
  /\ amount = [o \in Orders |-> [n \in Attempts |-> 0]]
  /\ page = [o \in Orders |-> [n \in Attempts |-> "none"]]
  /\ events = {}
  /\ receivable = [o \in Orders |-> "none"]
  /\ ledger = {}
  /\ placing = {}
  /\ seen = [o \in Orders |-> {}]
  /\ starting = {}
  /\ superseded = [o \in Orders |-> {}]
  /\ settling = [o \in Orders |-> [n \in Attempts |-> Idle]]

-----------------------------------------------------------------------------
(* Stock movements *)

\* The cart fits into what is on hand and not reserved.
InStock_onHand(o) == \A v \in Variants : onHand[v] >= Qty[o][v]
InStock(o) == \A v \in Variants : onHand[v] - reserved[v] >= Qty[o][v]

\* consume_reservations: held rows become consumed, on hand and reserved drop.
ConsumeReservations(o) ==
  IF resv[o] = "held"
  THEN /\ VariantsFree(o)
       /\ resv' = [resv EXCEPT ![o] = "consumed"]
       /\ onHand' = [v \in Variants |-> onHand[v] - Qty[o][v]]
       /\ reserved' = [v \in Variants |-> reserved[v] - Qty[o][v]]
  ELSE UNCHANGED <<resv, onHand, reserved>>

\* Staff or vendor corrects the stock on hand; never below what is reserved.
AdjustStock(v) ==
  /\ \A p \in placing : Qty[p][v] = 0
  /\ \E delta \in {-1, 1} :
       /\ onHand[v] + delta \in reserved[v] .. MaxStock
       /\ onHand' = [onHand EXCEPT ![v] = @ + delta]
       /\ adjusted' = [adjusted EXCEPT ![v] = @ + delta]
  /\ UNCHANGED <<order, due, resv, reserved, promoVars, creditVars, payVars,
                 page, events, receivable, ledger, placeVars, startVars,
                 settling>>

-----------------------------------------------------------------------------
(* place_order *)

\* Store credit applied at checkout: as much as the wallet holds.
Applied(o) ==
  IF credit[Buyer[o]] < Total[o] THEN credit[Buyer[o]] ELSE Total[o]

\* credit.spend: the balance row is locked and lowered by the amount.
Spend(b, spent) == [credit EXCEPT ![b] = @ - spent]

CouponLeft(o) ==
  /\ used < UsageLimit
  /\ Cardinality({p \in seen[o] : Buyer[p] = Buyer[o]}) < PerBuyerLimit

\* build_quote under lock: the variant rows are taken, then the coupon query
\* counts the buyer's redemptions.  Its snapshot is the moment it starts, and
\* it may still wait for the coupon row; a placement that holds the coupon
\* commits in between without being counted.
QuoteWithCoupon(o) ==
  /\ o \in CouponOrders \ placing
  /\ order[o] = "none"
  /\ InStock(o)
  /\ VariantsFree(o)
  /\ placing' = placing \cup {o}
  /\ seen' = [seen EXCEPT ![o] = redeemed]
  /\ UNCHANGED <<order, due, resv, stockVars, promoVars, creditVars, payVars,
                 page, events, receivable, ledger, startVars, settling>>

\* A placement that raises CheckoutError after it locked: nothing is kept.
PlaceFails(o) ==
  /\ o \in placing
  /\ placing' = placing \ {o}
  /\ seen' = [seen EXCEPT ![o] = {}]
  /\ UNCHANGED <<order, due, resv, stockVars, promoVars, creditVars, payVars,
                 page, events, receivable, ledger, startVars, settling>>

\* The rest of place_order and its commit.  Without a coupon nothing runs
\* between the variant locks and the commit that another transaction can see,
\* so the whole placement is this step.  A placed Idempotency-Key answers with
\* the order it already has and changes nothing.
PlaceOrder(o, useCredit) ==
  LET b == Buyer[o]
      applied == IF useCredit THEN Applied(o) ELSE 0
      covered == applied = Total[o]
  IN
  /\ order[o] = "none"
  /\ IF o \in CouponOrders THEN o \in placing /\ CouponLeft(o)
                           ELSE InStock(o) /\ VariantsFree(o)
  /\ sold + SaleQty[o] <= SaleCap
  /\ useCredit => Prepaid(o)
  /\ order' = [order EXCEPT ![o] =
                 IF covered \/ ~Prepaid(o) THEN "confirmed" ELSE "pending_payment"]
  /\ due' = [due EXCEPT ![o] =
               IF covered \/ ~Prepaid(o) THEN "null" ELSE "open"]
  /\ resv' = [resv EXCEPT ![o] = IF covered THEN "consumed" ELSE "held"]
  /\ IF covered
     THEN /\ onHand' = [v \in Variants |-> onHand[v] - Qty[o][v]]
          /\ UNCHANGED reserved
     ELSE /\ reserved' = [v \in Variants |-> reserved[v] + Qty[o][v]]
          /\ UNCHANGED onHand
  /\ used' = IF o \in CouponOrders THEN used + 1 ELSE used
  /\ redeemed' = IF o \in CouponOrders THEN redeemed \cup {o} ELSE redeemed
  /\ sold' = sold + SaleQty[o]
  /\ credit' = IF applied > 0 THEN Spend(b, applied) ELSE credit
  /\ creditPaid' = [creditPaid EXCEPT ![o] = applied]
  /\ ledger' = IF covered THEN ledger \cup {o} ELSE ledger
  /\ IF Prepaid(o)
     THEN UNCHANGED <<pay, amount, receivable>>
     ELSE /\ pay' = [pay EXCEPT ![o][1] = "pending"]
          /\ amount' = [amount EXCEPT ![o][1] = Total[o]]
          /\ receivable' = [receivable EXCEPT ![o] = "due"]
  /\ placing' = placing \ {o}
  /\ seen' = [seen EXCEPT ![o] = {}]
  /\ UNCHANGED <<adjusted, payRef, page, events, startVars, settling>>

-----------------------------------------------------------------------------
(* Expiry *)

\* Time passes payment_due_at.
WindowCloses(o) ==
  /\ due[o] = "open"
  /\ due' = [due EXCEPT ![o] = "past"]
  /\ UNCHANGED <<order, resv, stockVars, promoVars, creditVars, payVars, page,
                 events, receivable, ledger, placeVars, startVars, settling>>

\* The orders expire_unpaid selects.
Overdue_cancelled == {o \in Orders : order[o] # "none" /\ due[o] = "past"}
Overdue_untried ==
  {o \in Orders : /\ order[o] = "pending_payment"
                  /\ due[o] = "past"
                  /\ OpenAttempts(o) = {}}
Overdue == {o \in Orders : order[o] = "pending_payment" /\ due[o] = "past"}

\* release_order of one order: cancelled, its held stock, campaign units and
\* coupon use given back.  The store credit payment stays as it is.
ReleaseOrder(o) ==
  /\ order' = [order EXCEPT ![o] = "cancelled"]
  /\ IF resv[o] = "held"
     THEN /\ resv' = [resv EXCEPT ![o] = "released"]
          /\ reserved' = [v \in Variants |-> reserved[v] - Qty[o][v]]
     ELSE UNCHANGED <<resv, reserved>>
  /\ sold' = sold - SaleQty[o]
  /\ used' = IF o \in CouponOrders THEN used - 1 ELSE used
  /\ redeemed' = redeemed \ {o}

\* expire_unpaid: the cron job releases the overdue orders.  It runs them in
\* one transaction; each release locks only rows of its own order and stock,
\* so the sweep is the sequence of these steps.
ExpireUnpaid(o) ==
  /\ o \in Overdue
  /\ VariantsFree(o)
  /\ ReleaseOrder(o)
  /\ UNCHANGED <<due, onHand, adjusted, creditVars, payVars, page, events,
                 receivable, ledger, placeVars, startVars, settling>>

-----------------------------------------------------------------------------
(* start_payment *)

\* The order row is locked and every check passed; the open attempts are
\* superseded inside the transaction, then the gateway is asked for a session.
StartPayment(o) ==
  /\ Prepaid(o)
  /\ o \notin starting
  /\ ~AlreadyPaid(o)
  /\ Total[o] - creditPaid[o] > 0
  /\ order[o] = "pending_payment"
  /\ due[o] # "past"
  /\ pay[o][MaxAttempts] = "none"
  /\ \A n \in OpenAttempts(o) : RowFree(o, n)
  /\ starting' = starting \cup {o}
  /\ superseded' = [superseded EXCEPT ![o] = OpenAttempts(o)]
  /\ UNCHANGED <<order, due, resv, stockVars, promoVars, creditVars, payVars,
                 page, events, receivable, ledger, placeVars, settling>>

\* The row start_payment inserts: max(attempt) + 1.
NextAttempt(o) ==
  CHOOSE n \in Attempts :
    /\ pay[o][n] = "none"
    /\ \A m \in 1 .. n - 1 : pay[o][m] # "none"

\* bKash returns the paymentID to verify; an SSLCommerz session key is known
\* to no validation call, so the row's reference leads nowhere yet.
StartCommits(o) ==
  LET n == NextAttempt(o) IN
  /\ o \in starting
  /\ starting' = starting \ {o}
  /\ superseded' = [superseded EXCEPT ![o] = {}]
  /\ pay' = [pay EXCEPT ![o] =
               [m \in Attempts |-> IF m = n THEN "pending"
                                      ELSE IF m \in superseded[o] THEN "cancelled"
                                      ELSE pay[o][m]]]
  /\ payRef' = [payRef EXCEPT ![o][n] = IF Method[o] = "bkash" THEN n ELSE 0]
  /\ amount' = [amount EXCEPT ![o][n] = Total[o] - creditPaid[o]]
  /\ page' = [page EXCEPT ![o][n] = "open"]
  /\ UNCHANGED <<order, due, resv, stockVars, promoVars, creditVars, events,
                 receivable, ledger, placeVars, settling>>

\* GatewayError, or the process dies: rolled back, no session reaches the buyer.
StartFails(o) ==
  /\ o \in starting
  /\ starting' = starting \ {o}
  /\ superseded' = [superseded EXCEPT ![o] = {}]
  /\ UNCHANGED <<order, due, resv, stockVars, promoVars, creditVars, payVars,
                 page, events, receivable, ledger, placeVars, settling>>

\* The buyer at the provider's page, which knows nothing of our order: she may
\* pay an old session, a superseded one or one whose order has expired.
BuyerActs(o, n) ==
  /\ page[o][n] = "open"
  /\ \E outcome \in IF Method[o] = "bkash" THEN {"authorised", "failed"}
                                           ELSE {"captured", "short", "failed"} :
       page' = [page EXCEPT ![o][n] = outcome]
  /\ UNCHANGED <<order, due, resv, stockVars, promoVars, creditVars, payVars,
                 events, receivable, ledger, placeVars, startVars, settling>>

-----------------------------------------------------------------------------
(* settle *)

\* What the adapter and the amount check make of the provider's record.
Verdict_anyAmount(status) ==
  CASE status \in {"captured", "short"} -> "paid"
    [] status = "failed" -> "failed"
    [] OTHER -> "pending"
Verdict(status) ==
  CASE status = "captured" -> "paid"
    [] status = "short" -> "mismatch"
    [] status = "failed" -> "failed"
    [] OTHER -> "pending"

\* gateway.verify of session r of order o.  bKash executes an authorised
\* payment here, which is when the buyer is charged; the provider may charge
\* another amount than the one asked for.  An answer without a known status
\* counts as failed, even when the execute call before it went through.
GatewayAnswers(o, r, answer) ==
  IF r = 0
  THEN answer = "pending" /\ UNCHANGED page
  ELSE \/ /\ page[o][r] = "authorised"
          /\ \/ answer = "paid" /\ page' = [page EXCEPT ![o][r] = "captured"]
             \/ answer = "mismatch" /\ page' = [page EXCEPT ![o][r] = "short"]
             \/ answer = "failed" /\ page' = [page EXCEPT ![o][r] = "captured"]
       \/ page[o][r] # "authorised" /\ answer = Verdict(page[o][r]) /\ UNCHANGED page
       \/ answer = "failed" /\ UNCHANGED page

\* settle up to the provider's answer: the payment row is locked and not yet
\* paid; r is the reference it verifies, e the webhook event it will store.
BeginSettle(o, n, r, e) ==
  /\ Prepaid(o)
  /\ pay[o][n] \notin {"none", "paid"}
  /\ RowFree(o, n)
  /\ \E answer \in Answers :
       /\ GatewayAnswers(o, r, answer)
       /\ settling' = [settling EXCEPT ![o][n] =
                         [answer |-> answer, ref |-> r, event |-> e]]
  /\ UNCHANGED <<order, due, resv, stockVars, promoVars, creditVars, payVars,
                 events, receivable, ledger, placeVars, startVars>>

\* The buyer's return page confirms any attempt of hers.
Confirm(o, n) == BeginSettle(o, n, payRef[o][n], 0)

\* reconcile_pending re-verifies the attempts that are still pending.
Reconcile_live(o, n) ==
  /\ order[o] = "pending_payment"
  /\ pay[o][n] = "pending"
  /\ BeginSettle(o, n, payRef[o][n], 0)
Reconcile(o, n) == pay[o][n] = "pending" /\ BeginSettle(o, n, payRef[o][n], 0)

\* The row a callback about session m belongs to (payment_for_callback): the
\* one that carries its reference, else, for an SSLCommerz val_id, the open
\* attempt of the order, which takes the reference over.  With two open rows
\* the UPDATE breaks UNIQUE (tenant, provider, provider_ref) and the request
\* fails as a whole.
CallbackRows(o, m) ==
  LET known == {n \in Attempts : payRef[o][n] = m}
  IN  IF known # {} THEN known
      ELSE IF Method[o] = "sslcommerz" THEN OpenAttempts(o) ELSE {}

\* The provider sends callbacks about a session the buyer finished, as often
\* as it likes; SSLCommerz has a val_id only for a charge.
CallbackSent(o, m) ==
  page[o][m] \in IF Method[o] = "bkash"
                 THEN {"authorised", "captured", "short", "failed"}
                 ELSE {"captured", "short"}

\* provider_webhook with a fresh event for a payable row.
WebhookSettles(o, m, n) ==
  /\ CallbackSent(o, m)
  /\ <<o, m>> \notin events
  /\ \A k \in Attempts : settling[o][k].event # m
  /\ CallbackRows(o, m) = {n}
  /\ BeginSettle(o, n, m, m)

\* provider_webhook that stores the event and settles nothing: no row of ours,
\* a row already paid, or bKash refusing the token ("retry_later").
WebhookStores(o, m) ==
  /\ CallbackSent(o, m)
  /\ <<o, m>> \notin events
  /\ \A k \in Attempts : settling[o][k].event # m
  /\ \/ CallbackRows(o, m) = {}
     \/ \E n \in Attempts :
          /\ CallbackRows(o, m) = {n}
          /\ RowFree(o, n)
          /\ pay[o][n] = "paid" \/ Method[o] = "bkash"
  /\ events' = events \cup {<<o, m>>}
  /\ UNCHANGED <<order, due, resv, stockVars, promoVars, creditVars, payVars,
                 page, receivable, ledger, placeVars, startVars, settling>>

\* A replayed callback: answered "duplicate", but payment_for_callback ran
\* first and an unmatched reference has been written to the open attempt.
WebhookReplay(o, m, n) ==
  /\ <<o, m>> \in events
  /\ CallbackRows(o, m) = {n}
  /\ RowFree(o, n)
  /\ payRef[o][n] # m
  /\ payRef' = [payRef EXCEPT ![o][n] = m]
  /\ UNCHANGED <<order, due, resv, stockVars, promoVars, creditVars, pay,
                 amount, page, events, receivable, ledger, placeVars, startVars,
                 settling>>

\* What every committed settle writes besides the status.
FinishSettle(o, n) ==
  /\ settling' = [settling EXCEPT ![o][n] = Idle]
  /\ payRef' = [payRef EXCEPT ![o][n] = settling[o][n].ref]
  /\ events' = IF settling[o][n].event = 0 THEN events
               ELSE events \cup {<<o, settling[o][n].event>>}
  /\ UNCHANGED <<amount, page, receivable, adjusted, promoVars, creditVars,
                 placeVars, startVars>>

\* Anything but a matching paid answer: the row takes the provider's status.
SettleUnpaid(o, n) ==
  LET answer == settling[o][n].answer IN
  /\ answer \in {"pending", "failed", "mismatch"}
  /\ pay' = [pay EXCEPT ![o][n] = IF answer = "pending" THEN "pending" ELSE "failed"]
  /\ FinishSettle(o, n)
  /\ UNCHANGED <<order, due, resv, onHand, reserved, ledger>>

\* Paid, but another gateway payment of the order was first.
SettleDuplicate(o, n) ==
  /\ settling[o][n].answer = "paid"
  /\ o \notin starting
  /\ AlreadyPaid(o)
  /\ pay' = [pay EXCEPT ![o][n] = "cancelled"]
  /\ FinishSettle(o, n)
  /\ UNCHANGED <<order, due, resv, onHand, reserved, ledger>>

\* confirm_paid_order moves the sub-orders that wait for payment, no others.
ConfirmedStatus_all(o) == "confirmed"
ConfirmedStatus(o) == IF order[o] = "pending_payment" THEN "confirmed" ELSE order[o]

\* post_capture books the sub-orders that are live, once.
PostCapture_all(o, status) == ledger \cup {o}
PostCapture(o, status) ==
  IF status = "confirmed" THEN ledger \cup {o} ELSE ledger

\* Paid: the order row is locked, and when nothing is due any more
\* confirm_paid_order runs.  It confirms the sub-orders that still wait for
\* payment, consumes the reservations that are still held and posts the
\* capture of the sub-orders that are live.
SettlePaid(o, n) ==
  LET confirms == Total[o] - creditPaid[o] - amount[o][n] <= 0
      status == IF confirms THEN ConfirmedStatus(o) ELSE order[o]
  IN
  /\ settling[o][n].answer = "paid"
  /\ o \notin starting
  /\ ~AlreadyPaid(o)
  /\ pay' = [pay EXCEPT ![o][n] = "paid"]
  /\ order' = [order EXCEPT ![o] = status]
  /\ IF confirms
     THEN /\ ConsumeReservations(o)
          /\ due' = [due EXCEPT ![o] = "null"]
          /\ ledger' = PostCapture(o, status)
     ELSE UNCHANGED <<resv, onHand, reserved, due, ledger>>
  /\ FinishSettle(o, n)

\* Deadlock victim, lost connection, crash: the transaction is rolled back
\* with its webhook event; what the provider did stays done.
SettleRollsBack(o, n) ==
  /\ settling[o][n] # Idle
  /\ settling' = [settling EXCEPT ![o][n] = Idle]
  /\ UNCHANGED <<order, due, resv, stockVars, promoVars, creditVars, payVars,
                 page, events, receivable, ledger, placeVars, startVars>>

SettleCommits(o, n) ==
  SettleUnpaid(o, n) \/ SettleDuplicate(o, n) \/ SettlePaid(o, n)

-----------------------------------------------------------------------------
(* Cash on delivery, driven by courier events (Shipment) *)

\* A COD parcel at or past picked_up consumes the order's reservations.
CodPickedUp(o) ==
  /\ ~Prepaid(o)
  /\ order[o] = "confirmed"
  /\ resv[o] = "held"
  /\ ConsumeReservations(o)
  /\ UNCHANGED <<order, due, adjusted, promoVars, creditVars, payVars, page, events,
                 receivable, ledger, placeVars, startVars, settling>>

\* collect_cod: the courier delivered and holds the cash.
CodDelivered(o) ==
  /\ ~Prepaid(o)
  /\ order[o] = "confirmed"
  /\ receivable[o] = "due"
  /\ ConsumeReservations(o)
  /\ receivable' = [receivable EXCEPT ![o] = "collected"]
  /\ pay' = [pay EXCEPT ![o][1] = "paid"]
  /\ ledger' = ledger \cup {o}
  /\ UNCHANGED <<order, due, adjusted, promoVars, creditVars, payRef, amount, page,
                 events, placeVars, startVars, settling>>

-----------------------------------------------------------------------------
PaymentStep(o, n) ==
  \/ BuyerActs(o, n)
  \/ Confirm(o, n)
  \/ Reconcile(o, n)
  \/ WebhookStores(o, n)
  \/ \E m \in Attempts : WebhookSettles(o, m, n) \/ WebhookReplay(o, m, n)
  \/ SettleUnpaid(o, n)
  \/ SettleDuplicate(o, n)
  \/ SettlePaid(o, n)
  \/ SettleRollsBack(o, n)

OrderStep(o) ==
  \/ QuoteWithCoupon(o)
  \/ PlaceFails(o)
  \/ \E useCredit \in BOOLEAN : PlaceOrder(o, useCredit)
  \/ WindowCloses(o)
  \/ ExpireUnpaid(o)
  \/ StartPayment(o)
  \/ StartCommits(o)
  \/ StartFails(o)
  \/ CodPickedUp(o)
  \/ CodDelivered(o)
  \/ \E n \in Attempts : PaymentStep(o, n)

Next ==
  \/ \E o \in Orders : OrderStep(o)
  \/ \E v \in Variants : AdjustStock(v)

Spec == Init /\ [][Next]_vars

\* Fairness of the scheduler and of nothing else: time passes, the worker runs
\* expire_unpaid and reconcile_pending again and again, a transaction that was
\* opened ends, and one that is retried for ever is not the deadlock victim
\* every time.  Buyers, providers' callbacks, couriers and staff owe nothing.
Fairness ==
  /\ \A o \in Orders :
       /\ WF_vars(WindowCloses(o))
       /\ SF_vars(ExpireUnpaid(o))
       /\ WF_vars(StartCommits(o) \/ StartFails(o))
       /\ WF_vars(PlaceFails(o))
       /\ \A n \in Attempts :
            /\ SF_vars(Reconcile(o, n))
            /\ SF_vars(SettleCommits(o, n))
            /\ WF_vars(SettleCommits(o, n) \/ SettleRollsBack(o, n))

FairSpec == Spec /\ Fairness

-----------------------------------------------------------------------------
(* Properties *)

TypeOK ==
  /\ order \in [Orders -> {"none", "pending_payment", "confirmed", "cancelled"}]
  /\ due \in [Orders -> {"null", "open", "past"}]
  /\ resv \in [Orders -> {"none", "held", "released", "consumed"}]
  /\ onHand \in [Variants -> Int]
  /\ reserved \in [Variants -> Int]
  /\ adjusted \in [Variants -> Int]
  /\ used \in Int
  /\ redeemed \subseteq Orders
  /\ sold \in Int
  /\ credit \in [Buyers -> Nat]
  /\ creditPaid \in [Orders -> Nat]
  /\ pay \in [Orders -> [Attempts -> PayStatus]]
  /\ payRef \in [Orders -> [Attempts -> 0 .. MaxAttempts]]
  /\ amount \in [Orders -> [Attempts -> Int]]
  /\ page \in [Orders -> [Attempts -> PageStatus]]
  /\ events \subseteq Orders \X Attempts
  /\ receivable \in [Orders -> {"none", "due", "collected"}]
  /\ ledger \subseteq Orders
  /\ placing \subseteq Orders
  /\ seen \in [Orders -> SUBSET Orders]
  /\ starting \subseteq Orders
  /\ superseded \in [Orders -> SUBSET Attempts]
  /\ settling \in [Orders -> [Attempts -> InFlight]]

Live(o) == order[o] \in {"pending_payment", "confirmed"}

\* Whatever races between placement, expiry, settlement and the courier, the
\* reserved count of a variant is exactly what open reservations hold, the
\* stock on hand is what came in less what orders consumed, and a shelf is
\* never promised twice (the table's CHECKs, which would abort the request).
StockBooks ==
  \A v \in Variants :
    LET units(state) == SumFunctionOnSet([o \in Orders |-> Qty[o][v]],
                                         {o \in Orders : resv[o] = state})
    IN  /\ reserved[v] = units("held")
        /\ onHand[v] = Stock0[v] + adjusted[v] - units("consumed")
        /\ reserved[v] \in 0 .. onHand[v]

\* The coupon's and the campaign's counters are the uses of live orders and
\* stay within their limits: an expired order gives its use back exactly once.
PromoBooks ==
  /\ used = Cardinality({o \in CouponOrders : Live(o)})
  /\ redeemed = {o \in CouponOrders : Live(o)}
  /\ sold = SumFunctionOnSet(SaleQty, {o \in Orders : Live(o)})
  /\ used \in 0 .. UsageLimit
  /\ sold \in 0 .. SaleCap

\* Store credit is neither minted nor lost: what left a wallet stands on that
\* buyer's orders as payment, however many checkouts spend from it.
CreditBooks ==
  \A b \in Buyers :
    credit[b] + SumFunctionOnSet(creditPaid, {o \in Orders : Buyer[o] = b}) = Credit0[b]

\* "A second paid payment for one order is impossible even under a race":
\* two attempts may both be captured, but only one row of an order is paid.
OnePaidAttempt ==
  \A o \in Orders : \A m, n \in Paid(o) : m = n

\* Verify first: a prepaid row is paid only when the provider holds the money
\* of the session it references, and it asked for all the buyer still owed.
PaidIsCaptured ==
  \A o \in Orders : \A n \in Paid(o) :
    Prepaid(o) => /\ payRef[o][n] # 0
                  /\ page[o][payRef[o][n]] = "captured"
                  /\ creditPaid[o] + amount[o][n] = Total[o]

\* A prepaid order is confirmed exactly when it is paid in full while it still
\* waited, and then its stock is sold and its capture posted; a cancelled
\* order holds no stock and has no capture.
ConfirmedIsPaid ==
  \A o \in Orders : Prepaid(o) =>
    /\ order[o] = "confirmed" => Paid(o) # {} \/ creditPaid[o] = Total[o]
    /\ order[o] = "pending_payment" => Paid(o) = {} /\ creditPaid[o] < Total[o]
    /\ order[o] = "confirmed" <=> resv[o] = "consumed"
    /\ order[o] = "confirmed" <=> o \in ledger
    /\ order[o] = "cancelled" <=> resv[o] = "released"

\* A step may leave these alone and nothing else.
StaysFinal ==
  \A o \in Orders :
    /\ order[o] \in {"confirmed", "cancelled"} => order'[o] = order[o]
    /\ resv[o] \in {"consumed", "released"} => resv'[o] = resv[o]
    /\ \A n \in Paid(o) : pay'[o][n] = "paid"

\* Confirmed and cancelled are final, a paid row stays paid and stock leaves
\* the shelf once: no late callback, replay or sweep takes any of it back.
Finality == [][StaysFinal]_vars

\* No prepaid order sits on stock for ever: it is sold or given back.
HeldStockResolves ==
  \A o \in Orders :
    (Prepaid(o) /\ resv[o] = "held") ~> resv[o] \in {"consumed", "released"}

\* A bKash payment the buyer authorised does not stay pending: reconciliation
\* executes it even when the callback never comes.
AuthorisedIsExecuted ==
  \A o \in Orders : \A n \in Attempts :
    (Method[o] = "bkash" /\ pay[o][n] = "pending" /\ page[o][n] = "authorised")
      ~> (pay[o][n] # "pending")

\* The rows of checkout and payment as one promise per order.
Stage(status) ==
  CASE status = "none" -> "none"
    [] status = "pending_payment" -> "waiting"
    [] status = "confirmed" -> "promised"
    [] OTHER -> "released"
PromiseState == [o \in Orders |-> Stage(order[o])]
FreeStock == [v \in Variants |-> onHand[v] - reserved[v]]
PaidInFull == {o \in Orders : AlreadyPaid(o) \/ creditPaid[o] = Total[o]}

Promise == INSTANCE OrderPromise
  WITH free <- FreeStock, state <- PromiseState, paid <- PaidInFull

\* Locks, attempts, sessions, callbacks and the sweep together look like that:
\* goods leave the free stock when the order is placed, all or nothing, and
\* come back at most once.
KeepsPromise == Promise!Spec

-----------------------------------------------------------------------------
(* What the documentation says and the code does not do *)

\* Money and stock agree: an order whose payment is paid has its stock.
PaidHasStock ==
  \A o \in Orders : Prepaid(o) /\ Paid(o) # {} => resv[o] = "consumed"

\* The books of checkout: every counter a placement moves agrees with the orders that
\* moved it - shelf, reservations and movements; campaign units and coupon uses; the
\* wallets - through every expiry, cancellation and race.
Books == TypeOK /\ StockBooks /\ PromoBooks /\ CreditBooks
=============================================================================
