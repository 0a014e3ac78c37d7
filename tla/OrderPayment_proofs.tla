------------------------ MODULE OrderPayment_proofs ------------------------
(***************************************************************************)
(* Theorems about OrderPayment for every number of orders, variants,       *)
(* buyers and attempts: types, the safety of payments, the shelf, the      *)
(* promise of OrderPromise and the books.                                  *)
(***************************************************************************)
EXTENDS OrderPayment, Sums_proofs, TLAPS

-----------------------------------------------------------------------------
(* Types *)

LEMMA InitType == Init => TypeOK
  BY ConstantsAssumption
  DEF ConstantsAssumption, Init, TypeOK, PayStatus, PageStatus, InFlight, Idle,
      Attempts

\* Quantities and stock counts are integers.
LEMMA StockTypes ==
  ASSUME TypeOK, NEW o \in Orders, NEW v \in Variants
  PROVE  Qty[o][v] \in Nat /\ onHand[v] \in Int /\ reserved[v] \in Int
<1>1. Qty[o][v] \in Nat
  BY ConstantsAssumption DEF ConstantsAssumption
<1>2. onHand \in [Variants -> Int] /\ reserved \in [Variants -> Int]
  BY DEF TypeOK
<1> QED
  BY <1>1, <1>2

LEMMA MoneyTypes ==
  ASSUME TypeOK, NEW o \in Orders
  PROVE  /\ Total[o] \in Nat \ {0}
         /\ creditPaid[o] \in Nat
         /\ Buyer[o] \in Buyers
         /\ credit[Buyer[o]] \in Nat
<1>1. Total[o] \in Nat \ {0} /\ Buyer[o] \in Buyers
  BY ConstantsAssumption DEF ConstantsAssumption
<1> QED
  BY <1>1 DEF TypeOK

LEMMA ShelfTypes ==
  ASSUME TypeOK, NEW o \in Orders
  PROVE  /\ [v \in Variants |-> onHand[v] - Qty[o][v]] \in [Variants -> Int]
         /\ [v \in Variants |-> reserved[v] - Qty[o][v]] \in [Variants -> Int]
         /\ [v \in Variants |-> reserved[v] + Qty[o][v]] \in [Variants -> Int]
<1>1. \A v \in Variants : Qty[o][v] \in Int /\ onHand[v] \in Int /\ reserved[v] \in Int
  BY StockTypes
<1> QED
  BY <1>1

LEMMA NextAttemptIsAttempt ==
  ASSUME TypeOK, NEW o \in Orders, pay[o][MaxAttempts] = "none",
         NEW k \in 0 .. MaxAttempts,
         \A n \in Attempts : pay[o][n] # "none" <=> n <= k
  PROVE  /\ NextAttempt(o) = k + 1
         /\ NextAttempt(o) \in Attempts
         /\ pay[o][NextAttempt(o)] = "none"
<1>1. k + 1 \in Attempts
  BY ConstantsAssumption DEF ConstantsAssumption, Attempts
<1>2. /\ pay[o][k + 1] = "none"
      /\ \A m \in 1 .. (k + 1) - 1 : pay[o][m] # "none"
  BY <1>1, ConstantsAssumption DEF ConstantsAssumption, Attempts
<1>3. ASSUME NEW n \in Attempts, pay[o][n] = "none",
             \A m \in 1 .. n - 1 : pay[o][m] # "none"
      PROVE  n = k + 1
  BY <1>2, <1>3, <1>1 DEF Attempts
<1> QED
  BY <1>1, <1>2, <1>3 DEF NextAttempt

\* Writing one column of one payment row keeps the type of the column.
LEMMA RowUpdateType ==
  ASSUME NEW S, NEW f \in [Orders -> [Attempts -> S]],
         NEW o \in Orders, NEW n, NEW x \in S
  PROVE  [f EXCEPT ![o][n] = x] \in [Orders -> [Attempts -> S]]
<1>1. [f[o] EXCEPT ![n] = x] \in [Attempts -> S]
  OBVIOUS
<1> QED
  BY <1>1

LEMMA ConsumeType ==
  ASSUME TypeOK, NEW o \in Orders, ConsumeReservations(o)
  PROVE  /\ resv' \in [Orders -> {"none", "held", "released", "consumed"}]
         /\ onHand' \in [Variants -> Int]
         /\ reserved' \in [Variants -> Int]
<1>1. CASE resv[o] = "held"
  <2>1. /\ resv' = [resv EXCEPT ![o] = "consumed"]
        /\ onHand' = [v \in Variants |-> onHand[v] - Qty[o][v]]
        /\ reserved' = [v \in Variants |-> reserved[v] - Qty[o][v]]
    BY <1>1 DEF ConsumeReservations
  <2> QED
    BY <2>1, ShelfTypes DEF TypeOK
<1>2. CASE resv[o] # "held"
  BY <1>2 DEF TypeOK, ConsumeReservations
<1> QED
  BY <1>1, <1>2

LEMMA BeginSettleType ==
  ASSUME TypeOK, NEW o \in Orders, NEW n \in Attempts, NEW r \in 0 .. MaxAttempts,
         NEW e \in 0 .. MaxAttempts, BeginSettle(o, n, r, e)
  PROVE  TypeOK'
<1>1. page' \in [Orders -> [Attempts -> PageStatus]]
  <2>1. PICK answer \in Answers : GatewayAnswers(o, r, answer)
    BY DEF BeginSettle
  <2>2. r = 0 \/ r \in Attempts
    BY ConstantsAssumption DEF ConstantsAssumption, Attempts
  <2>3. \/ UNCHANGED page
        \/ \E status \in PageStatus : page' = [page EXCEPT ![o][r] = status]
    BY <2>1 DEF GatewayAnswers, PageStatus
  <2>4. page \in [Orders -> [Attempts -> PageStatus]]
    BY DEF TypeOK
  <2>5. ASSUME NEW status \in PageStatus
        PROVE  [page EXCEPT ![o][r] = status] \in [Orders -> [Attempts -> PageStatus]]
    BY <2>4, RowUpdateType, Zenon
  <2> QED
    BY <2>3, <2>4, <2>5, Zenon
<1>2. settling' \in [Orders -> [Attempts -> InFlight]]
  BY DEF BeginSettle, TypeOK, InFlight
<1> QED
  BY <1>1, <1>2 DEF BeginSettle, TypeOK, stockVars, promoVars, creditVars, payVars,
     placeVars, startVars

LEMMA FinishSettleType ==
  ASSUME TypeOK, NEW o \in Orders, NEW n \in Attempts, FinishSettle(o, n)
  PROVE  /\ settling' \in [Orders -> [Attempts -> InFlight]]
         /\ payRef' \in [Orders -> [Attempts -> 0 .. MaxAttempts]]
         /\ events' \subseteq Orders \X Attempts
<1>1. settling[o][n] \in InFlight
  BY DEF TypeOK
<1>2. settling' \in [Orders -> [Attempts -> InFlight]]
  BY ConstantsAssumption DEF ConstantsAssumption, FinishSettle, TypeOK, InFlight, Idle
<1>3. payRef' \in [Orders -> [Attempts -> 0 .. MaxAttempts]]
  BY <1>1 DEF FinishSettle, TypeOK, InFlight
<1>4. events' \subseteq Orders \X Attempts
  BY <1>1 DEF FinishSettle, TypeOK, InFlight, Attempts
<1> QED
  BY <1>2, <1>3, <1>4

LEMMA PlaceOrderType ==
  ASSUME TypeOK, NEW o \in Orders, NEW useCredit \in BOOLEAN, PlaceOrder(o, useCredit)
  PROVE  TypeOK'
<1> DEFINE applied == IF useCredit THEN Applied(o) ELSE 0
<1>1. /\ Buyer[o] \in Buyers
      /\ Total[o] \in Nat \ {0}
      /\ SaleQty[o] \in Nat
      /\ credit[Buyer[o]] \in Nat
      /\ \A v \in Variants : Qty[o][v] \in Nat
      /\ 1 \in Attempts
  BY ConstantsAssumption DEF ConstantsAssumption, TypeOK, Attempts
<1>2. /\ applied \in Nat
      /\ applied <= credit[Buyer[o]]
  BY <1>1 DEF Applied
<1>3. credit' \in [Buyers -> Nat] /\ creditPaid' \in [Orders -> Nat]
  <2>1. /\ credit \in [Buyers -> Nat]
        /\ creditPaid \in [Orders -> Nat]
    BY DEF TypeOK
  <2>2. /\ \/ UNCHANGED credit
           \/ credit' = [credit EXCEPT ![Buyer[o]] = @ - applied]
        /\ creditPaid' = [creditPaid EXCEPT ![o] = applied]
    BY DEF PlaceOrder, Spend
  <2>3. credit[Buyer[o]] - applied \in Nat
    BY <1>1, <1>2
  <2> HIDE DEF applied
  <2> QED
    BY <1>1, <1>2, <2>1, <2>2, <2>3
<1>4. onHand' \in [Variants -> Int] /\ reserved' \in [Variants -> Int]
  <2>1. /\ onHand' \in {onHand, [v \in Variants |-> onHand[v] - Qty[o][v]]}
        /\ reserved' \in {reserved, [v \in Variants |-> reserved[v] + Qty[o][v]]}
    BY DEF PlaceOrder
  <2> QED
    BY <2>1, ShelfTypes DEF TypeOK
<1>5. /\ order' \in [Orders -> {"none", "pending_payment", "confirmed", "cancelled"}]
      /\ due' \in [Orders -> {"null", "open", "past"}]
      /\ resv' \in [Orders -> {"none", "held", "released", "consumed"}]
      /\ used' \in Int
      /\ sold' \in Int
      /\ redeemed' \subseteq Orders
      /\ ledger' \subseteq Orders
      /\ placing' \subseteq Orders
      /\ seen' \in [Orders -> SUBSET Orders]
  BY <1>1 DEF PlaceOrder, TypeOK
<1>6. /\ pay' \in [Orders -> [Attempts -> PayStatus]]
      /\ amount' \in [Orders -> [Attempts -> Int]]
      /\ receivable' \in [Orders -> {"none", "due", "collected"}]
  <2>1. CASE Prepaid(o)
    BY <2>1 DEF PlaceOrder, TypeOK
  <2>2. CASE ~Prepaid(o)
    <3>1. /\ pay' = [pay EXCEPT ![o][1] = "pending"]
          /\ amount' = [amount EXCEPT ![o][1] = Total[o]]
          /\ receivable' = [receivable EXCEPT ![o] = "due"]
      BY <2>2 DEF PlaceOrder
    <3>2. "pending" \in PayStatus /\ Total[o] \in Int
      BY <1>1 DEF PayStatus
    <3>3. pay \in [Orders -> [Attempts -> PayStatus]] /\ amount \in [Orders -> [Attempts -> Int]]
      BY DEF TypeOK
    <3>4. /\ pay' \in [Orders -> [Attempts -> PayStatus]]
          /\ amount' \in [Orders -> [Attempts -> Int]]
      BY <3>1, <3>2, <3>3, RowUpdateType, Zenon
    <3> QED
      BY <3>1, <3>4 DEF TypeOK
  <2> QED
    BY <2>1, <2>2
<1> QED
  BY <1>3, <1>4, <1>5, <1>6 DEF PlaceOrder, TypeOK, startVars

LEMMA StartCommitsType ==
  ASSUME TypeOK, NEW o \in Orders, StartCommits(o)
  PROVE  TypeOK'
<1> DEFINE n == NextAttempt(o)
<1>1. pay' \in [Orders -> [Attempts -> PayStatus]]
  BY DEF StartCommits, TypeOK, PayStatus
<1>2. payRef' \in [Orders -> [Attempts -> 0 .. MaxAttempts]]
  <2>1. CASE n \in Attempts
    <3>1. (IF Method[o] = "bkash" THEN n ELSE 0) \in 0 .. MaxAttempts
      BY <2>1, ConstantsAssumption DEF ConstantsAssumption, Attempts
    <3>2. payRef' = [payRef EXCEPT ![o][n] = IF Method[o] = "bkash" THEN n ELSE 0]
      BY DEF StartCommits
    <3>3. payRef \in [Orders -> [Attempts -> 0 .. MaxAttempts]]
      BY DEF TypeOK
    <3> QED
      BY <3>1, <3>2, <3>3, RowUpdateType, Zenon
  <2>2. CASE n \notin Attempts
    BY <2>2 DEF StartCommits, TypeOK
  <2> QED
    BY <2>1, <2>2
<1>3. amount' \in [Orders -> [Attempts -> Int]]
  <2>1. Total[o] - creditPaid[o] \in Int
    BY ConstantsAssumption DEF ConstantsAssumption, TypeOK
  <2>2. amount' = [amount EXCEPT ![o][n] = Total[o] - creditPaid[o]]
    BY DEF StartCommits
  <2>3. amount \in [Orders -> [Attempts -> Int]]
    BY DEF TypeOK
  <2> QED
    BY <2>1, <2>2, <2>3, RowUpdateType, Zenon
<1>4. page' \in [Orders -> [Attempts -> PageStatus]]
  <2>1. /\ "open" \in PageStatus
        /\ page \in [Orders -> [Attempts -> PageStatus]]
        /\ page' = [page EXCEPT ![o][n] = "open"]
    BY DEF StartCommits, TypeOK, PageStatus
  <2> QED
    BY <2>1, RowUpdateType, Zenon
<1> QED
  BY <1>1, <1>2, <1>3, <1>4
  DEF StartCommits, TypeOK, stockVars, promoVars, creditVars, placeVars

LEMMA BuyerActsType ==
  ASSUME TypeOK, NEW o \in Orders, NEW n \in Attempts, BuyerActs(o, n)
  PROVE  TypeOK'
<1>1. PICK outcome \in PageStatus : page' = [page EXCEPT ![o][n] = outcome]
  BY DEF BuyerActs, PageStatus
<1>2. page' \in [Orders -> [Attempts -> PageStatus]]
  BY <1>1, RowUpdateType DEF TypeOK
<1> QED
  BY <1>2 DEF BuyerActs, TypeOK, stockVars, promoVars, creditVars, payVars,
     placeVars, startVars

\* A settle transaction that commits: what it writes to its own row.
LEMMA SettleCommitsType ==
  ASSUME TypeOK, NEW o \in Orders, NEW n \in Attempts, SettleCommits(o, n)
  PROVE  TypeOK'
<1>1. /\ settling' \in [Orders -> [Attempts -> InFlight]]
      /\ payRef' \in [Orders -> [Attempts -> 0 .. MaxAttempts]]
      /\ events' \subseteq Orders \X Attempts
      /\ UNCHANGED <<amount, page, receivable, adjusted, promoVars, creditVars,
                     placeVars, startVars>>
  BY FinishSettleType DEF SettleCommits, SettleUnpaid, SettleDuplicate, SettlePaid,
     FinishSettle
<1>2. pay' \in [Orders -> [Attempts -> PayStatus]]
  <2>1. PICK status \in PayStatus : pay' = [pay EXCEPT ![o][n] = status]
    BY DEF SettleCommits, SettleUnpaid, SettleDuplicate, SettlePaid, PayStatus
  <2> QED
    BY <2>1, RowUpdateType DEF TypeOK
<1>3. /\ order' \in [Orders -> {"none", "pending_payment", "confirmed", "cancelled"}]
      /\ due' \in [Orders -> {"null", "open", "past"}]
      /\ ledger' \subseteq Orders
      /\ resv' \in [Orders -> {"none", "held", "released", "consumed"}]
      /\ onHand' \in [Variants -> Int]
      /\ reserved' \in [Variants -> Int]
  <2>1. CASE SettleUnpaid(o, n) \/ SettleDuplicate(o, n)
    BY <2>1 DEF SettleUnpaid, SettleDuplicate, TypeOK
  <2>2. CASE SettlePaid(o, n)
    <3>1. \/ ConsumeReservations(o)
          \/ UNCHANGED <<resv, onHand, reserved>>
      BY <2>2 DEF SettlePaid
    <3>2. /\ resv' \in [Orders -> {"none", "held", "released", "consumed"}]
          /\ onHand' \in [Variants -> Int]
          /\ reserved' \in [Variants -> Int]
      BY <3>1, ConsumeType DEF TypeOK
    <3>3. PICK status \in {"none", "pending_payment", "confirmed", "cancelled"} :
            /\ order' = [order EXCEPT ![o] = status]
            /\ due' = [due EXCEPT ![o] = "null"] \/ UNCHANGED due
            /\ ledger' \in {ledger, ledger \cup {o}}
      <4>1. /\ order[o] \in {"none", "pending_payment", "confirmed", "cancelled"}
            /\ ConfirmedStatus(o) \in {"none", "pending_payment", "confirmed", "cancelled"}
        BY DEF TypeOK, ConfirmedStatus
      <4> QED
        BY <2>2, <4>1 DEF SettlePaid, PostCapture
    <3> QED
      BY <3>2, <3>3 DEF TypeOK
  <2> QED
    BY <2>1, <2>2 DEF SettleCommits
<1> QED
  BY <1>1, <1>2, <1>3 DEF TypeOK, promoVars, creditVars, placeVars, startVars

LEMMA CodType ==
  ASSUME TypeOK, NEW o \in Orders, CodPickedUp(o) \/ CodDelivered(o)
  PROVE  TypeOK'
<1>1. /\ resv' \in [Orders -> {"none", "held", "released", "consumed"}]
      /\ onHand' \in [Variants -> Int]
      /\ reserved' \in [Variants -> Int]
  BY ConsumeType DEF CodPickedUp, CodDelivered
<1>2. CASE CodPickedUp(o)
  BY <1>1, <1>2 DEF CodPickedUp, TypeOK, promoVars, creditVars, payVars, placeVars, startVars
<1>3. CASE CodDelivered(o)
  <2>1. pay' \in [Orders -> [Attempts -> PayStatus]]
    BY <1>3, RowUpdateType DEF CodDelivered, TypeOK, PayStatus
  <2> QED
    BY <1>1, <1>3, <2>1 DEF CodDelivered, TypeOK, promoVars, creditVars, placeVars, startVars
<1> QED
  BY <1>2, <1>3

\* Type correctness: whatever requests, webhooks, workers and rollbacks do, every
\* order, payment, session, coupon and stock row keeps a value of its column.
THEOREM TypeCorrect == Spec => []TypeOK
<1>1. TypeOK /\ [Next]_vars => TypeOK'
  <2> SUFFICES ASSUME TypeOK, [Next]_vars
               PROVE  TypeOK'
    OBVIOUS
  <2>1. ASSUME NEW o \in Orders, OrderStep(o)
        PROVE  TypeOK'
    <3>1. CASE QuoteWithCoupon(o)
      BY <3>1 DEF QuoteWithCoupon, TypeOK, stockVars, promoVars, creditVars, payVars, startVars
    <3>2. CASE PlaceFails(o)
      BY <3>2 DEF PlaceFails, TypeOK, stockVars, promoVars, creditVars, payVars, startVars
    <3>3. CASE \E useCredit \in BOOLEAN : PlaceOrder(o, useCredit)
      BY <3>3, PlaceOrderType
    <3>4. CASE WindowCloses(o)
      BY <3>4 DEF WindowCloses, TypeOK, stockVars, promoVars, creditVars, payVars,
         placeVars, startVars
    <3>5. CASE ExpireUnpaid(o)
      <4>2. reserved' \in {reserved, [v \in Variants |-> reserved[v] - Qty[o][v]]}
        BY <3>5 DEF ExpireUnpaid, ReleaseOrder
      <4>3. reserved' \in [Variants -> Int]
        BY <4>2, ShelfTypes DEF TypeOK
      <4>4. SaleQty[o] \in Int
        BY ConstantsAssumption DEF ConstantsAssumption
      <4>5. sold' \in Int /\ used' \in Int /\ redeemed' \subseteq Orders
        BY <3>5, <4>4 DEF ExpireUnpaid, ReleaseOrder, TypeOK
      <4>6. /\ order' \in [Orders -> {"none", "pending_payment", "confirmed", "cancelled"}]
            /\ resv' \in [Orders -> {"none", "held", "released", "consumed"}]
        BY <3>5 DEF ExpireUnpaid, ReleaseOrder, TypeOK
      <4> QED
        BY <3>5, <4>3, <4>5, <4>6
        DEF ExpireUnpaid, TypeOK, creditVars, payVars, placeVars, startVars
    <3>6. CASE StartPayment(o)
      BY <3>6 DEF StartPayment, OpenAttempts, TypeOK, stockVars, promoVars, creditVars,
         payVars, placeVars
    <3>7. CASE StartCommits(o)
      BY <3>7, StartCommitsType
    <3>8. CASE StartFails(o)
      BY <3>8 DEF StartFails, TypeOK, stockVars, promoVars, creditVars, payVars, placeVars
    <3>9. CASE CodPickedUp(o) \/ CodDelivered(o)
      BY <3>9, CodType
    <3>10. ASSUME NEW n \in Attempts, PaymentStep(o, n)
           PROVE  TypeOK'
      <4>0. /\ payRef[o][n] \in 0 .. MaxAttempts
            /\ 0 \in 0 .. MaxAttempts
            /\ Attempts \subseteq 0 .. MaxAttempts
        BY ConstantsAssumption DEF ConstantsAssumption, TypeOK, Attempts
      <4>1. CASE BuyerActs(o, n)
        BY <4>1, BuyerActsType
      <4>2. CASE Confirm(o, n) \/ Reconcile(o, n)
        BY <4>0, <4>2, BeginSettleType DEF Confirm, Reconcile
      <4>3. CASE WebhookStores(o, n)
        BY <4>3 DEF WebhookStores, TypeOK, stockVars, promoVars, creditVars, payVars,
           placeVars, startVars
      <4>4. ASSUME NEW m \in Attempts, WebhookSettles(o, m, n)
            PROVE  TypeOK'
        BY <4>0, <4>4, BeginSettleType DEF WebhookSettles
      <4>5. ASSUME NEW m \in Attempts, WebhookReplay(o, m, n)
            PROVE  TypeOK'
        <5>1. payRef' = [payRef EXCEPT ![o][n] = m]
          BY <4>5 DEF WebhookReplay
        <5>2. payRef \in [Orders -> [Attempts -> 0 .. MaxAttempts]] /\ m \in 0 .. MaxAttempts
          BY <4>0 DEF TypeOK
        <5>3. payRef' \in [Orders -> [Attempts -> 0 .. MaxAttempts]]
          BY <5>1, <5>2, RowUpdateType, Zenon
        <5> QED
          BY <4>5, <5>3 DEF WebhookReplay, TypeOK, stockVars, promoVars, creditVars,
             placeVars, startVars
      <4>6. CASE SettleUnpaid(o, n) \/ SettleDuplicate(o, n) \/ SettlePaid(o, n)
        BY <4>6, SettleCommitsType DEF SettleCommits
      <4>7. CASE SettleRollsBack(o, n)
        <5>1. /\ settling' = [settling EXCEPT ![o][n] = Idle]
              /\ settling \in [Orders -> [Attempts -> InFlight]]
          BY <4>7 DEF SettleRollsBack, TypeOK
        <5>2. Idle \in InFlight
          BY <4>0 DEF Idle, InFlight
        <5>3. settling' \in [Orders -> [Attempts -> InFlight]]
          BY <5>1, <5>2, RowUpdateType, Zenon
        <5> QED
          BY <4>7, <5>3 DEF SettleRollsBack, TypeOK, stockVars, promoVars, creditVars,
             payVars, placeVars, startVars
      <4> QED
        BY <3>10, <4>1, <4>2, <4>3, <4>4, <4>5, <4>6, <4>7 DEF PaymentStep
    <3> QED
      BY <2>1, <3>1, <3>2, <3>3, <3>4, <3>5, <3>6, <3>7, <3>8, <3>9, <3>10 DEF OrderStep
  <2>2. ASSUME NEW v \in Variants, AdjustStock(v)
        PROVE  TypeOK'
    <3>1. PICK delta \in {-1, 1} :
            /\ onHand' = [onHand EXCEPT ![v] = @ + delta]
            /\ adjusted' = [adjusted EXCEPT ![v] = @ + delta]
      BY <2>2 DEF AdjustStock
    <3>2. onHand' \in [Variants -> Int] /\ adjusted' \in [Variants -> Int]
      BY <3>1 DEF TypeOK
    <3> QED
      BY <2>2, <3>2 DEF AdjustStock, TypeOK, promoVars, creditVars, payVars, placeVars,
         startVars
  <2>3. CASE UNCHANGED vars
    BY <2>3 DEF TypeOK, vars, stockVars, promoVars, creditVars, payVars, placeVars, startVars
  <2> QED
    BY <2>1, <2>2, <2>3 DEF Next
<1> QED
  BY InitType, <1>1, PTL DEF Spec

-----------------------------------------------------------------------------
(* Safety: what always holds of one order *)

\* Rows exist from placement on; a cash order has one row and no transaction.
Placement(o) ==
  /\ order[o] = "none" <=> resv[o] = "none"
  /\ order[o] = "none" => /\ o \notin starting
                          /\ creditPaid[o] = 0
                          /\ \A n \in Attempts : pay[o][n] = "none"
  /\ ~Prepaid(o) => /\ order[o] \in {"none", "confirmed"}
                    /\ o \notin starting
                    /\ superseded[o] = {}
                    /\ \A n \in Attempts : n # 1 => pay[o][n] = "none"

\* Attempts are numbered without a gap, start_payment has a number left, and
\* the provider knows no session without a row.
Numbered(o) ==
  /\ \A n \in Attempts : pay[o][n] = "none" => page[o][n] = "none"
  /\ \E k \in 0 .. MaxAttempts : \A n \in Attempts : pay[o][n] # "none" <=> n <= k
  /\ o \in starting => pay[o][MaxAttempts] = "none"

\* Every attempt of a prepaid order asks for all the buyer owes.
Owed(o) ==
  Prepaid(o) => \A n \in Attempts :
    pay[o][n] # "none" => creditPaid[o] + amount[o][n] = Total[o]

\* Row locks: a row in an open settle is unpaid and not superseded, a paid
\* answer was given for captured money, a superseded row is still pending.
Transactions(o) ==
  /\ \A n \in Attempts : settling[o][n] # Idle =>
       /\ Prepaid(o)
       /\ pay[o][n] \notin {"none", "paid"}
       /\ n \notin superseded[o]
       /\ settling[o][n].answer = "paid" =>
            settling[o][n].ref # 0 /\ page[o][settling[o][n].ref] = "captured"
  /\ \A n \in superseded[o] : pay[o][n] = "pending"

\* The three properties, for one order.
OnePaid(o) == \A m, n \in Attempts : pay[o][m] = "paid" /\ pay[o][n] = "paid" => m = n

Verified(o) ==
  \A n \in Attempts : Prepaid(o) /\ pay[o][n] = "paid" =>
    payRef[o][n] # 0 /\ page[o][payRef[o][n]] = "captured"

Settled(o) ==
  Prepaid(o) =>
    /\ order[o] = "confirmed" =>
         creditPaid[o] = Total[o] \/ \E n \in Attempts : pay[o][n] = "paid"
    /\ order[o] = "pending_payment" =>
         creditPaid[o] < Total[o] /\ \A n \in Attempts : pay[o][n] # "paid"
    /\ order[o] = "confirmed" <=> resv[o] = "consumed"
    /\ order[o] = "confirmed" <=> o \in ledger
    /\ order[o] = "cancelled" <=> resv[o] = "released"

SafeOrder(o) ==
  /\ Placement(o)
  /\ Numbered(o)
  /\ Owed(o)
  /\ Transactions(o)
  /\ OnePaid(o)
  /\ Verified(o)
  /\ Settled(o)

SafetyInv == TypeOK /\ \A o \in Orders : SafeOrder(o)

\* A step that leaves the rows of an order alone.
SameRows(o) ==
  /\ order'[o] = order[o]
  /\ resv'[o] = resv[o]
  /\ creditPaid'[o] = creditPaid[o]
  /\ pay'[o] = pay[o]
  /\ payRef'[o] = payRef[o]
  /\ amount'[o] = amount[o]
  /\ page'[o] = page[o]
  /\ o \in ledger' <=> o \in ledger
  /\ o \in starting' <=> o \in starting
  /\ superseded'[o] = superseded[o]
  /\ settling'[o] = settling[o]

LEMMA SameRowsSafe ==
  ASSUME NEW o \in Orders, SafeOrder(o), SameRows(o)
  PROVE  SafeOrder(o)'
  BY DEF SafeOrder, SameRows, Placement, Numbered, Owed, Transactions, OnePaid, Verified,
     Settled

LEMMA InitSafe == Init => SafetyInv
<1> SUFFICES ASSUME Init PROVE SafetyInv
  OBVIOUS
<1>1. TypeOK
  BY InitType
<1>2. ASSUME NEW o \in Orders PROVE SafeOrder(o)
  <2>1. /\ order[o] = "none" /\ resv[o] = "none" /\ creditPaid[o] = 0
        /\ o \notin starting /\ o \notin ledger /\ superseded[o] = {}
        /\ \A n \in Attempts : pay[o][n] = "none" /\ settling[o][n] = Idle /\ page[o][n] = "none"
    BY DEF Init
  <2>2. Numbered(o)
    <3>1. 0 \in 0 .. MaxAttempts /\ \A n \in Attempts : ~(n <= 0)
      BY ConstantsAssumption DEF ConstantsAssumption, Attempts
    <3> QED
      BY <2>1, <3>1 DEF Numbered
  <2> QED
    BY <2>1, <2>2 DEF SafeOrder, Placement, Owed, Transactions, OnePaid, Verified, Settled
<1> QED
  BY <1>1, <1>2 DEF SafetyInv

LEMMA OneOrderSafe ==
  ASSUME SafetyInv, NEW o \in Orders, SafeOrder(o)',
         \A p \in Orders \ {o} : SameRows(p)
  PROVE  \A p \in Orders : SafeOrder(p)'
<1>1. ASSUME NEW p \in Orders PROVE SafeOrder(p)'
  <2>1. CASE p = o
    BY <2>1
  <2>2. CASE p # o
    BY <2>2, SameRowsSafe DEF SafetyInv
  <2> QED
    BY <2>1, <2>2
<1> QED
  BY <1>1

\* Locks, time, stored callbacks and recounts touch no order's rows.
LEMMA QuietSafe ==
  ASSUME SafetyInv,
         UNCHANGED <<order, resv, creditPaid, pay, payRef, amount, page, ledger,
                     starting, superseded, settling>>
  PROVE  \A p \in Orders : SafeOrder(p)'
<1>1. \A p \in Orders : SameRows(p)
  BY DEF SameRows
<1> QED
  BY <1>1, SameRowsSafe DEF SafetyInv

LEMMA PlaceOrderSafe ==
  ASSUME SafetyInv, NEW o \in Orders, NEW useCredit \in BOOLEAN, PlaceOrder(o, useCredit)
  PROVE  \A p \in Orders : SafeOrder(p)'
<1> DEFINE applied == IF useCredit THEN Applied(o) ELSE 0
<1>1. SafeOrder(o) /\ TypeOK /\ order[o] = "none"
  BY DEF SafetyInv, PlaceOrder
<1>2. /\ resv[o] = "none"
      /\ o \notin starting
      /\ Prepaid(o) => o \notin ledger
      /\ \A n \in Attempts : pay[o][n] = "none"
      /\ \A n \in Attempts : settling[o][n] = Idle
  BY <1>1 DEF SafeOrder, Placement, Settled, Transactions
<1>3. superseded[o] = {}
  <2>1. superseded[o] \subseteq Attempts
    BY <1>1 DEF TypeOK
  <2> QED
    BY <1>1, <1>2, <2>1 DEF SafeOrder, Transactions
<1>4. /\ 1 \in Attempts
      /\ Total[o] \in Nat \ {0}
      /\ applied \in Nat
      /\ applied # Total[o] => applied < Total[o]
  <2>1. 1 \in Attempts /\ Total[o] \in Nat \ {0} /\ Buyer[o] \in Buyers
    BY ConstantsAssumption DEF ConstantsAssumption, Attempts
  <2>2. credit[Buyer[o]] \in Nat
    BY <1>1, <2>1 DEF TypeOK
  <2> QED
    BY <2>1, <2>2 DEF Applied
<1>5. /\ creditPaid' = [creditPaid EXCEPT ![o] = applied]
      /\ applied > 0 => Prepaid(o)
      /\ UNCHANGED <<payRef, page, starting, superseded, settling>>
  <2>1. useCredit => Prepaid(o)
    BY DEF PlaceOrder
  <2> QED
    BY <2>1, <1>4 DEF PlaceOrder, startVars
<1>6. SafeOrder(o)'
  <2> HIDE DEF applied
  <2>1. creditPaid'[o] = applied
    BY <1>1, <1>5 DEF TypeOK
  <2>2. CASE Prepaid(o)
    <3>1. UNCHANGED <<pay, amount>>
      BY <2>2 DEF PlaceOrder
    <3>2. CASE applied = Total[o]
      <4>1. order'[o] = "confirmed" /\ resv'[o] = "consumed" /\ ledger' = ledger \cup {o}
        BY <3>2, <1>1, <2>2 DEF PlaceOrder, TypeOK, applied
      <4> QED
        BY <1>1, <1>2, <1>3, <1>4, <1>5, <2>1, <2>2, <3>1, <3>2, <4>1
        DEF SafeOrder, Placement, Numbered, Owed, Transactions, OnePaid, Verified, Settled,
            Prepaid
    <3>3. CASE applied # Total[o]
      <4>1. order'[o] = "pending_payment" /\ resv'[o] = "held" /\ ledger' = ledger
        BY <3>3, <1>1, <2>2 DEF PlaceOrder, TypeOK, applied
      <4> QED
        BY <1>1, <1>2, <1>3, <1>4, <1>5, <2>1, <2>2, <3>1, <3>3, <4>1
        DEF SafeOrder, Placement, Numbered, Owed, Transactions, OnePaid, Verified, Settled,
            Prepaid
    <3> QED
      BY <3>2, <3>3
  <2>3. CASE ~Prepaid(o)
    <3>1. pay' = [pay EXCEPT ![o][1] = "pending"]
      BY <2>3 DEF PlaceOrder
    <3>2. order'[o] = "confirmed" /\ resv'[o] \in {"consumed", "held"}
      BY <1>1, <2>3 DEF PlaceOrder, TypeOK
    <3>3. pay'[o][1] = "pending" /\ \A n \in Attempts : n # 1 => pay'[o][n] = "none"
      BY <1>1, <1>2, <1>4, <3>1 DEF TypeOK
    <3>4. Numbered(o)'
      <4>1. 1 \in 0 .. MaxAttempts /\ \A n \in Attempts : n <= 1 <=> n = 1
        BY ConstantsAssumption DEF ConstantsAssumption, Attempts
      <4>2. \A n \in Attempts : pay'[o][n] # "none" <=> n <= 1
        BY <3>3, <4>1
      <4> QED
        BY <1>1, <1>2, <1>5, <3>3, <4>1, <4>2 DEF SafeOrder, Numbered
    <3> QED
      BY <1>2, <1>3, <1>5, <2>3, <3>2, <3>3, <3>4
      DEF SafeOrder, Placement, Owed, Transactions, OnePaid, Verified, Settled, Prepaid
  <2> QED
    BY <2>2, <2>3
<1>7. ASSUME NEW p \in Orders \ {o} PROVE SameRows(p)
  <2>1. /\ pay'[p] = pay[p]
        /\ amount'[p] = amount[p]
    BY <1>1 DEF PlaceOrder, TypeOK
  <2> QED
    BY <1>1, <2>1 DEF PlaceOrder, SameRows, TypeOK, startVars
<1> QED
  BY <1>6, <1>7, OneOrderSafe

LEMMA ExpireUnpaidSafe ==
  ASSUME SafetyInv, NEW o \in Orders, ExpireUnpaid(o)
  PROVE  \A p \in Orders : SafeOrder(p)'
<1>1. /\ SafeOrder(o)
      /\ TypeOK
      /\ order[o] = "pending_payment"
      /\ order' = [order EXCEPT ![o] = "cancelled"]
      /\ UNCHANGED <<creditPaid, pay, payRef, amount, page, ledger, starting, superseded,
                     settling>>
  BY DEF SafetyInv, ExpireUnpaid, Overdue, ReleaseOrder, creditVars, payVars, startVars
<1>2. Prepaid(o) /\ resv[o] = "held"
  <2>1. Prepaid(o)
    BY <1>1 DEF SafeOrder, Placement
  <2>2. resv[o] \in {"none", "held", "released", "consumed"}
    BY <1>1 DEF TypeOK
  <2> QED
    BY <1>1, <2>1, <2>2 DEF SafeOrder, Placement, Settled
<1>3. resv' = [resv EXCEPT ![o] = "released"]
  BY <1>2 DEF ExpireUnpaid, ReleaseOrder
<1>4. order'[o] = "cancelled" /\ resv'[o] = "released"
  BY <1>1, <1>3 DEF TypeOK
<1>5. SafeOrder(o)'
  BY <1>1, <1>2, <1>4
  DEF SafeOrder, Placement, Numbered, Owed, Transactions, OnePaid, Verified, Settled, Prepaid
<1>6. \A p \in Orders \ {o} : SameRows(p)
  BY <1>1, <1>3 DEF SameRows, TypeOK
<1> QED
  BY <1>5, <1>6, OneOrderSafe

LEMMA StartPaymentSafe ==
  ASSUME SafetyInv, NEW o \in Orders, StartPayment(o)
  PROVE  \A p \in Orders : SafeOrder(p)'
<1>1. /\ SafeOrder(o)
      /\ TypeOK
      /\ Prepaid(o)
      /\ order[o] = "pending_payment"
      /\ pay[o][MaxAttempts] = "none"
      /\ \A n \in OpenAttempts(o) : settling[o][n] = Idle
      /\ starting' = starting \cup {o}
      /\ superseded' = [superseded EXCEPT ![o] = OpenAttempts(o)]
      /\ UNCHANGED <<order, resv, creditPaid, pay, payRef, amount, page, ledger, settling>>
  BY DEF SafetyInv, StartPayment, RowFree, stockVars, creditVars, payVars
<1>2. superseded'[o] = {n \in Attempts : pay[o][n] = "pending"}
  BY <1>1 DEF TypeOK, OpenAttempts, Open
<1>3. SafeOrder(o)'
  <2>1. Transactions(o)'
    BY <1>1, <1>2 DEF SafeOrder, Transactions, OpenAttempts, Open, Prepaid
  <2> QED
    BY <1>1, <2>1
    DEF SafeOrder, Placement, Numbered, Owed, OnePaid, Verified, Settled, Prepaid
<1>4. \A p \in Orders \ {o} : SameRows(p)
  BY <1>1 DEF SameRows, TypeOK
<1> QED
  BY <1>3, <1>4, OneOrderSafe

LEMMA StartCommitsSafe ==
  ASSUME SafetyInv, NEW o \in Orders, StartCommits(o)
  PROVE  \A p \in Orders : SafeOrder(p)'
<1> DEFINE n == NextAttempt(o)
           row == [m \in Attempts |-> IF m = n THEN "pending"
                                      ELSE IF m \in superseded[o] THEN "cancelled"
                                      ELSE pay[o][m]]
<1>1. /\ SafeOrder(o)
      /\ TypeOK
      /\ o \in starting
      /\ starting' = starting \ {o}
      /\ superseded' = [superseded EXCEPT ![o] = {}]
      /\ pay' = [pay EXCEPT ![o] = row]
      /\ payRef' = [payRef EXCEPT ![o][n] = IF Method[o] = "bkash" THEN n ELSE 0]
      /\ amount' = [amount EXCEPT ![o][n] = Total[o] - creditPaid[o]]
      /\ page' = [page EXCEPT ![o][n] = "open"]
      /\ UNCHANGED <<order, resv, creditPaid, ledger, settling>>
  BY DEF SafetyInv, StartCommits, stockVars, creditVars
<1>2. Prepaid(o) /\ order[o] # "none"
  BY <1>1 DEF SafeOrder, Placement
<1>3. PICK k \in 0 .. MaxAttempts : \A m \in Attempts : pay[o][m] # "none" <=> m <= k
  BY <1>1 DEF SafeOrder, Numbered
<1>4. n = k + 1 /\ n \in Attempts /\ pay[o][n] = "none"
  BY <1>1, <1>3, NextAttemptIsAttempt DEF SafeOrder, Numbered
<1> HIDE DEF n, row
<1>5. /\ pay'[o] = row
      /\ amount'[o] = [amount[o] EXCEPT ![n] = Total[o] - creditPaid[o]]
      /\ page'[o] = [page[o] EXCEPT ![n] = "open"]
      /\ payRef'[o] = [payRef[o] EXCEPT ![n] = IF Method[o] = "bkash" THEN n ELSE 0]
      /\ superseded'[o] = {}
  BY <1>1 DEF TypeOK
<1>6. /\ \A m \in Attempts : m # n =>
           /\ pay'[o][m] = IF m \in superseded[o] THEN "cancelled" ELSE pay[o][m]
           /\ amount'[o][m] = amount[o][m]
           /\ page'[o][m] = page[o][m]
           /\ payRef'[o][m] = payRef[o][m]
      /\ pay'[o][n] = "pending"
      /\ amount'[o][n] = Total[o] - creditPaid[o]
  BY <1>1, <1>4, <1>5 DEF TypeOK, row
<1>7. \A m \in superseded[o] : pay[o][m] = "pending"
  BY <1>1 DEF SafeOrder, Transactions
<1>8. \A r \in 0 .. MaxAttempts :
        r # 0 /\ page[o][r] = "captured" => r \in Attempts /\ r # n /\ page'[o][r] = "captured"
  <2>1. page[o][n] = "none"
    BY <1>1, <1>4 DEF SafeOrder, Numbered
  <2>2. \A r \in 0 .. MaxAttempts : r # 0 => r \in Attempts
    BY ConstantsAssumption DEF ConstantsAssumption, Attempts
  <2> QED
    BY <1>6, <2>1, <2>2
<1>9. SafeOrder(o)'
  <2>1. Numbered(o)'
    <3>1. k + 1 \in 0 .. MaxAttempts /\ \A m \in Attempts : m <= k + 1 <=> m <= k \/ m = k + 1
      BY <1>4, ConstantsAssumption DEF ConstantsAssumption, Attempts
    <3>2. \A m \in Attempts : pay'[o][m] # "none" <=> m <= k + 1
      BY <1>3, <1>4, <1>6, <1>7, <3>1
    <3>3. \A m \in Attempts : pay'[o][m] = "none" => page'[o][m] = "none"
      BY <1>1, <1>3, <1>6, <1>7 DEF SafeOrder, Numbered
    <3>4. o \notin starting'
      BY <1>1
    <3> QED
      BY <3>1, <3>2, <3>3, <3>4 DEF Numbered
  <2>2. Owed(o)'
    <3>1. Total[o] \in Int /\ creditPaid[o] \in Int
      BY <1>1, MoneyTypes
    <3>2. \A m \in Attempts : pay'[o][m] # "none" /\ m # n => pay[o][m] # "none"
      BY <1>6, <1>7
    <3> QED
      BY <1>1, <1>2, <1>6, <3>1, <3>2 DEF SafeOrder, Owed
  <2>3. Transactions(o)'
    <3>1. ASSUME NEW m \in Attempts, settling[o][m] # Idle
          PROVE  /\ pay'[o][m] \notin {"none", "paid"}
                 /\ settling[o][m].answer = "paid" =>
                      /\ settling[o][m].ref # 0
                      /\ page'[o][settling[o][m].ref] = "captured"
      <4>1. /\ pay[o][m] \notin {"none", "paid"}
            /\ m \notin superseded[o]
            /\ settling[o][m].answer = "paid" =>
                 settling[o][m].ref # 0 /\ page[o][settling[o][m].ref] = "captured"
        BY <1>1, <3>1 DEF SafeOrder, Transactions
      <4>2. settling[o][m].ref \in 0 .. MaxAttempts
        BY <1>1 DEF TypeOK, InFlight
      <4> QED
        BY <1>4, <1>6, <1>8, <4>1, <4>2
    <3> QED
      BY <1>1, <1>2, <1>5, <3>1 DEF Transactions, Prepaid
  <2>4. OnePaid(o)' /\ Verified(o)'
    <3>1. \A m \in Attempts : pay'[o][m] = "paid" => pay[o][m] = "paid" /\ m # n
      BY <1>6
    <3>2. \A m \in Attempts : payRef[o][m] \in 0 .. MaxAttempts
      BY <1>1 DEF TypeOK
    <3>3. OnePaid(o)'
      BY <1>1, <3>1 DEF SafeOrder, OnePaid
    <3>4. Verified(o)'
      BY <1>1, <1>6, <1>8, <3>1, <3>2 DEF SafeOrder, Verified, Prepaid
    <3> QED
      BY <3>3, <3>4
  <2>5. Settled(o)'
    <3>1. \A m \in Attempts : pay'[o][m] = "paid" <=> pay[o][m] = "paid"
      BY <1>4, <1>6, <1>7
    <3> QED
      BY <1>1, <3>1 DEF SafeOrder, Settled, Prepaid
  <2>6. Placement(o)'
    BY <1>1, <1>2 DEF SafeOrder, Placement, Prepaid
  <2> QED
    BY <2>1, <2>2, <2>3, <2>4, <2>5, <2>6 DEF SafeOrder
<1>10. \A p \in Orders \ {o} : SameRows(p)
  BY <1>1 DEF SameRows, TypeOK
<1> QED
  BY <1>9, <1>10, OneOrderSafe

LEMMA StartFailsSafe ==
  ASSUME SafetyInv, NEW o \in Orders, StartFails(o)
  PROVE  \A p \in Orders : SafeOrder(p)'
<1>1. /\ SafeOrder(o)
      /\ TypeOK
      /\ starting' = starting \ {o}
      /\ superseded' = [superseded EXCEPT ![o] = {}]
      /\ UNCHANGED <<order, resv, creditPaid, pay, payRef, amount, page, ledger, settling>>
  BY DEF SafetyInv, StartFails, stockVars, creditVars, payVars
<1>2. superseded'[o] = {} /\ o \notin starting'
  BY <1>1 DEF TypeOK
<1>3. SafeOrder(o)'
  BY <1>1, <1>2
  DEF SafeOrder, Placement, Numbered, Owed, Transactions, OnePaid, Verified, Settled, Prepaid
<1>4. \A p \in Orders \ {o} : SameRows(p)
  BY <1>1 DEF SameRows, TypeOK
<1> QED
  BY <1>3, <1>4, OneOrderSafe

\* The provider's side of a session changes: captured money stays captured, and
\* a session without a row does not come to life.
LEMMA PageSafe ==
  ASSUME SafetyInv, NEW o \in Orders, NEW r \in Attempts, NEW status,
         page' = [page EXCEPT ![o][r] = status],
         page[o][r] \in {"open", "authorised"},
         UNCHANGED <<order, resv, creditPaid, pay, payRef, amount, ledger, starting,
                     superseded>>
  PROVE  /\ UNCHANGED settling => \A p \in Orders : SafeOrder(p)'
         /\ Placement(o)' /\ Numbered(o)' /\ Owed(o)' /\ OnePaid(o)' /\ Verified(o)' /\ Settled(o)'
         /\ \A q \in 0 .. MaxAttempts :
              q # 0 /\ page[o][q] = "captured" => page'[o][q] = "captured"
         /\ \A p \in Orders \ {o} : page'[p] = page[p]
<1>1. SafeOrder(o) /\ TypeOK
  BY DEF SafetyInv
<1>2. /\ page'[o] = [page[o] EXCEPT ![r] = status]
      /\ \A p \in Orders \ {o} : page'[p] = page[p]
  BY <1>1 DEF TypeOK
<1>3. \A q \in Attempts : q # r => page'[o][q] = page[o][q]
  BY <1>1, <1>2 DEF TypeOK
<1>4. \A q \in 0 .. MaxAttempts : q # 0 => q \in Attempts
  BY ConstantsAssumption DEF ConstantsAssumption, Attempts
<1>5. \A q \in 0 .. MaxAttempts :
        q # 0 /\ page[o][q] = "captured" => page'[o][q] = "captured"
  BY <1>3, <1>4
<1>6. Numbered(o)'
  BY <1>1, <1>3 DEF SafeOrder, Numbered
<1>7. Verified(o)'
  <2>1. \A n \in Attempts : payRef[o][n] \in 0 .. MaxAttempts
    BY <1>1 DEF TypeOK
  <2> QED
    BY <1>1, <1>5, <2>1 DEF SafeOrder, Verified, Prepaid
<1>8. Placement(o)' /\ Owed(o)' /\ OnePaid(o)' /\ Settled(o)'
  BY <1>1 DEF SafeOrder, Placement, Owed, OnePaid, Settled, Prepaid
<1>9. ASSUME UNCHANGED settling
      PROVE  \A p \in Orders : SafeOrder(p)'
  <2>1. \A n \in Attempts : settling[o][n].ref \in 0 .. MaxAttempts
    BY <1>1 DEF TypeOK, InFlight
  <2>2. Transactions(o)'
    BY <1>1, <1>5, <1>9, <2>1 DEF SafeOrder, Transactions, Prepaid
  <2>3. \A p \in Orders \ {o} : SameRows(p)
    BY <1>2, <1>9 DEF SameRows
  <2>4. SafeOrder(o)'
    BY <1>6, <1>7, <1>8, <2>2 DEF SafeOrder
  <2> QED
    BY <2>3, <2>4, OneOrderSafe
<1> QED
  BY <1>2, <1>5, <1>6, <1>7, <1>8, <1>9

LEMMA BuyerActsSafe ==
  ASSUME SafetyInv, NEW o \in Orders, NEW n \in Attempts, BuyerActs(o, n)
  PROVE  \A p \in Orders : SafeOrder(p)'
<1>1. PICK outcome : page' = [page EXCEPT ![o][n] = outcome]
  BY DEF BuyerActs
<1>2. /\ page[o][n] \in {"open", "authorised"}
      /\ UNCHANGED <<order, resv, creditPaid, pay, payRef, amount, ledger, starting,
                     superseded, settling>>
  BY DEF BuyerActs, creditVars, payVars, startVars
<1> QED
  BY <1>1, <1>2, PageSafe

LEMMA BeginSettleSafe ==
  ASSUME SafetyInv, NEW o \in Orders, NEW n \in Attempts, NEW r \in 0 .. MaxAttempts,
         NEW e \in 0 .. MaxAttempts, BeginSettle(o, n, r, e)
  PROVE  \A p \in Orders : SafeOrder(p)'
<1>1. PICK answer \in Answers :
        /\ GatewayAnswers(o, r, answer)
        /\ settling' = [settling EXCEPT ![o][n] = [answer |-> answer, ref |-> r, event |-> e]]
  BY DEF BeginSettle
<1>2. /\ Prepaid(o)
      /\ pay[o][n] \notin {"none", "paid"}
      /\ n \notin superseded[o]
      /\ UNCHANGED <<order, resv, creditPaid, pay, payRef, amount, ledger, starting,
                     superseded>>
  BY DEF BeginSettle, RowFree, creditVars, payVars, startVars
<1>3. SafeOrder(o) /\ TypeOK
  BY DEF SafetyInv
<1>4. /\ settling'[o][n] = [answer |-> answer, ref |-> r, event |-> e]
      /\ \A m \in Attempts : m # n => settling'[o][m] = settling[o][m]
      /\ \A p \in Orders \ {o} : settling'[p] = settling[p]
  BY <1>1, <1>3 DEF TypeOK
<1>5. r = 0 \/ r \in Attempts
  BY ConstantsAssumption DEF ConstantsAssumption, Attempts
<1>6. answer = "paid" => r # 0 /\ page'[o][r] = "captured"
  <2>1. CASE r = 0
    BY <1>1, <2>1 DEF GatewayAnswers
  <2>2. CASE r \in Attempts
    <3>0. r # 0
      BY <2>2, ConstantsAssumption DEF ConstantsAssumption, Attempts
    <3>1. CASE page[o][r] = "authorised"
      BY <1>1, <1>3, <2>2, <3>0, <3>1 DEF GatewayAnswers, TypeOK
    <3>2. CASE page[o][r] # "authorised"
      BY <1>1, <3>0, <3>2 DEF GatewayAnswers, Verdict
    <3> QED
      BY <3>1, <3>2
  <2> QED
    BY <1>5, <2>1, <2>2
<1>7. /\ Placement(o)' /\ Numbered(o)' /\ Owed(o)' /\ OnePaid(o)' /\ Verified(o)' /\ Settled(o)'
      /\ \A q \in 0 .. MaxAttempts :
           q # 0 /\ page[o][q] = "captured" => page'[o][q] = "captured"
      /\ \A p \in Orders \ {o} : page'[p] = page[p]
  <2>1. CASE UNCHANGED page
    BY <1>2, <1>3, <2>1
    DEF SafeOrder, Placement, Numbered, Owed, OnePaid, Verified, Settled, Prepaid
  <2>2. CASE page' # page
    <3>1. /\ r \in Attempts
          /\ page[o][r] \in {"open", "authorised"}
          /\ \E status : page' = [page EXCEPT ![o][r] = status]
      BY <1>1, <1>5, <2>2 DEF GatewayAnswers
    <3> QED
      BY <1>2, <3>1, PageSafe
  <2> QED
    BY <2>1, <2>2
<1>8. Transactions(o)'
  <2>1. \A m \in Attempts : settling[o][m].ref \in 0 .. MaxAttempts
    BY <1>3 DEF TypeOK, InFlight
  <2>2. ASSUME NEW m \in Attempts, settling'[o][m] # Idle
        PROVE  /\ pay[o][m] \notin {"none", "paid"}
               /\ m \notin superseded[o]
               /\ settling'[o][m].answer = "paid" =>
                    /\ settling'[o][m].ref # 0
                    /\ page'[o][settling'[o][m].ref] = "captured"
    <3>1. CASE m = n
      BY <1>2, <1>4, <1>6, <3>1
    <3>2. CASE m # n
      BY <1>3, <1>4, <1>7, <2>1, <2>2, <3>2 DEF SafeOrder, Transactions
    <3> QED
      BY <3>1, <3>2
  <2> QED
    BY <1>2, <1>3, <2>2 DEF SafeOrder, Transactions, Prepaid
<1>9. \A p \in Orders \ {o} : SameRows(p)
  BY <1>2, <1>4, <1>7 DEF SameRows
<1>10. SafeOrder(o)'
  BY <1>7, <1>8 DEF SafeOrder
<1> QED
  BY <1>9, <1>10, OneOrderSafe

LEMMA WebhookReplaySafe ==
  ASSUME SafetyInv, NEW o \in Orders, NEW m \in Attempts, NEW n \in Attempts,
         WebhookReplay(o, m, n)
  PROVE  \A p \in Orders : SafeOrder(p)'
<1>1. /\ SafeOrder(o)
      /\ TypeOK
      /\ payRef' = [payRef EXCEPT ![o][n] = m]
      /\ UNCHANGED <<order, resv, creditPaid, pay, amount, page, ledger, starting,
                     superseded, settling>>
  BY DEF SafetyInv, WebhookReplay, creditVars, startVars
<1>2. pay[o][n] = "pending"
  BY DEF WebhookReplay, CallbackRows, OpenAttempts, Open
<1>3. /\ \A k \in Attempts : k # n => payRef'[o][k] = payRef[o][k]
      /\ \A p \in Orders \ {o} : payRef'[p] = payRef[p]
  BY <1>1 DEF TypeOK
<1>4. SafeOrder(o)'
  BY <1>1, <1>2, <1>3
  DEF SafeOrder, Placement, Numbered, Owed, Transactions, OnePaid, Verified, Settled, Prepaid
<1>5. \A p \in Orders \ {o} : SameRows(p)
  BY <1>1, <1>3 DEF SameRows
<1> QED
  BY <1>4, <1>5, OneOrderSafe

LEMMA SettleRollsBackSafe ==
  ASSUME SafetyInv, NEW o \in Orders, NEW n \in Attempts, SettleRollsBack(o, n)
  PROVE  \A p \in Orders : SafeOrder(p)'
<1>1. /\ SafeOrder(o)
      /\ TypeOK
      /\ settling' = [settling EXCEPT ![o][n] = Idle]
      /\ UNCHANGED <<order, resv, creditPaid, pay, payRef, amount, page, ledger, starting,
                     superseded>>
  BY DEF SafetyInv, SettleRollsBack, creditVars, payVars, startVars
<1>2. /\ settling'[o][n] = Idle
      /\ \A k \in Attempts : k # n => settling'[o][k] = settling[o][k]
      /\ \A p \in Orders \ {o} : settling'[p] = settling[p]
  BY <1>1 DEF TypeOK
<1>3. Transactions(o)'
  BY <1>1, <1>2 DEF SafeOrder, Transactions, Prepaid
<1>4. SafeOrder(o)'
  BY <1>1, <1>3 DEF SafeOrder, Placement, Numbered, Owed, OnePaid, Verified, Settled, Prepaid
<1>5. \A p \in Orders \ {o} : SameRows(p)
  BY <1>1, <1>2 DEF SameRows
<1> QED
  BY <1>4, <1>5, OneOrderSafe

\* A settle that leaves its row unpaid.
LEMMA SettleNoMoneySafe ==
  ASSUME SafetyInv, NEW o \in Orders, NEW n \in Attempts,
         NEW status \in {"pending", "failed", "cancelled"},
         settling[o][n].answer # "none",
         pay' = [pay EXCEPT ![o][n] = status],
         FinishSettle(o, n),
         UNCHANGED <<order, resv, ledger>>
  PROVE  \A p \in Orders : SafeOrder(p)'
<1>1. /\ SafeOrder(o)
      /\ TypeOK
      /\ settling' = [settling EXCEPT ![o][n] = Idle]
      /\ payRef' = [payRef EXCEPT ![o][n] = settling[o][n].ref]
      /\ UNCHANGED <<creditPaid, amount, page, starting, superseded>>
  BY DEF SafetyInv, FinishSettle, creditVars, startVars
<1>2. /\ pay'[o][n] = status
      /\ settling'[o][n] = Idle
      /\ \A k \in Attempts : k # n => /\ pay'[o][k] = pay[o][k]
                                     /\ payRef'[o][k] = payRef[o][k]
                                     /\ settling'[o][k] = settling[o][k]
      /\ \A p \in Orders \ {o} :
           pay'[p] = pay[p] /\ payRef'[p] = payRef[p] /\ settling'[p] = settling[p]
  <2>1. /\ pay \in [Orders -> [Attempts -> PayStatus]]
        /\ payRef \in [Orders -> [Attempts -> 0 .. MaxAttempts]]
        /\ settling \in [Orders -> [Attempts -> InFlight]]
    BY <1>1 DEF TypeOK
  <2> QED
    BY <1>1, <2>1
<1>3. Prepaid(o) /\ pay[o][n] \notin {"none", "paid"} /\ n \notin superseded[o]
  BY <1>1 DEF SafeOrder, Transactions, Idle
<1>4. SafeOrder(o)'
  <2>1. Numbered(o)'
    BY <1>1, <1>2, <1>3 DEF SafeOrder, Numbered
  <2>2. Transactions(o)'
    BY <1>1, <1>2, <1>3 DEF SafeOrder, Transactions, Prepaid
  <2>3. Placement(o)' /\ Owed(o)' /\ OnePaid(o)' /\ Verified(o)' /\ Settled(o)'
    BY <1>1, <1>2, <1>3
    DEF SafeOrder, Placement, Owed, OnePaid, Verified, Settled, Prepaid
  <2> QED
    BY <2>1, <2>2, <2>3 DEF SafeOrder
<1>5. \A p \in Orders \ {o} : SameRows(p)
  BY <1>1, <1>2 DEF SameRows
<1> QED
  BY <1>4, <1>5, OneOrderSafe

LEMMA SettleUnpaidSafe ==
  ASSUME SafetyInv, NEW o \in Orders, NEW n \in Attempts, SettleUnpaid(o, n)
  PROVE  \A p \in Orders : SafeOrder(p)'
<1> DEFINE status == IF settling[o][n].answer = "pending" THEN "pending" ELSE "failed"
<1>1. /\ settling[o][n].answer # "none"
      /\ status \in {"pending", "failed", "cancelled"}
      /\ pay' = [pay EXCEPT ![o][n] = status]
      /\ FinishSettle(o, n)
      /\ UNCHANGED <<order, resv, ledger>>
  BY DEF SettleUnpaid
<1> QED
  BY <1>1, SettleNoMoneySafe

LEMMA SettleDuplicateSafe ==
  ASSUME SafetyInv, NEW o \in Orders, NEW n \in Attempts, SettleDuplicate(o, n)
  PROVE  \A p \in Orders : SafeOrder(p)'
<1>1. /\ settling[o][n].answer # "none"
      /\ pay' = [pay EXCEPT ![o][n] = "cancelled"]
      /\ FinishSettle(o, n)
      /\ UNCHANGED <<order, resv, ledger>>
  BY DEF SettleDuplicate
<1> QED
  BY <1>1, SettleNoMoneySafe

\* The step that takes the money: verified, alone, and for all that is owed, so
\* an order that still waits is confirmed, its held stock sold and the capture
\* posted; a cancelled order keeps its released stock and gets no capture.
LEMMA SettlePaidSafe ==
  ASSUME SafetyInv, NEW o \in Orders, NEW n \in Attempts, SettlePaid(o, n)
  PROVE  \A p \in Orders : SafeOrder(p)'
<1>1. /\ SafeOrder(o)
      /\ TypeOK
      /\ settling[o][n].answer = "paid"
      /\ \A m \in Attempts : pay[o][m] # "paid"
      /\ o \notin starting
      /\ pay' = [pay EXCEPT ![o][n] = "paid"]
      /\ settling' = [settling EXCEPT ![o][n] = Idle]
      /\ payRef' = [payRef EXCEPT ![o][n] = settling[o][n].ref]
      /\ UNCHANGED <<creditPaid, amount, page, starting, superseded>>
  BY DEF SafetyInv, SettlePaid, FinishSettle, AlreadyPaid, Paid, creditVars, startVars
<1>2. /\ pay'[o][n] = "paid"
      /\ settling'[o][n] = Idle
      /\ payRef'[o][n] = settling[o][n].ref
      /\ \A k \in Attempts : k # n => /\ pay'[o][k] = pay[o][k]
                                     /\ payRef'[o][k] = payRef[o][k]
                                     /\ settling'[o][k] = settling[o][k]
      /\ \A p \in Orders \ {o} :
           pay'[p] = pay[p] /\ payRef'[p] = payRef[p] /\ settling'[p] = settling[p]
  <2>1. /\ pay \in [Orders -> [Attempts -> PayStatus]]
        /\ payRef \in [Orders -> [Attempts -> 0 .. MaxAttempts]]
        /\ settling \in [Orders -> [Attempts -> InFlight]]
    BY <1>1 DEF TypeOK
  <2> QED
    BY <1>1, <2>1
<1>3. /\ Prepaid(o)
      /\ pay[o][n] \notin {"none", "paid"}
      /\ n \notin superseded[o]
      /\ settling[o][n].ref # 0
      /\ page[o][settling[o][n].ref] = "captured"
  BY <1>1 DEF SafeOrder, Transactions, Idle
<1>4. order[o] \in {"pending_payment", "confirmed", "cancelled"}
  BY <1>1, <1>3 DEF SafeOrder, Placement, TypeOK
<1>5. Total[o] - creditPaid[o] - amount[o][n] <= 0
  <2>1. Total[o] \in Int /\ creditPaid[o] \in Int
    BY <1>1, MoneyTypes
  <2>2. amount[o][n] \in Int /\ creditPaid[o] + amount[o][n] = Total[o]
    BY <1>1, <1>3 DEF SafeOrder, Owed, TypeOK
  <2> QED
    BY <2>1, <2>2
<1>6. /\ order' = [order EXCEPT ![o] = ConfirmedStatus(o)]
      /\ ConsumeReservations(o)
      /\ ledger' = PostCapture(o, ConfirmedStatus(o))
  BY <1>5 DEF SettlePaid
<1>7. order'[o] = IF order[o] = "cancelled" THEN "cancelled" ELSE "confirmed"
  BY <1>1, <1>4, <1>6 DEF ConfirmedStatus, TypeOK
<1>8. resv'[o] = IF order[o] = "cancelled" THEN "released" ELSE "consumed"
  <2>1. /\ order[o] = "cancelled" <=> resv[o] = "released"
        /\ order[o] = "confirmed" <=> resv[o] = "consumed"
        /\ resv[o] \in {"held", "released", "consumed"}
    BY <1>1, <1>3, <1>4 DEF SafeOrder, Placement, Settled, TypeOK
  <2> QED
    BY <1>1, <1>4, <1>6, <2>1 DEF ConsumeReservations, TypeOK
<1>9. o \in ledger' <=> order[o] # "cancelled"
  <2>1. order[o] = "cancelled" => o \notin ledger
    BY <1>1, <1>3 DEF SafeOrder, Settled
  <2> QED
    BY <1>4, <1>6, <2>1 DEF ConfirmedStatus, PostCapture
<1>10. SafeOrder(o)'
  <2>1. Numbered(o)'
    BY <1>1, <1>2, <1>3 DEF SafeOrder, Numbered
  <2>2. Transactions(o)'
    BY <1>1, <1>2, <1>3 DEF SafeOrder, Transactions, Prepaid
  <2>3. Placement(o)' /\ Owed(o)'
    BY <1>1, <1>2, <1>3, <1>4, <1>7, <1>8 DEF SafeOrder, Placement, Owed, Prepaid
  <2>4. OnePaid(o)' /\ Verified(o)'
    BY <1>1, <1>2, <1>3 DEF OnePaid, Verified
  <2>5. Settled(o)'
    BY <1>2, <1>4, <1>7, <1>8, <1>9 DEF Settled
  <2> QED
    BY <2>1, <2>2, <2>3, <2>4, <2>5 DEF SafeOrder
<1>11. \A p \in Orders \ {o} : SameRows(p)
  <2>1. \A p \in Orders \ {o} :
          order'[p] = order[p] /\ resv'[p] = resv[p] /\ (p \in ledger' <=> p \in ledger)
    BY <1>1, <1>6 DEF ConsumeReservations, PostCapture, TypeOK
  <2> QED
    BY <1>1, <1>2, <2>1 DEF SameRows
<1> QED
  BY <1>10, <1>11, OneOrderSafe

LEMMA CodSafe ==
  ASSUME SafetyInv, NEW o \in Orders, CodPickedUp(o) \/ CodDelivered(o)
  PROVE  \A p \in Orders : SafeOrder(p)'
<1>1. /\ SafeOrder(o)
      /\ TypeOK
      /\ ~Prepaid(o)
      /\ order[o] = "confirmed"
      /\ resv' \in {resv, [resv EXCEPT ![o] = "consumed"]}
      /\ pay' \in {pay, [pay EXCEPT ![o][1] = "paid"]}
      /\ ledger' \in {ledger, ledger \cup {o}}
      /\ UNCHANGED <<order, creditPaid, payRef, amount, page, starting, superseded, settling>>
  BY DEF SafetyInv, CodPickedUp, CodDelivered, ConsumeReservations, creditVars, payVars,
     startVars
<1>2. resv[o] # "none" /\ resv'[o] # "none"
  BY <1>1 DEF SafeOrder, Placement, TypeOK
<1>3. 1 \in Attempts
  BY ConstantsAssumption DEF ConstantsAssumption, Attempts
<1>4. SafeOrder(o)'
  <2>1. CASE pay' = pay
    BY <1>1, <1>2, <2>1
    DEF SafeOrder, Placement, Numbered, Owed, Transactions, OnePaid, Verified, Settled, Prepaid
  <2>2. CASE pay' = [pay EXCEPT ![o][1] = "paid"] /\ receivable[o] = "due"
    <3>1. pay'[o][1] = "paid" /\ \A n \in Attempts : n # 1 => pay'[o][n] = "none"
      BY <1>1, <1>3, <2>2 DEF SafeOrder, Placement, TypeOK
    <3>2. Numbered(o)'
      <4>1. \A n \in Attempts : n <= 1 <=> n = 1
        BY ConstantsAssumption DEF ConstantsAssumption, Attempts
      <4>2. 1 \in 0 .. MaxAttempts
        BY ConstantsAssumption DEF ConstantsAssumption
      <4>3. \A n \in Attempts : pay'[o][n] = "none" => page'[o][n] = "none"
        BY <1>1, <3>1, <1>3 DEF SafeOrder, Numbered, Placement
      <4>4. o \notin starting'
        BY <1>1 DEF SafeOrder, Placement
      <4> QED
        BY <3>1, <4>1, <4>2, <4>3, <4>4 DEF Numbered
    <3>3. OnePaid(o)'
      BY <3>1 DEF OnePaid
    <3>4. Transactions(o)' /\ Owed(o)' /\ Verified(o)' /\ Settled(o)'
      BY <1>1 DEF SafeOrder, Placement, Transactions, Owed, Verified, Settled, Prepaid
    <3>5. Placement(o)'
      BY <1>1, <1>2, <3>1 DEF SafeOrder, Placement, Prepaid
    <3> QED
      BY <3>2, <3>3, <3>4, <3>5 DEF SafeOrder
  <2> QED
    BY <1>1, <2>1, <2>2 DEF CodPickedUp, CodDelivered, payVars
<1>5. \A p \in Orders \ {o} : SameRows(p)
  <2>1. \A p \in Orders \ {o} :
          resv'[p] = resv[p] /\ pay'[p] = pay[p] /\ (p \in ledger' <=> p \in ledger)
    BY <1>1 DEF TypeOK
  <2> QED
    BY <1>1, <2>1 DEF SameRows
<1> QED
  BY <1>4, <1>5, OneOrderSafe

LEMMA OrderStepSafe ==
  ASSUME SafetyInv, NEW o \in Orders, OrderStep(o)
  PROVE  \A p \in Orders : SafeOrder(p)'
<1>1. CASE QuoteWithCoupon(o) \/ PlaceFails(o) \/ WindowCloses(o)
  BY <1>1, QuietSafe
  DEF QuoteWithCoupon, PlaceFails, WindowCloses, creditVars, payVars, startVars
<1>2. CASE \E useCredit \in BOOLEAN : PlaceOrder(o, useCredit)
  BY <1>2, PlaceOrderSafe
<1>3. CASE ExpireUnpaid(o)
  BY <1>3, ExpireUnpaidSafe
<1>4. CASE StartPayment(o) \/ StartCommits(o) \/ StartFails(o)
  BY <1>4, StartPaymentSafe, StartCommitsSafe, StartFailsSafe
<1>5. CASE CodPickedUp(o) \/ CodDelivered(o)
  BY <1>5, CodSafe
<1>6. ASSUME NEW n \in Attempts, PaymentStep(o, n)
      PROVE  \A p \in Orders : SafeOrder(p)'
  <2>0. /\ payRef[o][n] \in 0 .. MaxAttempts
        /\ 0 \in 0 .. MaxAttempts
        /\ Attempts \subseteq 0 .. MaxAttempts
    BY ConstantsAssumption DEF ConstantsAssumption, SafetyInv, TypeOK, Attempts
  <2>1. CASE BuyerActs(o, n)
    BY <2>1, BuyerActsSafe
  <2>2. CASE Confirm(o, n) \/ Reconcile(o, n)
    BY <2>0, <2>2, BeginSettleSafe DEF Confirm, Reconcile
  <2>3. CASE WebhookStores(o, n)
    BY <2>3, QuietSafe DEF WebhookStores, creditVars, payVars, startVars
  <2>4. ASSUME NEW m \in Attempts, WebhookSettles(o, m, n)
        PROVE  \A p \in Orders : SafeOrder(p)'
    BY <2>0, <2>4, BeginSettleSafe DEF WebhookSettles
  <2>5. ASSUME NEW m \in Attempts, WebhookReplay(o, m, n)
        PROVE  \A p \in Orders : SafeOrder(p)'
    BY <2>5, WebhookReplaySafe
  <2>6. CASE SettleUnpaid(o, n) \/ SettleDuplicate(o, n) \/ SettlePaid(o, n)
    BY <2>6, SettleUnpaidSafe, SettleDuplicateSafe, SettlePaidSafe
  <2>7. CASE SettleRollsBack(o, n)
    BY <2>7, SettleRollsBackSafe
  <2> QED
    BY <1>6, <2>1, <2>2, <2>3, <2>4, <2>5, <2>6, <2>7 DEF PaymentStep
<1> QED
  BY <1>1, <1>2, <1>3, <1>4, <1>5, <1>6 DEF OrderStep

\* The invariant that carries the safety properties of checkout and payment:
\* it relates an order's status, reservations, rows, sessions and open
\* transactions, and every transaction of the code preserves it.
THEOREM SafetyHolds == Spec => []SafetyInv
<1>1. SafetyInv /\ TypeOK' /\ [Next]_vars => SafetyInv'
  <2> SUFFICES ASSUME SafetyInv, [Next]_vars
               PROVE  \A p \in Orders : SafeOrder(p)'
    BY DEF SafetyInv
  <2>1. ASSUME NEW o \in Orders, OrderStep(o)
        PROVE  \A p \in Orders : SafeOrder(p)'
    BY <2>1, OrderStepSafe
  <2>2. ASSUME NEW v \in Variants, AdjustStock(v)
        PROVE  \A p \in Orders : SafeOrder(p)'
    BY <2>2, QuietSafe DEF AdjustStock, creditVars, payVars, startVars
  <2>3. CASE UNCHANGED vars
    BY <2>3, QuietSafe DEF vars, creditVars, payVars, startVars
  <2> QED
    BY <2>1, <2>2, <2>3 DEF Next
<1> QED
  BY InitSafe, TypeCorrect, <1>1, PTL DEF Spec

-----------------------------------------------------------------------------
(* The properties *)

\* However many attempts, callbacks and retries of an order are settled at the
\* same time, at most one of its rows is ever paid.
THEOREM OnePaidHolds == Spec => []OnePaidAttempt
<1>1. SafetyInv => OnePaidAttempt
  BY DEF SafetyInv, SafeOrder, OnePaid, OnePaidAttempt, Paid
<1> QED
  BY SafetyHolds, <1>1, PTL

\* A prepaid row is paid only for money the provider holds for the session it
\* references, and for all the buyer owed.
THEOREM PaidIsCapturedHolds == Spec => []PaidIsCaptured
<1>1. SafetyInv => PaidIsCaptured
  BY DEF SafetyInv, SafeOrder, Verified, Owed, PaidIsCaptured, Paid
<1> QED
  BY SafetyHolds, <1>1, PTL

\* A prepaid order is confirmed, its stock sold and its capture posted together
\* and only when it is paid in full; a cancelled one has none of the three.
THEOREM ConfirmedIsPaidHolds == Spec => []ConfirmedIsPaid
<1>1. SafetyInv => ConfirmedIsPaid
  <2> SUFFICES ASSUME SafetyInv, NEW o \in Orders, Prepaid(o)
               PROVE  /\ order[o] = "confirmed" => Paid(o) # {} \/ creditPaid[o] = Total[o]
                      /\ order[o] = "pending_payment" =>
                           Paid(o) = {} /\ creditPaid[o] < Total[o]
                      /\ order[o] = "confirmed" <=> resv[o] = "consumed"
                      /\ order[o] = "confirmed" <=> o \in ledger
                      /\ order[o] = "cancelled" <=> resv[o] = "released"
    BY DEF ConfirmedIsPaid
  <2> QED
    BY DEF SafetyInv, SafeOrder, Settled, Paid
<1> QED
  BY SafetyHolds, <1>1, PTL

\* No transaction takes a confirmation, a cancellation, a sale of stock or a
\* paid row back.
THEOREM FinalityHolds == Spec => Finality
<1>1. SafetyInv /\ [Next]_vars => [StaysFinal]_vars
  <2> SUFFICES ASSUME SafetyInv, Next
               PROVE  StaysFinal
    OBVIOUS
  <2>0. TypeOK /\ \A p \in Orders : SafeOrder(p)
    BY DEF SafetyInv
  <2>1. CASE UNCHANGED <<order, resv, pay>>
    BY <2>1 DEF StaysFinal, Paid
  <2>2. ASSUME NEW o \in Orders, NEW useCredit \in BOOLEAN, PlaceOrder(o, useCredit)
        PROVE  StaysFinal
    <3>1. order[o] = "none" /\ resv[o] = "none" /\ \A n \in Attempts : pay[o][n] # "paid"
      BY <2>0, <2>2 DEF PlaceOrder, SafeOrder, Placement
    <3>2. \A p \in Orders \ {o} :
            order'[p] = order[p] /\ resv'[p] = resv[p] /\ pay'[p] = pay[p]
      BY <2>0, <2>2 DEF PlaceOrder, TypeOK
    <3> QED
      BY <3>1, <3>2 DEF StaysFinal, Paid
  <2>3. ASSUME NEW o \in Orders, ExpireUnpaid(o)
        PROVE  StaysFinal
    <3>1. order[o] = "pending_payment" /\ UNCHANGED pay
      BY <2>3 DEF ExpireUnpaid, Overdue, payVars
    <3>2. resv[o] \notin {"consumed", "released"}
      BY <2>0, <3>1 DEF SafeOrder, Placement, Settled
    <3>3. \A p \in Orders \ {o} : order'[p] = order[p] /\ resv'[p] = resv[p]
      BY <2>0, <2>3 DEF ExpireUnpaid, ReleaseOrder, TypeOK
    <3> QED
      BY <3>1, <3>2, <3>3 DEF StaysFinal, Paid
  <2>4. ASSUME NEW o \in Orders, StartCommits(o)
        PROVE  StaysFinal
    <3>1. UNCHANGED <<order, resv>>
      BY <2>4 DEF StartCommits
    <3>2. pay[o][NextAttempt(o)] # "paid"
      <4>1. /\ Numbered(o)
            /\ o \in starting
        BY <2>0, <2>4 DEF SafeOrder, StartCommits
      <4>2. PICK k \in 0 .. MaxAttempts : \A m \in Attempts : pay[o][m] # "none" <=> m <= k
        BY <4>1 DEF Numbered
      <4> QED
        BY <2>0, <4>1, <4>2, NextAttemptIsAttempt DEF Numbered
    <3>3. \A m \in superseded[o] : pay[o][m] = "pending"
      BY <2>0 DEF SafeOrder, Transactions
    <3>4. \A n \in Attempts : pay[o][n] = "paid" => pay'[o][n] = "paid"
      BY <2>0, <2>4, <3>2, <3>3 DEF StartCommits, TypeOK
    <3>5. \A p \in Orders \ {o} : pay'[p] = pay[p]
      BY <2>0, <2>4 DEF StartCommits, TypeOK
    <3> QED
      BY <3>1, <3>4, <3>5 DEF StaysFinal, Paid
  <2>5. ASSUME NEW o \in Orders, NEW n \in Attempts, SettleUnpaid(o, n) \/ SettleDuplicate(o, n)
        PROVE  StaysFinal
    <3>1. PICK status : pay' = [pay EXCEPT ![o][n] = status]
      BY <2>5 DEF SettleUnpaid, SettleDuplicate
    <3>2. pay[o][n] # "paid"
      BY <2>0, <2>5 DEF SettleUnpaid, SettleDuplicate, SafeOrder, Transactions, Idle
    <3> QED
      BY <2>0, <2>5, <3>1, <3>2 DEF SettleUnpaid, SettleDuplicate, StaysFinal, Paid, TypeOK
  <2>6. ASSUME NEW o \in Orders, NEW n \in Attempts, SettlePaid(o, n)
        PROVE  StaysFinal
    <3>1. pay' = [pay EXCEPT ![o][n] = "paid"]
      BY <2>6 DEF SettlePaid
    <3>2. /\ order' \in {order, [order EXCEPT ![o] = ConfirmedStatus(o)]}
          /\ resv' \in {resv, [resv EXCEPT ![o] = "consumed"]}
          /\ resv[o] = "held" \/ UNCHANGED resv
      BY <2>0, <2>6 DEF SettlePaid, ConsumeReservations, TypeOK
    <3>3. \A p \in Orders : /\ order[p] # "pending_payment" => order'[p] = order[p]
                            /\ resv[p] # "held" => resv'[p] = resv[p]
      BY <2>0, <3>2 DEF ConfirmedStatus, TypeOK
    <3>4. \A p \in Orders : \A m \in Attempts : pay[p][m] = "paid" => pay'[p][m] = "paid"
      BY <2>0, <3>1 DEF TypeOK
    <3> QED
      BY <3>3, <3>4 DEF StaysFinal, Paid
  <2>7. ASSUME NEW o \in Orders, CodPickedUp(o) \/ CodDelivered(o)
        PROVE  StaysFinal
    <3>1. /\ UNCHANGED order
          /\ pay' \in {pay, [pay EXCEPT ![o][1] = "paid"]}
          /\ resv' \in {resv, [resv EXCEPT ![o] = "consumed"]}
          /\ resv[o] = "held" \/ UNCHANGED resv
      BY <2>7 DEF CodPickedUp, CodDelivered, ConsumeReservations, payVars
    <3>2. \A p \in Orders : resv[p] # "held" => resv'[p] = resv[p]
      BY <2>0, <3>1 DEF TypeOK
    <3>3. \A p \in Orders : \A m \in Attempts : pay[p][m] = "paid" => pay'[p][m] = "paid"
      <4>1. CASE UNCHANGED pay
        BY <4>1
      <4>2. CASE pay' = [pay EXCEPT ![o][1] = "paid"]
        BY <2>0, <4>2 DEF TypeOK
      <4> QED
        BY <3>1, <4>1, <4>2
    <3> QED
      BY <3>1, <3>2, <3>3 DEF StaysFinal, Paid
  <2>8. ASSUME NEW o \in Orders, OrderStep(o)
        PROVE  StaysFinal
    <3>1. CASE QuoteWithCoupon(o) \/ PlaceFails(o) \/ WindowCloses(o) \/ StartPayment(o)
               \/ StartFails(o)
      BY <2>1, <3>1 DEF QuoteWithCoupon, PlaceFails, WindowCloses, StartPayment, StartFails,
         payVars
    <3>2. ASSUME NEW n \in Attempts, PaymentStep(o, n)
          PROVE  StaysFinal
      <4>1. CASE BuyerActs(o, n) \/ WebhookStores(o, n) \/ SettleRollsBack(o, n)
        BY <2>1, <4>1 DEF BuyerActs, WebhookStores, SettleRollsBack, payVars
      <4>2. CASE Confirm(o, n) \/ Reconcile(o, n)
        BY <2>1, <4>2 DEF Confirm, Reconcile, BeginSettle, payVars
      <4>3. CASE \E m \in Attempts : WebhookSettles(o, m, n) \/ WebhookReplay(o, m, n)
        BY <2>1, <4>3 DEF WebhookSettles, WebhookReplay, BeginSettle, payVars
      <4> QED
        BY <2>5, <2>6, <3>2, <4>1, <4>2, <4>3 DEF PaymentStep
    <3> QED
      BY <2>2, <2>3, <2>4, <2>7, <2>8, <3>1, <3>2 DEF OrderStep
  <2>9. ASSUME NEW v \in Variants, AdjustStock(v)
        PROVE  StaysFinal
    BY <2>1, <2>9 DEF AdjustStock, payVars
  <2> QED
    BY <2>8, <2>9 DEF Next
<1> QED
  BY SafetyHolds, <1>1, PTL DEF Spec, Finality

-----------------------------------------------------------------------------
(* The shelf *)

\* The shelf as the placements see it: nothing is promised twice, and what a
\* waiting placement found in stock under its locks is still there.
GoodsFree == \A v \in Variants : onHand[v] - reserved[v] >= 0

PlacementsHold ==
  \A o \in placing : /\ o \in CouponOrders
                     /\ order[o] = "none"
                     /\ \A v \in Variants : onHand[v] - reserved[v] >= Qty[o][v]

PlacementsApart ==
  \A o, p \in placing : o # p => \A v \in Variants : Qty[o][v] = 0 \/ Qty[p][v] = 0

ShelfInv == GoodsFree /\ PlacementsHold /\ PlacementsApart

LEMMA ShelfInit == Init => ShelfInv
<1> SUFFICES ASSUME Init PROVE ShelfInv
  OBVIOUS
<1>1. \A v \in Variants : Stock0[v] \in Nat
  BY ConstantsAssumption DEF ConstantsAssumption
<1>2. placing = {} /\ \A v \in Variants : onHand[v] = Stock0[v] /\ reserved[v] = 0
  BY DEF Init
<1> QED
  BY <1>1, <1>2 DEF ShelfInv, GoodsFree, PlacementsHold, PlacementsApart

\* A placement that is not blocked shares no variant with one that is waiting.
LEMMA FreeIsApart ==
  ASSUME TypeOK, NEW o \in Orders, VariantsFree(o)
  PROVE  \A p \in placing \ {o} : \A v \in Variants : Qty[o][v] = 0 \/ Qty[p][v] = 0
<1>1. \A p \in Orders : \A v \in Variants : Qty[p][v] \in Nat
  BY StockTypes
<1>2. placing \subseteq Orders
  BY DEF TypeOK
<1> QED
  BY <1>1, <1>2 DEF VariantsFree, SharesVariant

\* Placements only end and no shelf loses free units.
LEMMA ShelfKept ==
  ASSUME TypeOK, TypeOK', ShelfInv,
         \A v \in Variants : onHand'[v] - reserved'[v] >= onHand[v] - reserved[v],
         placing' \subseteq placing,
         \A o \in placing' : order'[o] = order[o]
  PROVE  ShelfInv'
<1>1. \A v \in Variants : /\ onHand[v] \in Int /\ reserved[v] \in Int
                          /\ onHand'[v] \in Int /\ reserved'[v] \in Int
  BY DEF TypeOK
<1>2. \A o \in Orders : \A v \in Variants : Qty[o][v] \in Nat
  BY StockTypes
<1>3. GoodsFree'
  BY <1>1 DEF ShelfInv, GoodsFree
<1>4. PlacementsHold'
  <2> SUFFICES ASSUME NEW o \in placing'
               PROVE  /\ o \in CouponOrders
                      /\ order'[o] = "none"
                      /\ \A v \in Variants : onHand'[v] - reserved'[v] >= Qty[o][v]
    BY DEF PlacementsHold
  <2>1. /\ o \in Orders
        /\ o \in CouponOrders
        /\ order[o] = "none"
        /\ \A v \in Variants : onHand[v] - reserved[v] >= Qty[o][v]
    BY DEF ShelfInv, PlacementsHold, TypeOK
  <2> QED
    BY <1>1, <1>2, <2>1
<1>5. PlacementsApart'
  BY DEF ShelfInv, PlacementsApart
<1> QED
  BY <1>3, <1>4, <1>5 DEF ShelfInv

\* Selling what an order holds leaves the free units as they are.
LEMMA ConsumeKeepsFree ==
  ASSUME TypeOK, NEW o \in Orders, ConsumeReservations(o)
  PROVE  \A v \in Variants : onHand'[v] - reserved'[v] = onHand[v] - reserved[v]
<1>1. \A v \in Variants : Qty[o][v] \in Int /\ onHand[v] \in Int /\ reserved[v] \in Int
  BY StockTypes
<1>2. CASE resv[o] = "held"
  <2>1. \A v \in Variants : /\ onHand'[v] = onHand[v] - Qty[o][v]
                            /\ reserved'[v] = reserved[v] - Qty[o][v]
    BY <1>2 DEF ConsumeReservations
  <2> QED
    BY <1>1, <2>1
<1>3. CASE resv[o] # "held"
  BY <1>3 DEF ConsumeReservations
<1> QED
  BY <1>2, <1>3

\* A placement takes its units off the free stock, whichever way it is paid.
LEMMA PlaceOrderTakes ==
  ASSUME TypeOK, ShelfInv, NEW o \in Orders, NEW useCredit \in BOOLEAN,
         PlaceOrder(o, useCredit)
  PROVE  /\ \A v \in Variants :
              /\ onHand'[v] - reserved'[v] = (onHand[v] - reserved[v]) - Qty[o][v]
              /\ onHand[v] - reserved[v] >= Qty[o][v]
         /\ \A p \in placing \ {o} : \A v \in Variants : Qty[o][v] = 0 \/ Qty[p][v] = 0
<1>1. \A v \in Variants : Qty[o][v] \in Int /\ onHand[v] \in Int /\ reserved[v] \in Int
  BY StockTypes
<1>2. \/ /\ onHand' = [v \in Variants |-> onHand[v] - Qty[o][v]]
         /\ UNCHANGED reserved
      \/ /\ reserved' = [v \in Variants |-> reserved[v] + Qty[o][v]]
         /\ UNCHANGED onHand
  BY DEF PlaceOrder
<1>3. \A v \in Variants :
        onHand'[v] - reserved'[v] = (onHand[v] - reserved[v]) - Qty[o][v]
  BY <1>1, <1>2
<1>4. CASE o \in CouponOrders
  <2>1. o \in placing
    BY <1>4 DEF PlaceOrder
  <2> QED
    BY <1>3, <2>1 DEF ShelfInv, PlacementsHold, PlacementsApart
<1>5. CASE o \notin CouponOrders
  <2>1. InStock(o) /\ VariantsFree(o)
    BY <1>5 DEF PlaceOrder
  <2> QED
    BY <1>3, <2>1, FreeIsApart DEF InStock
<1> QED
  BY <1>4, <1>5

LEMMA ShelfPlaceOrder ==
  ASSUME TypeOK, TypeOK', ShelfInv, NEW o \in Orders, NEW useCredit \in BOOLEAN,
         PlaceOrder(o, useCredit)
  PROVE  ShelfInv'
<1>1. \A v \in Variants : /\ onHand[v] \in Int /\ reserved[v] \in Int
                          /\ onHand'[v] \in Int /\ reserved'[v] \in Int
                          /\ \A p \in Orders : Qty[p][v] \in Nat
  BY StockTypes DEF TypeOK
<1>2. \A v \in Variants :
        /\ onHand'[v] - reserved'[v] = (onHand[v] - reserved[v]) - Qty[o][v]
        /\ onHand[v] - reserved[v] >= Qty[o][v]
  BY PlaceOrderTakes
<1>3. \A p \in placing \ {o} : \A v \in Variants : Qty[o][v] = 0 \/ Qty[p][v] = 0
  BY PlaceOrderTakes
<1>4. placing' = placing \ {o} /\ order' \in [Orders -> {"none", "pending_payment", "confirmed", "cancelled"}]
  BY DEF PlaceOrder, TypeOK
<1>5. \A p \in Orders \ {o} : order'[p] = order[p]
  BY DEF PlaceOrder, TypeOK
<1>6. GoodsFree'
  BY <1>1, <1>2 DEF GoodsFree
<1>7. PlacementsHold'
  <2> SUFFICES ASSUME NEW p \in placing \ {o}
               PROVE  /\ p \in CouponOrders
                      /\ order'[p] = "none"
                      /\ \A v \in Variants : onHand'[v] - reserved'[v] >= Qty[p][v]
    BY <1>4 DEF PlacementsHold
  <2>1. p \in Orders \ {o} /\ p \in CouponOrders /\ order[p] = "none"
    BY DEF ShelfInv, PlacementsHold, TypeOK
  <2>2. ASSUME NEW v \in Variants
        PROVE  onHand'[v] - reserved'[v] >= Qty[p][v]
    <3>1. onHand[v] - reserved[v] >= Qty[p][v]
      BY DEF ShelfInv, PlacementsHold
    <3>2. CASE Qty[o][v] = 0
      BY <1>1, <1>2, <3>1, <3>2
    <3>3. CASE Qty[p][v] = 0
      BY <1>1, <1>2, <3>3
    <3> QED
      BY <1>3, <3>2, <3>3
  <2> QED
    BY <1>5, <2>1, <2>2
<1>8. PlacementsApart'
  BY <1>4 DEF ShelfInv, PlacementsApart
<1> QED
  BY <1>6, <1>7, <1>8 DEF ShelfInv

LEMMA ShelfQuote ==
  ASSUME TypeOK, ShelfInv, NEW o \in Orders, QuoteWithCoupon(o)
  PROVE  ShelfInv'
<1>1. /\ o \in CouponOrders
      /\ order[o] = "none"
      /\ \A v \in Variants : onHand[v] - reserved[v] >= Qty[o][v]
      /\ placing' = placing \cup {o}
      /\ UNCHANGED <<order, onHand, reserved>>
  BY DEF QuoteWithCoupon, InStock, stockVars
<1>2. \A p \in placing \ {o} : \A v \in Variants : Qty[o][v] = 0 \/ Qty[p][v] = 0
  BY FreeIsApart DEF QuoteWithCoupon
<1> QED
  BY <1>1, <1>2 DEF ShelfInv, GoodsFree, PlacementsHold, PlacementsApart

\* A recount keeps reserved units covered and the shelves of open placements.
LEMMA AdjustKeepsCover ==
  ASSUME TypeOK, NEW v \in Variants, AdjustStock(v)
  PROVE  /\ onHand'[v] - reserved'[v] >= 0
         /\ \A w \in Variants \ {v} : onHand'[w] = onHand[w]
         /\ UNCHANGED <<order, reserved, placing>>
         /\ \A p \in placing : Qty[p][v] = 0
<1>1. PICK delta \in {-1, 1} :
        /\ onHand[v] + delta \in reserved[v] .. MaxStock
        /\ onHand' = [onHand EXCEPT ![v] = @ + delta]
  BY DEF AdjustStock
<1>2. onHand[v] \in Int /\ reserved[v] \in Int
  BY DEF TypeOK
<1>3. onHand'[v] = onHand[v] + delta /\ \A w \in Variants \ {v} : onHand'[w] = onHand[w]
  BY <1>1 DEF TypeOK
<1>4. onHand'[v] >= reserved[v]
  BY <1>1, <1>3
<1>5. UNCHANGED <<order, reserved, placing>> /\ \A p \in placing : Qty[p][v] = 0
  BY DEF AdjustStock, placeVars
<1> QED
  BY <1>2, <1>3, <1>4, <1>5

LEMMA ShelfAdjust ==
  ASSUME TypeOK, ShelfInv, NEW v \in Variants, AdjustStock(v)
  PROVE  ShelfInv'
<1>1. GoodsFree'
  BY AdjustKeepsCover DEF ShelfInv, GoodsFree
<1>2. PlacementsHold'
  <2> SUFFICES ASSUME NEW o \in placing, NEW w \in Variants
               PROVE  onHand'[w] - reserved'[w] >= Qty[o][w]
    BY AdjustKeepsCover DEF ShelfInv, PlacementsHold
  <2>1. CASE w = v
    BY <2>1, AdjustKeepsCover
  <2>2. CASE w # v
    BY <2>2, AdjustKeepsCover DEF ShelfInv, PlacementsHold
  <2> QED
    BY <2>1, <2>2
<1> QED
  BY <1>1, <1>2, AdjustKeepsCover DEF ShelfInv, PlacementsApart

LEMMA ExpireGivesBack ==
  ASSUME SafetyInv, NEW o \in Orders, ExpireUnpaid(o)
  PROVE  /\ order[o] = "pending_payment"
         /\ order' = [order EXCEPT ![o] = "cancelled"]
         /\ UNCHANGED <<placing, pay, creditPaid>>
         /\ \A v \in Variants :
              onHand'[v] - reserved'[v] = (onHand[v] - reserved[v]) + Qty[o][v]
<1>1. /\ order[o] = "pending_payment"
      /\ order' = [order EXCEPT ![o] = "cancelled"]
      /\ UNCHANGED <<onHand, placing, pay, creditPaid>>
  BY DEF ExpireUnpaid, Overdue, ReleaseOrder, placeVars, payVars, creditVars
<1>2. resv[o] = "held"
  BY <1>1 DEF SafetyInv, SafeOrder, Placement, Settled, TypeOK
<1>3. \A v \in Variants : reserved'[v] = reserved[v] - Qty[o][v]
  BY <1>2 DEF ExpireUnpaid, ReleaseOrder
<1>4. \A v \in Variants : Qty[o][v] \in Int /\ onHand[v] \in Int /\ reserved[v] \in Int
  BY StockTypes DEF SafetyInv
<1> QED
  BY <1>1, <1>3, <1>4

LEMMA ShelfOrderStep ==
  ASSUME SafetyInv, TypeOK', ShelfInv, NEW o \in Orders, OrderStep(o)
  PROVE  ShelfInv'
<1>0. TypeOK
  BY DEF SafetyInv
<1>1. CASE UNCHANGED <<order, onHand, reserved>> /\ placing' \subseteq placing
  <2>1. \A v \in Variants : onHand'[v] - reserved'[v] >= onHand[v] - reserved[v]
    BY <1>0, <1>1 DEF TypeOK
  <2> QED
    BY <1>0, <1>1, <2>1, ShelfKept
<1>2. CASE QuoteWithCoupon(o)
  BY <1>0, <1>2, ShelfQuote
<1>3. CASE \E useCredit \in BOOLEAN : PlaceOrder(o, useCredit)
  BY <1>0, <1>3, ShelfPlaceOrder
<1>4. CASE PlaceFails(o) \/ WindowCloses(o) \/ StartPayment(o) \/ StartCommits(o)
           \/ StartFails(o)
  BY <1>1, <1>4 DEF PlaceFails, WindowCloses, StartPayment, StartCommits, StartFails,
     stockVars, placeVars
<1>5. CASE ExpireUnpaid(o)
  <2>1. \A v \in Variants : Qty[o][v] \in Nat /\ onHand[v] \in Int /\ reserved[v] \in Int
    BY <1>0, StockTypes
  <2>2. \A v \in Variants : onHand'[v] - reserved'[v] >= onHand[v] - reserved[v]
    BY <1>5, <2>1, ExpireGivesBack
  <2>3. placing' = placing /\ o \notin placing
    BY <1>5, ExpireGivesBack DEF ShelfInv, PlacementsHold
  <2>4. \A p \in placing' : order'[p] = order[p]
    BY <1>0, <1>5, <2>3, ExpireGivesBack DEF TypeOK
  <2> QED
    BY <1>0, <2>2, <2>3, <2>4, ShelfKept
<1>6. CASE CodPickedUp(o) \/ CodDelivered(o)
  <2>1. ConsumeReservations(o) /\ UNCHANGED <<order, placing>>
    BY <1>6 DEF CodPickedUp, CodDelivered, placeVars
  <2>2. \A v \in Variants : onHand'[v] - reserved'[v] >= onHand[v] - reserved[v]
    BY <1>0, <2>1, ConsumeKeepsFree DEF TypeOK
  <2> QED
    BY <1>0, <2>1, <2>2, ShelfKept
<1>7. ASSUME NEW n \in Attempts, PaymentStep(o, n)
      PROVE  ShelfInv'
  <2>1. CASE SettlePaid(o, n)
    <3>1. UNCHANGED placing /\ order[o] # "none"
      BY <2>1 DEF SettlePaid, FinishSettle, placeVars, SafetyInv, SafeOrder, Placement,
         Transactions, Idle
    <3>2. \A v \in Variants : onHand'[v] - reserved'[v] >= onHand[v] - reserved[v]
      <4>1. ConsumeReservations(o) \/ UNCHANGED <<onHand, reserved>>
        BY <2>1 DEF SettlePaid
      <4> QED
        BY <1>0, <4>1, ConsumeKeepsFree DEF TypeOK
    <3>3. \A p \in placing : p # o /\ order'[p] = order[p]
      <4>1. \A p \in placing : p \in Orders /\ p # o
        BY <1>0, <3>1 DEF ShelfInv, PlacementsHold, TypeOK
      <4> QED
        BY <1>0, <2>1, <4>1 DEF SettlePaid, TypeOK
    <3> QED
      BY <1>0, <3>1, <3>2, <3>3, ShelfKept
  <2>2. CASE SettleUnpaid(o, n) \/ SettleDuplicate(o, n)
    BY <1>1, <2>2 DEF SettleUnpaid, SettleDuplicate, FinishSettle, placeVars
  <2>3. CASE BuyerActs(o, n) \/ Confirm(o, n) \/ Reconcile(o, n) \/ WebhookStores(o, n)
             \/ SettleRollsBack(o, n)
    BY <1>1, <2>3 DEF BuyerActs, Confirm, Reconcile, BeginSettle, WebhookStores,
       SettleRollsBack, stockVars, placeVars
  <2>4. CASE \E m \in Attempts : WebhookSettles(o, m, n) \/ WebhookReplay(o, m, n)
    BY <1>1, <2>4 DEF WebhookSettles, WebhookReplay, BeginSettle, stockVars, placeVars
  <2> QED
    BY <1>7, <2>1, <2>2, <2>3, <2>4 DEF PaymentStep
<1> QED
  BY <1>2, <1>3, <1>4, <1>5, <1>6, <1>7 DEF OrderStep

\* No unit of stock is promised twice: in every reachable state each shelf
\* covers what is reserved from it, and a placement that waits with its locks
\* still finds everything it checked.
THEOREM ShelfHolds == Spec => []ShelfInv
<1>1. SafetyInv /\ TypeOK' /\ ShelfInv /\ [Next]_vars => ShelfInv'
  <2> SUFFICES ASSUME SafetyInv, TypeOK', ShelfInv, [Next]_vars
               PROVE  ShelfInv'
    OBVIOUS
  <2>1. ASSUME NEW o \in Orders, OrderStep(o)
        PROVE  ShelfInv'
    BY <2>1, ShelfOrderStep
  <2>2. ASSUME NEW v \in Variants, AdjustStock(v)
        PROVE  ShelfInv'
    BY <2>2, ShelfAdjust DEF SafetyInv
  <2>3. CASE UNCHANGED vars
    BY <2>3 DEF vars, stockVars, placeVars, ShelfInv, GoodsFree, PlacementsHold,
       PlacementsApart
  <2> QED
    BY <2>1, <2>2, <2>3 DEF Next
<1> QED
  BY ShelfInit, SafetyHolds, TypeCorrect, <1>1, PTL DEF Spec

-----------------------------------------------------------------------------
(* The refinement *)

LEMMA PromiseInit == Init => Promise!Init
<1> SUFFICES ASSUME Init PROVE Promise!Init
  OBVIOUS
<1>1. FreeStock \in [Variants -> Nat]
  <2>1. \A v \in Variants : onHand[v] - reserved[v] \in Nat
    BY ConstantsAssumption DEF ConstantsAssumption, Init
  <2> QED
    BY <2>1 DEF FreeStock
<1>2. PromiseState = [o \in Orders |-> "none"]
  BY DEF Init, PromiseState, Stage
<1>3. PaidInFull = {}
  <2>1. \A o \in Orders : Total[o] # 0
    BY ConstantsAssumption DEF ConstantsAssumption
  <2> QED
    BY <2>1 DEF Init, PaidInFull, AlreadyPaid, Paid
<1> QED
  BY <1>1, <1>2, <1>3 DEF Promise!Init

\* Who is paid in full is settled order by order.
LEMMA PaidElsewhere ==
  ASSUME NEW o \in Orders,
         \A p \in Orders \ {o} : pay'[p] = pay[p] /\ creditPaid'[p] = creditPaid[p]
  PROVE  /\ o \in PaidInFull' => PaidInFull' = PaidInFull \cup {o}
         /\ (o \in PaidInFull' <=> o \in PaidInFull) => PaidInFull' = PaidInFull
<1>1. \A p \in Orders \ {o} : p \in PaidInFull' <=> p \in PaidInFull
  BY DEF PaidInFull, AlreadyPaid, Paid
<1>2. PaidInFull \subseteq Orders /\ PaidInFull' \subseteq Orders
  BY DEF PaidInFull
<1> QED
  BY <1>1, <1>2

\* A step that moves no status, no goods and no money.
LEMMA QuietStutters ==
  ASSUME UNCHANGED <<order, onHand, reserved, creditPaid>>,
         \A p \in Orders : \A n \in Attempts : pay'[p][n] = "paid" <=> pay[p][n] = "paid"
  PROVE  UNCHANGED <<FreeStock, PromiseState, PaidInFull>>
BY DEF FreeStock, PromiseState, PaidInFull, AlreadyPaid, Paid

LEMMA StageMoves ==
  ASSUME TypeOK, NEW o \in Orders, NEW status, order' = [order EXCEPT ![o] = status]
  PROVE  PromiseState' = [PromiseState EXCEPT ![o] = Stage(status)]
<1>1. order'[o] = status /\ \A p \in Orders \ {o} : order'[p] = order[p]
  BY DEF TypeOK
<1>2. \A p \in Orders : Stage(order'[p]) = IF p = o THEN Stage(status) ELSE Stage(order[p])
  BY <1>1
<1>3. PromiseState' = [p \in Orders |-> Stage(order'[p])]
  BY DEF PromiseState
<1>4. [PromiseState EXCEPT ![o] = Stage(status)]
        = [p \in Orders |-> IF p = o THEN Stage(status) ELSE Stage(order[p])]
  BY DEF PromiseState
<1> QED
  BY <1>2, <1>3, <1>4

LEMMA PlaceOrderPromises ==
  ASSUME SafetyInv, ShelfInv, NEW o \in Orders, NEW useCredit \in BOOLEAN,
         PlaceOrder(o, useCredit)
  PROVE  Promise!Reserve(o) \/ Promise!Buy(o)
<1> DEFINE applied == IF useCredit THEN Applied(o) ELSE 0
<1>1. /\ TypeOK
      /\ order[o] = "none"
      /\ creditPaid[o] = 0
      /\ \A n \in Attempts : pay[o][n] = "none"
      /\ Total[o] # 0
  BY ConstantsAssumption DEF ConstantsAssumption, SafetyInv, SafeOrder, Placement, PlaceOrder
<1>2. o \notin PaidInFull
  BY <1>1 DEF PaidInFull, AlreadyPaid, Paid
<1>3. Promise!TakeGoods(o)
  BY <1>1, PlaceOrderTakes DEF Promise!TakeGoods, FreeStock
<1>4. PromiseState[o] = "none"
  BY <1>1 DEF PromiseState, Stage
<1>5. /\ creditPaid' = [creditPaid EXCEPT ![o] = applied]
      /\ pay' \in {pay, [pay EXCEPT ![o][1] = "pending"]}
  BY DEF PlaceOrder
<1>6. /\ \A p \in Orders \ {o} : pay'[p] = pay[p] /\ creditPaid'[p] = creditPaid[p]
      /\ \A n \in Attempts : pay'[o][n] # "paid"
      /\ creditPaid'[o] = applied
  <2> HIDE DEF applied
  <2>1. \A p \in Orders \ {o} : pay'[p] = pay[p] /\ creditPaid'[p] = creditPaid[p]
    BY <1>1, <1>5 DEF TypeOK
  <2>2. \A n \in Attempts : pay'[o][n] # "paid"
    <3>1. CASE pay' = pay
      BY <1>1, <3>1
    <3>2. CASE pay' = [pay EXCEPT ![o][1] = "pending"]
      BY <1>1, <3>2 DEF TypeOK
    <3> QED
      BY <1>5, <3>1, <3>2
  <2>3. creditPaid'[o] = applied
    BY <1>1, <1>5 DEF TypeOK
  <2> QED
    BY <2>1, <2>2, <2>3
<1>7. o \in PaidInFull' <=> applied = Total[o]
  BY <1>6 DEF PaidInFull, AlreadyPaid, Paid
<1>8. CASE applied = Total[o] \/ ~Prepaid(o)
  <2>1. order' = [order EXCEPT ![o] = "confirmed"]
    BY <1>8 DEF PlaceOrder
  <2>2. PromiseState' = [PromiseState EXCEPT ![o] = "promised"]
    BY <1>1, <2>1, StageMoves DEF Stage
  <2>3. PaidInFull' \in {PaidInFull, PaidInFull \cup {o}}
    BY <1>2, <1>6, PaidElsewhere
  <2> QED
    BY <1>3, <1>4, <2>2, <2>3 DEF Promise!Buy
<1>9. CASE applied # Total[o] /\ Prepaid(o)
  <2>1. order' = [order EXCEPT ![o] = "pending_payment"]
    BY <1>9 DEF PlaceOrder
  <2>2. PromiseState' = [PromiseState EXCEPT ![o] = "waiting"]
    BY <1>1, <2>1, StageMoves DEF Stage
  <2>3. PaidInFull' = PaidInFull
    BY <1>2, <1>6, <1>7, <1>9, PaidElsewhere
  <2> QED
    BY <1>3, <1>4, <2>2, <2>3 DEF Promise!Reserve
<1> QED
  BY <1>8, <1>9

LEMMA ExpiryReleases ==
  ASSUME SafetyInv, NEW o \in Orders, ExpireUnpaid(o)
  PROVE  Promise!Release(o)
<1>1. TypeOK /\ order[o] = "pending_payment" /\ Prepaid(o)
  BY ExpireGivesBack DEF SafetyInv, SafeOrder, Placement
<1>2. creditPaid[o] < Total[o] /\ \A n \in Attempts : pay[o][n] # "paid"
  BY <1>1 DEF SafetyInv, SafeOrder, Settled
<1>3. creditPaid[o] # Total[o]
  BY <1>1, <1>2, MoneyTypes
<1>4. o \notin PaidInFull
  BY <1>2, <1>3 DEF PaidInFull, AlreadyPaid, Paid
<1>5. PaidInFull' = PaidInFull
  BY ExpireGivesBack DEF PaidInFull, AlreadyPaid, Paid
<1>6. PromiseState[o] = "waiting" /\ PromiseState' = [PromiseState EXCEPT ![o] = "released"]
  BY <1>1, StageMoves, ExpireGivesBack DEF PromiseState, Stage
<1>7. FreeStock' = [v \in Variants |-> FreeStock[v] + Qty[o][v]]
  BY ExpireGivesBack DEF FreeStock
<1> QED
  BY <1>4, <1>5, <1>6, <1>7 DEF Promise!Release

LEMMA SettlementPays ==
  ASSUME SafetyInv, NEW o \in Orders, NEW n \in Attempts, SettlePaid(o, n)
  PROVE  \/ Promise!Pay(o)
         \/ Promise!PayLater(o)
         \/ UNCHANGED <<FreeStock, PromiseState, PaidInFull>>
<1>1. /\ TypeOK
      /\ pay' = [pay EXCEPT ![o][n] = "paid"]
      /\ UNCHANGED creditPaid
      /\ settling[o][n].answer = "paid"
  BY DEF SafetyInv, SettlePaid, FinishSettle, creditVars
<1>2. Prepaid(o) /\ pay[o][n] \notin {"none", "paid"}
  BY <1>1 DEF SafetyInv, SafeOrder, Transactions, Idle
<1>3. order[o] \in {"pending_payment", "confirmed", "cancelled"}
  BY <1>1, <1>2 DEF SafetyInv, SafeOrder, Placement, TypeOK
<1>4. Total[o] - creditPaid[o] - amount[o][n] <= 0
  <2>1. amount[o][n] \in Int /\ creditPaid[o] + amount[o][n] = Total[o]
    BY <1>1, <1>2 DEF SafetyInv, SafeOrder, Owed, TypeOK
  <2> QED
    BY <1>1, <2>1, MoneyTypes
<1>5. order' = [order EXCEPT ![o] = ConfirmedStatus(o)] /\ ConsumeReservations(o)
  BY <1>4 DEF SettlePaid
<1>6. FreeStock' = FreeStock
  BY <1>1, <1>5, ConsumeKeepsFree DEF FreeStock
<1>7. pay'[o][n] = "paid" /\ \A p \in Orders \ {o} : pay'[p] = pay[p]
  BY <1>1 DEF TypeOK
<1>8. PaidInFull' = PaidInFull \cup {o}
  <2>1. o \in PaidInFull'
    BY <1>7 DEF PaidInFull, AlreadyPaid, Paid
  <2> QED
    BY <1>1, <1>7, <2>1, PaidElsewhere
<1>9. CASE order[o] = "pending_payment"
  <2>1. PromiseState[o] = "waiting" /\ PromiseState' = [PromiseState EXCEPT ![o] = "promised"]
    BY <1>1, <1>5, <1>9, StageMoves DEF PromiseState, Stage, ConfirmedStatus
  <2> QED
    BY <1>6, <1>8, <2>1 DEF Promise!Pay
<1>10. CASE order[o] # "pending_payment"
  <2>1. order' = order
    BY <1>1, <1>5, <1>10 DEF ConfirmedStatus, TypeOK
  <2>2. PromiseState' = PromiseState /\ PromiseState[o] \in {"promised", "released"}
    BY <1>3, <1>10, <2>1 DEF PromiseState, Stage
  <2>3. CASE o \in PaidInFull
    BY <1>6, <1>8, <2>2, <2>3
  <2>4. CASE o \notin PaidInFull
    BY <1>6, <1>8, <2>2, <2>4 DEF Promise!PayLater
  <2> QED
    BY <2>3, <2>4
<1> QED
  BY <1>9, <1>10

LEMMA CashPays ==
  ASSUME SafetyInv, NEW o \in Orders, CodPickedUp(o) \/ CodDelivered(o)
  PROVE  Promise!PayLater(o) \/ UNCHANGED <<FreeStock, PromiseState, PaidInFull>>
<1>1. /\ TypeOK
      /\ order[o] = "confirmed"
      /\ ConsumeReservations(o)
      /\ UNCHANGED <<order, creditPaid>>
      /\ pay' \in {pay, [pay EXCEPT ![o][1] = "paid"]}
  BY DEF SafetyInv, CodPickedUp, CodDelivered, creditVars, payVars
<1>2. FreeStock' = FreeStock
  BY <1>1, ConsumeKeepsFree DEF FreeStock
<1>3. PromiseState' = PromiseState /\ PromiseState[o] = "promised"
  BY <1>1 DEF PromiseState, Stage
<1>4. \A p \in Orders \ {o} : pay'[p] = pay[p] /\ creditPaid'[p] = creditPaid[p]
  BY <1>1 DEF TypeOK
<1>5. \/ PaidInFull' = PaidInFull
      \/ PaidInFull' = PaidInFull \cup {o} /\ o \notin PaidInFull
  <2>1. o \in PaidInFull => o \in PaidInFull'
    <3>1. \A n \in Attempts : pay[o][n] = "paid" => pay'[o][n] = "paid"
      <4>1. CASE pay' = pay
        BY <4>1
      <4>2. CASE pay' = [pay EXCEPT ![o][1] = "paid"]
        BY <1>1, <4>2 DEF TypeOK
      <4> QED
        BY <1>1, <4>1, <4>2
    <3> QED
      BY <1>1, <3>1 DEF PaidInFull, AlreadyPaid, Paid
  <2>2. CASE o \in PaidInFull \/ o \notin PaidInFull'
    <3>1. o \in PaidInFull' <=> o \in PaidInFull
      BY <2>1, <2>2
    <3>2. PaidInFull' = PaidInFull
      BY <1>4, <3>1, PaidElsewhere, Zenon
    <3> QED
      BY <3>2
  <2>3. CASE o \notin PaidInFull /\ o \in PaidInFull'
    BY <1>4, <2>3, PaidElsewhere
  <2> QED
    BY <2>2, <2>3
<1> QED
  BY <1>2, <1>3, <1>5 DEF Promise!PayLater

LEMMA StaffRecount ==
  ASSUME SafetyInv, ShelfInv, NEW v \in Variants, AdjustStock(v)
  PROVE  Promise!Recount(v)
<1>1. TypeOK
  BY DEF SafetyInv
<1>2. /\ UNCHANGED <<order, pay, creditPaid, reserved>>
      /\ \A w \in Variants \ {v} : onHand'[w] = onHand[w]
      /\ onHand'[v] - reserved'[v] >= 0
  BY <1>1, AdjustKeepsCover DEF AdjustStock, payVars, creditVars
<1>3. onHand' \in [Variants -> Int]
  BY <1>1 DEF AdjustStock, TypeOK
<1>4. \A w \in Variants : onHand'[w] - reserved'[w] \in Nat
  <2> SUFFICES ASSUME NEW w \in Variants PROVE onHand'[w] - reserved'[w] \in Nat
    OBVIOUS
  <2>1. onHand[w] \in Int /\ reserved[w] \in Int /\ onHand'[w] \in Int /\ reserved'[w] = reserved[w]
    BY <1>1, <1>2, <1>3 DEF TypeOK
  <2>2. onHand'[w] - reserved'[w] >= 0
    <3>1. CASE w = v
      BY <1>2, <3>1
    <3>2. CASE w # v
      BY <1>2, <2>1, <3>2 DEF ShelfInv, GoodsFree
    <3> QED
      BY <3>1, <3>2
  <2> QED
    BY <2>1, <2>2
<1>5. FreeStock' \in [Variants -> Nat] /\ \A w \in Variants \ {v} : FreeStock'[w] = FreeStock[w]
  BY <1>2, <1>4 DEF FreeStock
<1>6. UNCHANGED <<PromiseState, PaidInFull>>
  BY <1>2 DEF PromiseState, Stage, PaidInFull, AlreadyPaid, Paid
<1> QED
  BY <1>5, <1>6 DEF Promise!Recount

\* Rows that are not paid before a step and not after it.
LEMMA UnpaidRowsStutter ==
  ASSUME TypeOK, NEW o \in Orders, NEW n \in Attempts, NEW status,
         pay[o][n] # "paid", status # "paid", pay' = [pay EXCEPT ![o][n] = status],
         UNCHANGED <<order, onHand, reserved, creditPaid>>
  PROVE  UNCHANGED <<FreeStock, PromiseState, PaidInFull>>
<1>1. \A p \in Orders : \A m \in Attempts : pay'[p][m] = "paid" <=> pay[p][m] = "paid"
  BY DEF TypeOK
<1> QED
  BY <1>1, QuietStutters

LEMMA StartCommitsStutters ==
  ASSUME SafetyInv, NEW o \in Orders, StartCommits(o)
  PROVE  UNCHANGED <<FreeStock, PromiseState, PaidInFull>>
<1>1. /\ TypeOK
      /\ Numbered(o)
      /\ o \in starting
      /\ UNCHANGED <<order, onHand, reserved, creditPaid>>
      /\ \A m \in superseded[o] : pay[o][m] = "pending"
  BY DEF SafetyInv, SafeOrder, Transactions, StartCommits, stockVars, creditVars
<1>2. PICK k \in 0 .. MaxAttempts : \A m \in Attempts : pay[o][m] # "none" <=> m <= k
  BY <1>1 DEF Numbered
<1>3. pay[o][NextAttempt(o)] = "none"
  BY <1>1, <1>2, NextAttemptIsAttempt DEF Numbered
<1>4. \A m \in Attempts : pay'[o][m] = "paid" <=> pay[o][m] = "paid"
  BY <1>1, <1>3 DEF StartCommits, TypeOK
<1>5. \A p \in Orders \ {o} : pay'[p] = pay[p]
  BY <1>1 DEF StartCommits, TypeOK
<1>6. \A p \in Orders : \A m \in Attempts : pay'[p][m] = "paid" <=> pay[p][m] = "paid"
  BY <1>4, <1>5
<1> QED
  BY <1>1, <1>6, QuietStutters

LEMMA PaymentStepKeepsPromise ==
  ASSUME SafetyInv, NEW o \in Orders, NEW n \in Attempts, PaymentStep(o, n)
  PROVE  \/ Promise!Pay(o)
         \/ Promise!PayLater(o)
         \/ UNCHANGED <<FreeStock, PromiseState, PaidInFull>>
<1>1. CASE UNCHANGED <<order, onHand, reserved, creditPaid, pay>>
  BY <1>1, QuietStutters
<1>2. CASE BuyerActs(o, n) \/ Confirm(o, n) \/ Reconcile(o, n) \/ WebhookStores(o, n)
           \/ SettleRollsBack(o, n)
  BY <1>1, <1>2 DEF BuyerActs, Confirm, Reconcile, BeginSettle, WebhookStores,
     SettleRollsBack, stockVars, creditVars, payVars
<1>3. CASE \E m \in Attempts : WebhookSettles(o, m, n) \/ WebhookReplay(o, m, n)
  BY <1>1, <1>3 DEF WebhookSettles, WebhookReplay, BeginSettle, stockVars, creditVars, payVars
<1>4. CASE SettleUnpaid(o, n) \/ SettleDuplicate(o, n)
  <2>1. /\ UNCHANGED <<order, onHand, reserved, creditPaid>>
        /\ \E status : status # "paid" /\ pay' = [pay EXCEPT ![o][n] = status]
    BY <1>4 DEF SettleUnpaid, SettleDuplicate, FinishSettle, creditVars
  <2>2. TypeOK /\ pay[o][n] # "paid"
    BY <1>4 DEF SettleUnpaid, SettleDuplicate, SafetyInv, SafeOrder, Transactions, Idle
  <2> QED
    BY <2>1, <2>2, UnpaidRowsStutter
<1>5. CASE SettlePaid(o, n)
  BY <1>5, SettlementPays
<1> QED
  BY <1>2, <1>3, <1>4, <1>5 DEF PaymentStep

\* For every shop, cart and wallet: whatever transactions, sessions, callbacks
\* and sweeps of checkout and payment interleave, an order takes its goods once,
\* whole or not at all, is promised only when it is paid, bought on cash terms
\* or covered by credit, and gives its goods back at most once.
THEOREM KeepsPromiseHolds == Spec => KeepsPromise
<1>1. SafetyInv /\ ShelfInv /\ [Next]_vars => [Promise!Next]_(Promise!vars)
  <2> SUFFICES ASSUME SafetyInv, ShelfInv, [Next]_vars
               PROVE  Promise!Next \/ UNCHANGED <<FreeStock, PromiseState, PaidInFull>>
    BY DEF Promise!vars
  <2>1. CASE UNCHANGED <<order, onHand, reserved, creditPaid, pay>>
    BY <2>1, QuietStutters
  <2>2. ASSUME NEW o \in Orders, OrderStep(o)
        PROVE  Promise!Next \/ UNCHANGED <<FreeStock, PromiseState, PaidInFull>>
    <3>1. CASE QuoteWithCoupon(o) \/ PlaceFails(o) \/ WindowCloses(o) \/ StartPayment(o)
               \/ StartFails(o)
      BY <2>1, <3>1 DEF QuoteWithCoupon, PlaceFails, WindowCloses, StartPayment, StartFails,
         stockVars, creditVars, payVars
    <3>2. CASE \E useCredit \in BOOLEAN : PlaceOrder(o, useCredit)
      BY <3>2, PlaceOrderPromises DEF Promise!Next
    <3>3. CASE ExpireUnpaid(o)
      BY <3>3, ExpiryReleases DEF Promise!Next
    <3>4. CASE StartCommits(o)
      BY <3>4, StartCommitsStutters
    <3>5. CASE CodPickedUp(o) \/ CodDelivered(o)
      BY <3>5, CashPays DEF Promise!Next
    <3>6. CASE \E n \in Attempts : PaymentStep(o, n)
      BY <3>6, PaymentStepKeepsPromise DEF Promise!Next
    <3> QED
      BY <2>2, <3>1, <3>2, <3>3, <3>4, <3>5, <3>6 DEF OrderStep
  <2>3. ASSUME NEW v \in Variants, AdjustStock(v)
        PROVE  Promise!Next
    BY <2>3, StaffRecount DEF Promise!Next
  <2>4. CASE UNCHANGED vars
    BY <2>1, <2>4 DEF vars, stockVars, creditVars, payVars
  <2> QED
    BY <2>2, <2>3, <2>4 DEF Next
<1> QED
  BY PromiseInit, SafetyHolds, ShelfHolds, <1>1, PTL DEF Spec, KeepsPromise, Promise!Spec

-----------------------------------------------------------------------------
(* The books *)

\* The units of a variant that the orders with a reservation in some state are for.
Units(v, state) ==
  SumFunctionOnSet([o \in Orders |-> Qty[o][v]], {o \in Orders : resv[o] = state})

\* The shelf of a variant, without the bound that ShelfInv gives.
ShelfBook(v) ==
  /\ reserved[v] = Units(v, "held")
  /\ onHand[v] = Stock0[v] + adjusted[v] - Units(v, "consumed")

BooksInv == (\A v \in Variants : ShelfBook(v)) /\ PromoBooks /\ CreditBooks

LEMMA UnitsFacts ==
  ASSUME TypeOK, NEW v \in Variants
  PROVE  /\ \A o \in Orders : [p \in Orders |-> Qty[p][v]][o] = Qty[o][v] /\ Qty[o][v] \in Nat
         /\ \A S \in SUBSET Orders : IsFiniteSet(S)
         /\ \A state : Units(v, state) \in Nat
<1>1. \A o \in Orders : [p \in Orders |-> Qty[p][v]][o] = Qty[o][v] /\ Qty[o][v] \in Nat
  BY StockTypes
<1>2. \A S \in SUBSET Orders : IsFiniteSet(S)
  BY ConstantsAssumption, FS_Subset DEF ConstantsAssumption
<1>3. ASSUME NEW state PROVE Units(v, state) \in Nat
  <2> DEFINE S == {o \in Orders : resv[o] = state}
             f == [o \in Orders |-> Qty[o][v]]
  <2>1. IsFiniteSet(S) /\ \A o \in S : f[o] \in Nat
    BY <1>1, <1>2
  <2> HIDE DEF S, f
  <2>2. SumFunctionOnSet(f, S) \in Nat
    BY <2>1, SumNat
  <2> QED
    BY <2>2 DEF S, f, Units
<1> QED
  BY <1>1, <1>2, <1>3

\* An order whose reservation changes takes its units from one sum to another.
LEMMA UnitsMove ==
  ASSUME TypeOK, NEW v \in Variants, NEW o \in Orders, NEW state,
         \A p \in Orders \ {o} : resv'[p] = resv[p]
  PROVE  Units(v, state)' = Units(v, state)
           - (IF resv[o] = state THEN Qty[o][v] ELSE 0)
           + (IF resv'[o] = state THEN Qty[o][v] ELSE 0)
<1> DEFINE S == {p \in Orders : resv[p] = state}
           T == {p \in Orders : resv'[p] = state}
           R == S \ {o}
           f == [p \in Orders |-> Qty[p][v]]
<1>1. /\ S = IF resv[o] = state THEN R \cup {o} ELSE R
      /\ T = IF resv'[o] = state THEN R \cup {o} ELSE R
  OBVIOUS
<1>2. /\ IsFiniteSet(R) /\ o \notin R
      /\ \A p \in R \cup {o} : f[p] \in Int
      /\ f[o] = Qty[o][v]
  BY UnitsFacts
<1>3. Units(v, state) = SumFunctionOnSet(f, S) /\ Units(v, state)' = SumFunctionOnSet(f, T)
  BY DEF Units
<1> HIDE DEF S, T, R, f
<1>4. SumFunctionOnSet(f, R \cup {o}) = SumFunctionOnSet(f, R) + f[o]
  BY <1>2, SumPutIn
<1>5. SumFunctionOnSet(f, R) \in Int
  BY <1>2, SumInt
<1>6. Qty[o][v] \in Int
  BY <1>2
<1> QED
  BY <1>1, <1>2, <1>3, <1>4, <1>5, <1>6

LEMMA BooksInit == Init => BooksInv
<1> SUFFICES ASSUME Init PROVE BooksInv
  OBVIOUS
<1>0. TypeOK
  BY InitType
<1>1. ASSUME NEW v \in Variants PROVE ShelfBook(v)
  <2>1. {o \in Orders : resv[o] = "held"} = {} /\ {o \in Orders : resv[o] = "consumed"} = {}
    BY DEF Init
  <2>2. Units(v, "held") = 0 /\ Units(v, "consumed") = 0
    BY <2>1, SumEmpty DEF Units
  <2>3. Stock0[v] \in Nat
    BY ConstantsAssumption DEF ConstantsAssumption
  <2>4. reserved[v] = 0 /\ adjusted[v] = 0 /\ onHand[v] = Stock0[v]
    BY DEF Init
  <2> QED
    BY <2>2, <2>3, <2>4 DEF ShelfBook
<1>2. PromoBooks
  <2>1. {o \in CouponOrders : Live(o)} = {} /\ {o \in Orders : Live(o)} = {}
    BY ConstantsAssumption DEF ConstantsAssumption, Init, Live
  <2>2. used = 0 /\ redeemed = {} /\ sold = 0
    BY DEF Init
  <2>3. UsageLimit \in Nat /\ SaleCap \in Nat
    BY ConstantsAssumption DEF ConstantsAssumption
  <2> QED
    BY <2>1, <2>2, <2>3, SumEmpty, FS_EmptySet DEF PromoBooks
<1>3. CreditBooks
  <2> SUFFICES ASSUME NEW b \in Buyers
               PROVE  credit[b] + SumFunctionOnSet(creditPaid, {o \in Orders : Buyer[o] = b}) = Credit0[b]
    BY DEF CreditBooks
  <2> DEFINE S == {o \in Orders : Buyer[o] = b}
             none == [o \in Orders |-> 0]
  <2>1. IsFiniteSet(S) /\ credit[b] = Credit0[b] /\ Credit0[b] \in Nat
    BY ConstantsAssumption, FS_Subset DEF ConstantsAssumption, Init
  <2>2. \A x \in S : creditPaid[x] = 0
    BY DEF Init
  <2> HIDE DEF S
  <2>3. SumFunctionOnSet(creditPaid, S) = 0
    BY <2>1, <2>2, SumZero
  <2> QED
    BY <2>1, <2>3 DEF S
<1> QED
  BY <1>1, <1>2, <1>3 DEF BooksInv

-----------------------------------------------------------------------------
(* The books of the shelf *)

LEMMA ShelfBookKept ==
  ASSUME UNCHANGED <<resv, reserved, onHand, adjusted>>, NEW v \in Variants, ShelfBook(v)
  PROVE  ShelfBook(v)'
  BY DEF ShelfBook, Units

\* A step that moves the reservation of one order, and the counters with it.
LEMMA ReservationMoves ==
  ASSUME TypeOK, NEW o \in Orders, NEW to,
         resv[o] # "consumed", resv' = [resv EXCEPT ![o] = to],
         UNCHANGED adjusted,
         NEW v \in Variants, ShelfBook(v),
         reserved'[v] = reserved[v] - (IF resv[o] = "held" THEN Qty[o][v] ELSE 0)
                                    + (IF to = "held" THEN Qty[o][v] ELSE 0),
         onHand'[v] = onHand[v] - (IF to = "consumed" THEN Qty[o][v] ELSE 0)
  PROVE  ShelfBook(v)'
<1>1. resv'[o] = to /\ \A p \in Orders \ {o} : resv'[p] = resv[p]
  BY DEF TypeOK
<1>2. /\ Qty[o][v] \in Nat /\ Units(v, "held") \in Nat /\ Units(v, "consumed") \in Nat
      /\ Stock0[v] \in Int /\ adjusted[v] \in Int
  BY UnitsFacts, ConstantsAssumption DEF ConstantsAssumption, TypeOK
<1>3. /\ Units(v, "held")' = Units(v, "held") - (IF resv[o] = "held" THEN Qty[o][v] ELSE 0)
                                              + (IF to = "held" THEN Qty[o][v] ELSE 0)
      /\ Units(v, "consumed")' = Units(v, "consumed") - 0
                                              + (IF to = "consumed" THEN Qty[o][v] ELSE 0)
  BY <1>1, UnitsMove
<1>4. /\ reserved[v] = Units(v, "held")
      /\ onHand[v] = Stock0[v] + adjusted[v] - Units(v, "consumed")
      /\ adjusted'[v] = adjusted[v]
  BY DEF ShelfBook
<1>5. reserved'[v] = Units(v, "held")'
  BY <1>2, <1>3, <1>4
<1>6. onHand'[v] = Stock0[v] + adjusted'[v] - Units(v, "consumed")'
  BY <1>2, <1>3, <1>4
<1> QED
  BY <1>5, <1>6 DEF ShelfBook

LEMMA ConsumeBooks ==
  ASSUME TypeOK, NEW o \in Orders, ConsumeReservations(o), UNCHANGED adjusted,
         NEW v \in Variants, ShelfBook(v)
  PROVE  ShelfBook(v)'
<1>1. CASE resv[o] = "held"
  <2>1. /\ resv' = [resv EXCEPT ![o] = "consumed"]
        /\ reserved'[v] = reserved[v] - Qty[o][v]
        /\ onHand'[v] = onHand[v] - Qty[o][v]
    BY <1>1 DEF ConsumeReservations
  <2>2. Qty[o][v] \in Int /\ reserved[v] \in Int
    BY StockTypes
  <2>3. reserved'[v] = reserved[v] - Qty[o][v] + 0
    BY <2>1, <2>2
  <2> QED
    BY <1>1, <2>1, <2>3, ReservationMoves
<1>2. CASE resv[o] # "held"
  BY <1>2, ShelfBookKept DEF ConsumeReservations
<1> QED
  BY <1>1, <1>2

LEMMA PlaceOrderShelf ==
  ASSUME SafetyInv, NEW o \in Orders, NEW useCredit \in BOOLEAN, PlaceOrder(o, useCredit),
         NEW v \in Variants, ShelfBook(v)
  PROVE  ShelfBook(v)'
<1>1. TypeOK /\ order[o] = "none" /\ resv[o] = "none"
  BY DEF SafetyInv, SafeOrder, Placement, PlaceOrder
<1>2. Qty[o][v] \in Int /\ reserved[v] \in Int /\ onHand[v] \in Int
  BY <1>1, StockTypes
<1>3. UNCHANGED adjusted
  BY DEF PlaceOrder
<1>4. \/ /\ resv' = [resv EXCEPT ![o] = "consumed"]
         /\ reserved'[v] = reserved[v]
         /\ onHand'[v] = onHand[v] - Qty[o][v]
      \/ /\ resv' = [resv EXCEPT ![o] = "held"]
         /\ reserved'[v] = reserved[v] + Qty[o][v]
         /\ onHand'[v] = onHand[v]
  BY DEF PlaceOrder
<1>5. CASE /\ resv' = [resv EXCEPT ![o] = "consumed"]
           /\ reserved'[v] = reserved[v]
           /\ onHand'[v] = onHand[v] - Qty[o][v]
  <2>1. reserved'[v] = reserved[v] - 0 + 0
    BY <1>2, <1>5
  <2> QED
    BY <1>1, <1>3, <1>5, <2>1, ReservationMoves
<1>6. CASE /\ resv' = [resv EXCEPT ![o] = "held"]
           /\ reserved'[v] = reserved[v] + Qty[o][v]
           /\ onHand'[v] = onHand[v]
  <2>1. /\ reserved'[v] = reserved[v] - (IF resv[o] = "held" THEN Qty[o][v] ELSE 0)
                                      + (IF "held" = "held" THEN Qty[o][v] ELSE 0)
        /\ onHand'[v] = onHand[v] - (IF "held" = "consumed" THEN Qty[o][v] ELSE 0)
    BY <1>1, <1>2, <1>6
  <2>2. resv' = [resv EXCEPT ![o] = "held"] /\ resv[o] # "consumed"
    BY <1>1, <1>6
  <2> QED
    BY <1>1, <1>3, <2>1, <2>2, ReservationMoves
<1> QED
  BY <1>4, <1>5, <1>6

LEMMA ExpireShelf ==
  ASSUME SafetyInv, NEW o \in Orders, ExpireUnpaid(o), NEW v \in Variants, ShelfBook(v)
  PROVE  ShelfBook(v)'
<1>1. TypeOK /\ resv[o] = "held"
  <2>1. TypeOK /\ Placement(o) /\ Settled(o)
    BY DEF SafetyInv, SafeOrder
  <2>2. order[o] = "pending_payment"
    BY ExpireGivesBack
  <2>3. resv[o] \in {"none", "held", "released", "consumed"}
    BY <2>1 DEF TypeOK
  <2>4. Prepaid(o)
    BY <2>1, <2>2 DEF Placement
  <2> QED
    BY <2>1, <2>2, <2>3, <2>4 DEF Placement, Settled
<1>2. /\ resv' = [resv EXCEPT ![o] = "released"]
      /\ reserved'[v] = reserved[v] - Qty[o][v]
      /\ onHand' = onHand /\ adjusted' = adjusted
  BY <1>1 DEF ExpireUnpaid, ReleaseOrder
<1>3. Qty[o][v] \in Int /\ reserved[v] \in Int /\ onHand[v] \in Int
  BY <1>1, StockTypes
<1>4. /\ reserved'[v] = reserved[v] - (IF resv[o] = "held" THEN Qty[o][v] ELSE 0)
                                    + (IF "released" = "held" THEN Qty[o][v] ELSE 0)
      /\ onHand'[v] = onHand[v] - (IF "released" = "consumed" THEN Qty[o][v] ELSE 0)
  BY <1>1, <1>2, <1>3
<1>5. UNCHANGED adjusted /\ resv' = [resv EXCEPT ![o] = "released"] /\ resv[o] # "consumed"
  BY <1>1, <1>2
<1> QED
  BY <1>1, <1>4, <1>5, ReservationMoves

LEMMA AdjustShelf ==
  ASSUME TypeOK, NEW w \in Variants, AdjustStock(w), NEW v \in Variants, ShelfBook(v)
  PROVE  ShelfBook(v)'
<1>1. PICK delta \in {-1, 1} :
        /\ onHand' = [onHand EXCEPT ![w] = @ + delta]
        /\ adjusted' = [adjusted EXCEPT ![w] = @ + delta]
  BY DEF AdjustStock
<1>2. Units(v, "held")' = Units(v, "held") /\ Units(v, "consumed")' = Units(v, "consumed")
  BY DEF AdjustStock, Units
<1>3. reserved' = reserved
  BY DEF AdjustStock
<1>4. Units(v, "consumed") \in Nat /\ Stock0[v] \in Int /\ adjusted[v] \in Int /\ onHand[v] \in Int
  BY UnitsFacts, ConstantsAssumption DEF ConstantsAssumption, TypeOK
<1>5. CASE v = w
  <2>1. onHand'[v] = onHand[v] + delta /\ adjusted'[v] = adjusted[v] + delta
    BY <1>1, <1>5 DEF TypeOK
  <2> QED
    BY <1>2, <1>3, <1>4, <2>1 DEF ShelfBook
<1>6. CASE v # w
  <2>1. onHand'[v] = onHand[v] /\ adjusted'[v] = adjusted[v]
    BY <1>1, <1>6 DEF TypeOK
  <2> QED
    BY <1>2, <1>3, <2>1 DEF ShelfBook
<1> QED
  BY <1>5, <1>6

-----------------------------------------------------------------------------
(* Coupon and campaign *)

\* Nobody's order begins or stops to count.
LEMMA PromoKept ==
  ASSUME PromoBooks, UNCHANGED <<used, redeemed, sold>>, \A o \in Orders : Live(o)' <=> Live(o)
  PROVE  PromoBooks'
<1>1. /\ {o \in CouponOrders : Live(o)}' = {o \in CouponOrders : Live(o)}
      /\ {o \in Orders : Live(o)}' = {o \in Orders : Live(o)}
  BY ConstantsAssumption DEF ConstantsAssumption
<1> QED
  BY <1>1 DEF PromoBooks

LEMMA PlaceOrderPromo ==
  ASSUME TypeOK, PromoBooks, NEW o \in Orders, NEW useCredit \in BOOLEAN, PlaceOrder(o, useCredit)
  PROVE  PromoBooks'
<1> DEFINE C == {p \in CouponOrders : Live(p)}
           S == {p \in Orders : Live(p)}
<1>1. ~Live(o) /\ Live(o)' /\ \A p \in Orders \ {o} : Live(p)' <=> Live(p)
  BY DEF PlaceOrder, Live, TypeOK
<1>2. CouponOrders \subseteq Orders /\ IsFiniteSet(C) /\ IsFiniteSet(S)
  BY ConstantsAssumption, FS_Subset DEF ConstantsAssumption
<1>3. /\ {p \in Orders : Live(p)}' = S \cup {o} /\ o \notin S
      /\ {p \in CouponOrders : Live(p)}' = IF o \in CouponOrders THEN C \cup {o} ELSE C
      /\ o \notin C
  BY <1>1, <1>2
<1>4. /\ used = Cardinality(C) /\ redeemed = C
      /\ sold = SumFunctionOnSet(SaleQty, S) /\ used \in 0 .. UsageLimit /\ sold \in 0 .. SaleCap
  BY DEF PromoBooks
<1>5. \A p \in S \cup {o} : SaleQty[p] \in Int /\ SaleQty[p] >= 0
  BY ConstantsAssumption DEF ConstantsAssumption
<1> HIDE DEF C, S
<1>6. SumFunctionOnSet(SaleQty, S \cup {o}) = SumFunctionOnSet(SaleQty, S) + SaleQty[o]
  BY <1>2, <1>3, <1>5, SumPutIn
<1>7. Cardinality(C \cup {o}) = Cardinality(C) + 1
  BY <1>2, <1>3, FS_AddElement
<1>8. /\ sold + SaleQty[o] <= SaleCap /\ sold' = sold + SaleQty[o]
      /\ used' = IF o \in CouponOrders THEN used + 1 ELSE used
      /\ redeemed' = IF o \in CouponOrders THEN redeemed \cup {o} ELSE redeemed
      /\ o \in CouponOrders => used < UsageLimit
  BY DEF PlaceOrder, CouponLeft
<1>9. sold' = SumFunctionOnSet(SaleQty, S \cup {o}) /\ sold' \in 0 .. SaleCap
  BY <1>4, <1>5, <1>6, <1>8
<1>10. used' \in 0 .. UsageLimit
  BY <1>4, <1>8, ConstantsAssumption DEF ConstantsAssumption
<1>11. /\ used' = Cardinality(IF o \in CouponOrders THEN C \cup {o} ELSE C)
       /\ redeemed' = IF o \in CouponOrders THEN C \cup {o} ELSE C
  BY <1>4, <1>7, <1>8
<1> QED
  BY <1>3, <1>9, <1>10, <1>11 DEF PromoBooks

LEMMA ExpirePromo ==
  ASSUME TypeOK, PromoBooks, NEW o \in Orders, ExpireUnpaid(o)
  PROVE  PromoBooks'
<1> DEFINE C == {p \in CouponOrders : Live(p)}
           S == {p \in Orders : Live(p)}
<1>1. Live(o) /\ ~Live(o)' /\ \A p \in Orders \ {o} : Live(p)' <=> Live(p)
  BY DEF ExpireUnpaid, Overdue, ReleaseOrder, Live, TypeOK
<1>2. CouponOrders \subseteq Orders /\ IsFiniteSet(C) /\ IsFiniteSet(S)
  BY ConstantsAssumption, FS_Subset DEF ConstantsAssumption
<1>3. /\ {p \in Orders : Live(p)}' = S \ {o} /\ o \in S
      /\ {p \in CouponOrders : Live(p)}' = C \ {o}
      /\ o \in CouponOrders <=> o \in C
  BY <1>1, <1>2
<1>4. /\ used = Cardinality(C) /\ redeemed = C
      /\ sold = SumFunctionOnSet(SaleQty, S) /\ used \in 0 .. UsageLimit /\ sold \in 0 .. SaleCap
  BY DEF PromoBooks
<1>5. \A p \in S : SaleQty[p] \in Nat
  BY ConstantsAssumption DEF ConstantsAssumption
<1> HIDE DEF C, S
<1>6. SumFunctionOnSet(SaleQty, S) = SaleQty[o] + SumFunctionOnSet(SaleQty, S \ {o})
  BY <1>2, <1>3, <1>5, SumTakeOut
<1>7. SumFunctionOnSet(SaleQty, S \ {o}) \in Nat
  BY <1>2, <1>5, FS_RemoveElement, SumNat
<1>8. /\ Cardinality(C \ {o}) = IF o \in CouponOrders THEN Cardinality(C) - 1 ELSE Cardinality(C)
      /\ Cardinality(C \ {o}) \in Nat
  BY <1>2, <1>3, FS_RemoveElement, FS_CardinalityType
<1>9. /\ sold' = sold - SaleQty[o]
      /\ used' = IF o \in CouponOrders THEN used - 1 ELSE used
      /\ redeemed' = redeemed \ {o}
  BY DEF ExpireUnpaid, ReleaseOrder
<1>10. sold' = SumFunctionOnSet(SaleQty, S \ {o}) /\ sold' \in 0 .. SaleCap
  <2>1. SaleQty[o] \in Nat /\ SaleCap \in Nat
    BY <1>3, <1>5, ConstantsAssumption DEF ConstantsAssumption
  <2> QED
    BY <1>4, <1>6, <1>7, <1>9, <2>1
<1>11. used' = Cardinality(C \ {o}) /\ used' \in 0 .. UsageLimit
  BY <1>4, <1>8, <1>9, ConstantsAssumption DEF ConstantsAssumption
<1> QED
  BY <1>3, <1>4, <1>9, <1>10, <1>11 DEF PromoBooks

-----------------------------------------------------------------------------
(* Store credit *)

LEMMA CreditKept ==
  ASSUME CreditBooks, UNCHANGED <<credit, creditPaid>>
  PROVE  CreditBooks'
  BY DEF CreditBooks

LEMMA PlaceOrderCredit ==
  ASSUME SafetyInv, CreditBooks, NEW o \in Orders, NEW useCredit \in BOOLEAN,
         PlaceOrder(o, useCredit)
  PROVE  CreditBooks'
<1> DEFINE applied == IF useCredit THEN Applied(o) ELSE 0
<1>1. TypeOK /\ creditPaid[o] = 0
  BY DEF SafetyInv, SafeOrder, Placement, PlaceOrder
<1>2. applied \in Nat
  BY <1>1, MoneyTypes DEF Applied
<1>3. /\ credit' = IF applied > 0 THEN Spend(Buyer[o], applied) ELSE credit
      /\ creditPaid' = [creditPaid EXCEPT ![o] = applied]
  BY DEF PlaceOrder
<1> HIDE DEF applied
<1>4. /\ creditPaid'[o] = applied /\ \A p \in Orders \ {o} : creditPaid'[p] = creditPaid[p]
      /\ \A p \in Orders : creditPaid[p] \in Int /\ creditPaid'[p] \in Int
  BY <1>1, <1>2, <1>3 DEF TypeOK
<1>5. \A b \in Buyers : credit[b] \in Nat
  BY <1>1 DEF TypeOK
<1>6. \A b \in Buyers : credit'[b] = IF b = Buyer[o] THEN credit[b] - applied ELSE credit[b]
  BY <1>1, <1>2, <1>3, <1>5 DEF TypeOK, Spend
<1> SUFFICES ASSUME NEW b \in Buyers
             PROVE  credit'[b] + SumFunctionOnSet(creditPaid', {p \in Orders : Buyer[p] = b}) = Credit0[b]
  BY DEF CreditBooks
<1> DEFINE S == {p \in Orders : Buyer[p] = b}
<1>7. IsFiniteSet(S) /\ S \subseteq Orders /\ (o \in S <=> Buyer[o] = b)
  BY ConstantsAssumption, FS_Subset DEF ConstantsAssumption
<1>8. credit[b] + SumFunctionOnSet(creditPaid, S) = Credit0[b]
  BY DEF CreditBooks
<1> HIDE DEF S
<1>9. SumFunctionOnSet(creditPaid, S) \in Int
  BY <1>4, <1>7, SumInt
<1>10. CASE Buyer[o] = b
  <2>1. SumFunctionOnSet(creditPaid', S) =
          SumFunctionOnSet(creditPaid, S) - creditPaid[o] + creditPaid'[o]
    <3>1. /\ \A x \in S : creditPaid[x] \in Int /\ creditPaid'[x] \in Int
          /\ \A x \in S \ {o} : creditPaid'[x] = creditPaid[x]
          /\ o \in S
      BY <1>4, <1>7, <1>10
    <3> QED
      BY <1>7, <3>1, SumChange
  <2> QED
    BY <1>1, <1>2, <1>4, <1>5, <1>6, <1>8, <1>9, <1>10, <2>1 DEF S
<1>11. CASE Buyer[o] # b
  <2>1. SumFunctionOnSet(creditPaid, S) = SumFunctionOnSet(creditPaid', S)
    BY <1>4, <1>7, <1>11, SumSame
  <2> QED
    BY <1>6, <1>8, <1>11, <2>1 DEF S
<1> QED
  BY <1>10, <1>11

-----------------------------------------------------------------------------
(* The books after every step *)

LEMMA PaymentStepBooks ==
  ASSUME SafetyInv, BooksInv, NEW o \in Orders, NEW n \in Attempts, PaymentStep(o, n)
  PROVE  BooksInv'
<1>0. TypeOK
  BY DEF SafetyInv
<1>1. CASE UNCHANGED <<order, resv, stockVars, promoVars, creditVars>>
  <2>1. \A v \in Variants : ShelfBook(v)'
    BY <1>1, ShelfBookKept DEF BooksInv, stockVars
  <2>2. PromoBooks'
    BY <1>1, PromoKept DEF BooksInv, promoVars, Live
  <2>3. CreditBooks'
    BY <1>1, CreditKept DEF BooksInv, creditVars
  <2> QED
    BY <2>1, <2>2, <2>3 DEF BooksInv
<1>2. CASE SettlePaid(o, n)
  <2>1. UNCHANGED <<adjusted, promoVars, creditVars>>
    BY <1>2 DEF SettlePaid, FinishSettle
  <2>2. ConsumeReservations(o) \/ UNCHANGED <<resv, onHand, reserved>>
    BY <1>2 DEF SettlePaid
  <2>3. \A v \in Variants : ShelfBook(v)'
    BY <1>0, <2>1, <2>2, ConsumeBooks, ShelfBookKept DEF BooksInv
  <2>4. \A p \in Orders : Live(p)' <=> Live(p)
    <3>1. \A p \in Orders \ {o} : order'[p] = order[p]
      BY <1>0, <1>2 DEF SettlePaid, TypeOK
    <3>2. order'[o] \in {order[o], ConfirmedStatus(o)}
      BY <1>0, <1>2 DEF SettlePaid, TypeOK
    <3> QED
      BY <3>1, <3>2 DEF Live, ConfirmedStatus
  <2>5. PromoBooks' /\ CreditBooks'
    BY <2>1, <2>4, PromoKept, CreditKept DEF BooksInv, promoVars, creditVars
  <2> QED
    BY <2>3, <2>5 DEF BooksInv
<1>3. CASE SettleUnpaid(o, n) \/ SettleDuplicate(o, n)
  BY <1>1, <1>3 DEF SettleUnpaid, SettleDuplicate, FinishSettle, stockVars
<1>4. CASE BuyerActs(o, n) \/ Confirm(o, n) \/ Reconcile(o, n) \/ WebhookStores(o, n)
           \/ SettleRollsBack(o, n)
  BY <1>1, <1>4 DEF BuyerActs, Confirm, Reconcile, BeginSettle, WebhookStores, SettleRollsBack
<1>5. CASE \E m \in Attempts : WebhookSettles(o, m, n) \/ WebhookReplay(o, m, n)
  BY <1>1, <1>5 DEF WebhookSettles, WebhookReplay, BeginSettle
<1> QED
  BY <1>2, <1>3, <1>4, <1>5 DEF PaymentStep

LEMMA OrderStepBooks ==
  ASSUME SafetyInv, BooksInv, NEW o \in Orders, OrderStep(o)
  PROVE  BooksInv'
<1>0. TypeOK
  BY DEF SafetyInv
<1>1. CASE \E useCredit \in BOOLEAN : PlaceOrder(o, useCredit)
  BY <1>0, <1>1, PlaceOrderShelf, PlaceOrderPromo, PlaceOrderCredit DEF BooksInv
<1>2. CASE ExpireUnpaid(o)
  <2>1. CreditBooks'
    BY <1>2, CreditKept DEF BooksInv, ExpireUnpaid, creditVars
  <2> QED
    BY <1>0, <1>2, <2>1, ExpireShelf, ExpirePromo DEF BooksInv
<1>3. CASE CodPickedUp(o) \/ CodDelivered(o)
  <2>1. ConsumeReservations(o) /\ UNCHANGED <<adjusted, order, promoVars, creditVars>>
    BY <1>3 DEF CodPickedUp, CodDelivered
  <2>2. \A p \in Orders : Live(p)' <=> Live(p)
    BY <2>1 DEF Live
  <2> QED
    BY <1>0, <2>1, <2>2, ConsumeBooks, PromoKept, CreditKept DEF BooksInv, promoVars, creditVars
<1>4. CASE QuoteWithCoupon(o) \/ PlaceFails(o) \/ WindowCloses(o) \/ StartPayment(o)
           \/ StartCommits(o) \/ StartFails(o)
  <2>1. UNCHANGED <<order, resv, stockVars, promoVars, creditVars>>
    BY <1>4 DEF QuoteWithCoupon, PlaceFails, WindowCloses, StartPayment, StartCommits, StartFails
  <2>2. \A p \in Orders : Live(p)' <=> Live(p)
    BY <2>1 DEF Live
  <2> QED
    BY <2>1, <2>2, ShelfBookKept, PromoKept, CreditKept
       DEF BooksInv, stockVars, promoVars, creditVars
<1>5. CASE \E n \in Attempts : PaymentStep(o, n)
  BY <1>5, PaymentStepBooks
<1> QED
  BY <1>1, <1>2, <1>3, <1>4, <1>5 DEF OrderStep

\* The counters of the shelf, of the coupon, of the campaign and of every wallet agree
\* with the orders that moved them and stay within their limits (checkout/service.py
\* place_order and release_order, inventory consume_reservations), for any number of
\* orders, buyers and variants.
THEOREM BooksHold == Spec => []Books
<1>1. SafetyInv /\ BooksInv /\ [Next]_vars => BooksInv'
  <2> SUFFICES ASSUME SafetyInv, BooksInv, [Next]_vars PROVE BooksInv'
    OBVIOUS
  <2>1. ASSUME NEW v \in Variants, AdjustStock(v) PROVE BooksInv'
    <3>1. UNCHANGED <<order, promoVars, creditVars>>
      BY <2>1 DEF AdjustStock
    <3>2. \A p \in Orders : Live(p)' <=> Live(p)
      BY <3>1 DEF Live
    <3> QED
      BY <2>1, <3>1, <3>2, AdjustShelf, PromoKept, CreditKept
         DEF BooksInv, SafetyInv, promoVars, creditVars
  <2>2. CASE UNCHANGED vars
    <3>1. UNCHANGED <<order, resv, stockVars, promoVars, creditVars>>
      BY <2>2 DEF vars
    <3>2. \A p \in Orders : Live(p)' <=> Live(p)
      BY <3>1 DEF Live
    <3> QED
      BY <3>1, <3>2, ShelfBookKept, PromoKept, CreditKept
         DEF BooksInv, stockVars, promoVars, creditVars
  <2> QED
    BY <2>1, <2>2, OrderStepBooks DEF Next
<1>2. SafetyInv /\ ShelfInv /\ BooksInv => Books
  <2> SUFFICES ASSUME SafetyInv, ShelfInv, BooksInv PROVE Books
    OBVIOUS
  <2>1. TypeOK
    BY DEF SafetyInv
  <2>2. ASSUME NEW v \in Variants
        PROVE  /\ reserved[v] = Units(v, "held")
               /\ onHand[v] = Stock0[v] + adjusted[v] - Units(v, "consumed")
               /\ reserved[v] \in 0 .. onHand[v]
    <3>1. reserved[v] \in Nat
      BY <2>1, UnitsFacts DEF BooksInv, ShelfBook
    <3>2. onHand[v] \in Int /\ onHand[v] - reserved[v] >= 0
      BY <2>1 DEF TypeOK, ShelfInv, GoodsFree
    <3> QED
      BY <3>1, <3>2 DEF BooksInv, ShelfBook
  <2>3. StockBooks
    BY <2>2 DEF StockBooks, Units
  <2> QED
    BY <2>1, <2>3 DEF Books, BooksInv
<1> QED
  BY BooksInit, SafetyHolds, ShelfHolds, <1>1, <1>2, PTL DEF Spec
=============================================================================
