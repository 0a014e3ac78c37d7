----------------------------- MODULE Jobs_proofs ------------------------------
(***************************************************************************)
(* What the components with scheduled work keep in every state, for every  *)
(* number of workers, hosts, builds and days: the billing of a tenant, its *)
(* hosts, and the queue of its app builds.                                 *)
(***************************************************************************)
EXTENDS Billing, Domains, AppBuilds, Sums_proofs, FiniteSetTheorems, TLAPS

-----------------------------------------------------------------------------
(* Billing: the inductive invariant *)

CycleTxn == [op : {"cycle"}, day : Days, plan : Subscription, bills : BOOLEAN, at : Nat,
             row : Invoice, converts : BOOLEAN, target : SubStatus, writes : BOOLEAN]
PayTxn == [op : {"pay"}, at : Days, target : SubStatus, writes : BOOLEAN]

\* An invoice is of a period that is over, has the usage of that period only, and its
\* setup fee is remembered by the subscription.
Settled(row, i) ==
    /\ i < row.end
    /\ \A d \in row.gmv : i <= d /\ d < row.end
InvoiceSound(i) ==
    /\ Settled(invoice[i], i) /\ invoice[i].end <= plan.start
    /\ "setup_fee" \in invoice[i].lines => plan.setup

\* Somebody may be suspended by day: an invoice was overdue long enough.
OverdueBy(day) == \E i \in Invoiced(invoice) : invoice[i].due + SuspendAfter <= day

\* What an open transaction of a worker will write fits what is there: a cycle, under
\* the lock of the subscription, bills the period the subscription is in.
CycleSound(x) ==
    /\ tenant # "none"
    /\ plan.start <= x.plan.start /\ x.plan.start < x.plan.end
    /\ plan.setup => x.plan.setup
    /\ x.bills => /\ x.at = plan.start /\ x.at \in Days
                  /\ invoice[x.at].status = "none"
                  /\ Settled(x.row, x.at) /\ x.row.end = x.plan.start
                  /\ "setup_fee" \in x.row.lines => ~plan.setup /\ x.plan.setup
    /\ x.target = "suspended" => OverdueBy(x.day)
PaySound(x) ==
    /\ x.at \in Invoiced(invoice)
    /\ x.target = "suspended" => OverdueBy(today)
TxnSound(x) ==
    /\ x.op = "cycle" => CycleSound(x)
    /\ x.op = "pay" => PaySound(x)

OneCycle == \A v, w \in Workers : txn[v].op = "cycle" /\ txn[w].op = "cycle" => v = w

BillingInv ==
    /\ BillingTypeOK
    /\ tenant = "none" => Invoiced(invoice) = {}
    /\ tenant # "none" => plan.start < plan.end
    /\ \A i \in Invoiced(invoice) : InvoiceSound(i)
    /\ BilledOnce
    /\ OneCycle
    /\ \A w \in Workers : TxnSound(txn[w])

-----------------------------------------------------------------------------
(* Billing: types of transactions and periods *)

Txn == {Idle} \cup CycleTxn \cup PayTxn

LEMMA TxnKinds ==
    /\ BillingTypeOK <=>
         /\ today \in Days /\ patches \in 0 .. MaxPatches
         /\ tenant \in TenantStatus \cup {"none"}
         /\ plan \in Subscription
         /\ invoice \in [Days -> Invoice \cup {NoInvoice}]
         /\ usage \subseteq Days
         /\ txn \in [Workers -> Txn]
    /\ \A x \in Txn : /\ x.op = "cycle" <=> x \in CycleTxn
                      /\ x.op = "pay" <=> x \in PayTxn
                      /\ x.op = "idle" <=> x = Idle
    /\ Idle.op = "idle"
<1>1. /\ Idle.op = "idle"
      /\ \A x \in CycleTxn : x.op = "cycle"
      /\ \A x \in PayTxn : x.op = "pay"
  BY DEF Idle, CycleTxn, PayTxn
<1>2. BillingTypeOK <=>
         /\ today \in Days /\ patches \in 0 .. MaxPatches
         /\ tenant \in TenantStatus \cup {"none"}
         /\ plan \in Subscription
         /\ invoice \in [Days -> Invoice \cup {NoInvoice}]
         /\ usage \subseteq Days
         /\ txn \in [Workers -> Txn]
  BY DEF BillingTypeOK, Txn, CycleTxn, PayTxn
<1> QED
  BY <1>1, <1>2 DEF Txn

LEMMA RowTypes ==
    /\ \A s \in Subscription :
         /\ s.status \in SubStatus /\ s.interval \in Intervals
         /\ s.start \in Nat /\ s.end \in Nat /\ s.setup \in BOOLEAN
    /\ \A r \in Invoice : /\ r.status \in {"open", "paid"} /\ r.due \in Nat /\ r.end \in Nat
                          /\ r.lines \subseteq LineKinds /\ r.gmv \subseteq Days
    /\ NoInvoice.status = "none"
    /\ \A x \in CycleTxn :
         /\ x.day \in Days /\ x.plan \in Subscription /\ x.bills \in BOOLEAN
         /\ x.at \in Nat /\ x.row \in Invoice /\ x.target \in SubStatus
         /\ x.writes \in BOOLEAN /\ x.converts \in BOOLEAN
    /\ \A x \in PayTxn : x.at \in Days /\ x.target \in SubStatus /\ x.writes \in BOOLEAN
  BY DEF Subscription, Invoice, NoInvoice, CycleTxn, PayTxn

LEMMA PeriodIsPositive == \A i \in Intervals : Period(i) \in Nat /\ Period(i) > 0
  BY BillingAssumption DEF BillingAssumption, Period

LEMMA LineFacts ==
    ASSUME BillingTypeOK, NEW s \in Subscription
    PROVE  /\ Lines(s) \subseteq LineKinds /\ Metered(s) \subseteq Days
           /\ "setup_fee" \in Lines(s) => ~s.setup
           /\ \A d \in Metered(s) : s.start <= d /\ d < s.end
<1>1. Metered(s) \subseteq Days /\ \A d \in Metered(s) : s.start <= d /\ d < s.end
  BY DEF Metered, BillingTypeOK
<1>2. Lines(s) \subseteq LineKinds /\ ("setup_fee" \in Lines(s) => ~s.setup)
  BY DEF Lines, LineKinds
<1> QED
  BY <1>1, <1>2

\* The period that follows is of the subscription and not empty.
LEMMA RolloverFacts ==
    ASSUME BillingTypeOK, NEW s \in Subscription
    PROVE  LET r == RolledOver(s) IN
           /\ r \in Subscription /\ r.start = s.end /\ r.start < r.end
           /\ s.setup => r.setup
           /\ "setup_fee" \in Lines(s) => r.setup
<1> DEFINE r == RolledOver(s)
<1>1. Period(s.interval) \in Nat /\ Period(s.interval) > 0
  BY PeriodIsPositive, RowTypes
<1> DEFINE status == IF s.status = "trial" THEN "active" ELSE s.status
           setup == s.setup \/ "setup_fee" \in Lines(s)
           end == s.end + Period(s.interval)
<1>2. status \in SubStatus /\ setup \in BOOLEAN /\ end \in Nat
  BY <1>1, RowTypes DEF SubStatus
<1>3. r = [s EXCEPT !.start = s.end, !.end = end, !.status = status, !.setup = setup]
  BY DEF RolledOver
<1> HIDE DEF r, status, setup, end
<1>4. r = [status |-> status, interval |-> s.interval, start |-> s.end, end |-> end,
           setup |-> setup]
  BY <1>3 DEF Subscription
<1>5. r \in Subscription
  BY <1>2, <1>4, RowTypes DEF Subscription
<1>6. s.end < end
  BY <1>1, RowTypes DEF end
<1>7. r.start = s.end /\ r.start < r.end /\ r.setup = setup
  BY <1>4, <1>6
<1>8. (s.setup => setup) /\ ("setup_fee" \in Lines(s) => setup)
  BY DEF setup
<1>9. r = RolledOver(s)
  BY DEF r
<1> QED
  BY <1>5, <1>7, <1>8, <1>9

LEMMA InvoiceOfFacts ==
    ASSUME BillingTypeOK, NEW s \in Subscription, NEW day \in Days, s.start < s.end
    PROVE  /\ InvoiceOf(s, day) \in Invoice
           /\ InvoiceOf(s, day).end = s.end
           /\ InvoiceOf(s, day).lines = Lines(s)
           /\ InvoiceOf(s, day).due = day + DueDays
           /\ Settled(InvoiceOf(s, day), s.start)
<1>1. day + DueDays \in Nat
  BY BillingAssumption DEF BillingAssumption, Days
<1> QED
  BY <1>1, LineFacts, RowTypes DEF InvoiceOf, Invoice, Settled

\* Dunning suspends only for an open invoice that has been due for long.
LEMMA DunningFacts ==
    ASSUME NEW inv, NEW day \in Days
    PROVE  /\ Dunning(inv, day) \in SubStatus
           /\ Dunning(inv, day) = "suspended" =>
                \E i \in OpenIn(inv) : day > inv[i].due /\ day - inv[i].due >= SuspendAfter
  BY DEF Dunning, SubStatus

LEMMA BillingInitHolds == BillingInit => BillingInv
<1> SUFFICES ASSUME BillingInit
             PROVE  BillingInv
  OBVIOUS
<1>1. BillingTypeOK
  <2>1. plan \in Subscription
    BY DEF BillingInit, Subscription, SubStatus, Intervals
  <2>2. 0 \in Days /\ 0 \in 0 .. MaxPatches
    BY BillingAssumption DEF BillingAssumption, Days
  <2> QED
    BY <2>1, <2>2, TxnKinds DEF BillingInit, Txn
<1>2. \A i \in Days : invoice[i].status = "none"
  BY RowTypes DEF BillingInit
<1>3. Invoiced(invoice) = {}
  BY <1>2 DEF Invoiced
<1>4. \A w \in Workers : txn[w].op = "idle"
  BY DEF BillingInit, Idle
<1>5. tenant = "none"
  BY DEF BillingInit
<1> QED
  BY <1>1, <1>3, <1>4, <1>5 DEF BillingInv, BilledOnce, OneCycle, TxnSound

-----------------------------------------------------------------------------
(* Billing: steps that write no invoice *)

\* The invoices and the transactions stay sound when only the calendar, the usage, the
\* tenant's status or the interval of the subscription changes.
LEMMA QuietBillingKeeps ==
    ASSUME BillingInv, BillingTypeOK', UNCHANGED <<invoice, txn>>,
           tenant # "none", tenant' # "none", today <= today',
           plan'.start = plan.start, plan'.end = plan.end, plan'.setup = plan.setup
    PROVE  BillingInv'
<1>1. today \in Nat /\ today' \in Nat
  BY DEF BillingInv, BillingTypeOK, Days
<1>2. \A w \in Workers : TxnSound(txn[w])'
  <2> SUFFICES ASSUME NEW w \in Workers
               PROVE  TxnSound(txn[w])'
    OBVIOUS
  <2>1. TxnSound(txn[w])
    BY DEF BillingInv
  <2>2. \A day : OverdueBy(day)' <=> OverdueBy(day)
    BY DEF OverdueBy
  <2>3. CycleSound(txn[w]) => CycleSound(txn[w])'
    BY <2>2 DEF CycleSound
  <2>4. OverdueBy(today) => OverdueBy(today')
    <3>1. ASSUME NEW i \in Invoiced(invoice), invoice[i].due + SuspendAfter <= today
          PROVE  invoice[i].due + SuspendAfter <= today'
      <4>1. invoice[i] \in Invoice
        BY RowTypes DEF Invoiced, BillingInv, BillingTypeOK
      <4>2. invoice[i].due + SuspendAfter \in Nat
        BY <4>1, RowTypes, BillingAssumption DEF BillingAssumption
      <4> QED
        BY <1>1, <3>1, <4>2
    <3> QED
      BY <3>1 DEF OverdueBy
  <2>5. OverdueBy(today)' <=> OverdueBy(today')
    BY DEF OverdueBy
  <2>6. PaySound(txn[w]) => PaySound(txn[w])'
    BY <2>4, <2>5 DEF PaySound
  <2> QED
    BY <2>1, <2>3, <2>6 DEF TxnSound
<1>3. \A i \in Invoiced(invoice)' : InvoiceSound(i)'
  BY DEF BillingInv, InvoiceSound
<1>4. BilledOnce'
  BY DEF BillingInv, BilledOnce
<1> QED
  BY <1>2, <1>3, <1>4 DEF BillingInv, OneCycle

LEMMA CreateTenantKeeps == BillingInv /\ CreateTenant => BillingInv'
<1> SUFFICES ASSUME BillingInv, CreateTenant
             PROVE  BillingInv'
  OBVIOUS
<1> DEFINE first == IF TrialDays > 0 THEN TrialDays ELSE Month
<1>1. /\ tenant = "none" /\ tenant' = "trial"
      /\ plan' = [plan EXCEPT !.start = today, !.end = today + first]
      /\ UNCHANGED <<today, invoice, usage, txn, patches>>
  BY DEF CreateTenant
<1>2. first \in Nat /\ first > 0 /\ today \in Nat
  BY BillingAssumption DEF BillingAssumption, BillingInv, BillingTypeOK, Days
<1> HIDE DEF first
<1>3. plan' \in Subscription /\ plan'.start < plan'.end
  <2>1. plan \in Subscription
    BY DEF BillingInv, BillingTypeOK
  <2>2. plan' = [status |-> plan.status, interval |-> plan.interval, start |-> today,
                 end |-> today + first, setup |-> plan.setup]
    BY <1>1, <2>1 DEF Subscription
  <2> QED
    BY <1>2, <2>1, <2>2, RowTypes DEF Subscription
<1>4. BillingTypeOK'
  BY <1>1, <1>3 DEF BillingInv, BillingTypeOK, TenantStatus
<1>5. Invoiced(invoice)' = {}
  BY <1>1 DEF BillingInv, Invoiced
<1>6. \A w \in Workers : txn'[w].op # "cycle" /\ txn'[w].op # "pay"
  BY <1>1 DEF BillingInv, TxnSound, CycleSound, PaySound
<1> QED
  BY <1>1, <1>3, <1>4, <1>5, <1>6 DEF BillingInv, BilledOnce, OneCycle, TxnSound

\* With no cycle open nobody relies on the subscription.
LEMMA PatchPlanKeeps == BillingInv /\ PatchPlan => BillingInv'
<1> SUFFICES ASSUME BillingInv, PatchPlan
             PROVE  BillingInv'
  OBVIOUS
<1>1. /\ tenant # "none" /\ patches < MaxPatches /\ patches' = patches + 1
      /\ UNCHANGED <<today, tenant, invoice, usage, txn>>
  BY DEF PatchPlan
<1>2. PICK i \in Intervals : plan' = [plan EXCEPT !.interval = i]
  BY DEF PatchPlan
<1>3. plan \in Subscription
  BY DEF BillingInv, BillingTypeOK
<1>4. /\ plan' \in Subscription /\ plan'.start = plan.start /\ plan'.end = plan.end
      /\ plan'.setup = plan.setup
  BY <1>2, <1>3 DEF Subscription
<1>5. BillingTypeOK'
  BY <1>1, <1>4, BillingAssumption DEF BillingAssumption, BillingInv, BillingTypeOK
<1>6. today <= today'
  BY <1>1 DEF BillingInv, BillingTypeOK, Days
<1> QED
  BY <1>1, <1>4, <1>5, <1>6, QuietBillingKeeps

LEMMA CalendarKeeps ==
    ASSUME BillingInv,
           NewDay \/ (\E d \in UsageDays : RecordUsage(d))
           \/ (\E to \in TenantStatus : PatchTenant(to))
    PROVE  BillingInv'
<1>1. /\ tenant # "none" /\ tenant' \in TenantStatus /\ tenant' # "none"
      /\ UNCHANGED <<invoice, plan, txn>>
  BY DEF NewDay, RecordUsage, PatchTenant, accounts, BillingInv, BillingTypeOK, TenantStatus
<1>2. /\ today' \in Days /\ today <= today'
  <2>1. today \in Nat /\ today \in Days
    BY DEF BillingInv, BillingTypeOK, Days
  <2>2. CASE NewDay
    BY <2>1, <2>2, BillingAssumption DEF BillingAssumption, NewDay, Days
  <2>3. CASE ~NewDay
    BY <2>1, <2>3 DEF RecordUsage, PatchTenant
  <2> QED
    BY <2>2, <2>3
<1>3. /\ usage' \subseteq Days /\ patches' \in 0 .. MaxPatches
  <2>1. /\ usage \subseteq Days /\ patches \in 0 .. MaxPatches /\ UsageDays \subseteq Days
        /\ MaxPatches \in Nat
    BY BillingAssumption DEF BillingAssumption, BillingInv, BillingTypeOK, Days
  <2>2. ASSUME NEW d \in UsageDays, RecordUsage(d)
        PROVE  usage' \subseteq Days /\ patches' \in 0 .. MaxPatches
    BY <2>1, <2>2 DEF RecordUsage
  <2>3. ASSUME NEW to \in TenantStatus, PatchTenant(to)
        PROVE  usage' \subseteq Days /\ patches' \in 0 .. MaxPatches
    BY <2>1, <2>3 DEF PatchTenant
  <2>4. CASE NewDay
    BY <2>1, <2>4 DEF NewDay
  <2> QED
    BY <2>2, <2>3, <2>4
<1>4. BillingTypeOK'
  BY <1>1, <1>2, <1>3 DEF BillingInv, BillingTypeOK
<1> QED
  BY <1>1, <1>2, <1>4, QuietBillingKeeps

-----------------------------------------------------------------------------
(* Billing: transactions open and end *)

LEMMA OpensBilling ==
    ASSUME BillingInv, NEW w \in Workers, NEW x \in Txn, txn' = [txn EXCEPT ![w] = x],
           TxnSound(x), x.op = "cycle" => \A v \in Workers \ {w} : txn[v].op # "cycle",
           patches' \in 0 .. MaxPatches, UNCHANGED <<today, accounts, usage>>
    PROVE  BillingInv'
<1>1. BillingTypeOK'
  BY TxnKinds DEF BillingInv, BillingTypeOK, Txn, CycleTxn, PayTxn, accounts
<1>2. txn'[w] = x /\ \A v \in Workers \ {w} : txn'[v] = txn[v]
  BY TxnKinds DEF BillingInv
<1>3. \A t : TxnSound(t) => TxnSound(t)'
  BY DEF TxnSound, CycleSound, PaySound, OverdueBy, accounts
<1>4. \A v \in Workers : TxnSound(txn[v])'
  BY <1>2, <1>3 DEF BillingInv, TxnSound, CycleSound, PaySound, OverdueBy, accounts
<1>5. OneCycle'
  BY <1>2 DEF BillingInv, OneCycle
<1>6. \A i \in Invoiced(invoice)' : InvoiceSound(i)'
  BY DEF BillingInv, InvoiceSound, accounts
<1>7. BilledOnce'
  BY DEF BillingInv, BilledOnce, accounts
<1> QED
  BY <1>1, <1>4, <1>5, <1>6, <1>7 DEF BillingInv, accounts

LEMMA RollbackKeepsBilling ==
    ASSUME BillingInv, NEW w \in Workers, Rollback(w)
    PROVE  BillingInv'
<1>1. TxnSound(Idle) /\ Idle \in Txn /\ Idle.op # "cycle"
  BY TxnKinds DEF TxnSound, Txn
<1> QED
  BY <1>1, OpensBilling DEF Rollback, BillingInv, BillingTypeOK

LEMMA CycleVisitsKeeps ==
    ASSUME BillingInv, NEW w \in Workers, NEW day \in CycleDays, CycleVisits(w, day)
    PROVE  BillingInv'
<1> DEFINE closes == PeriodDue(plan, day)
           bills == closes /\ Lines(plan) # {}
           row == InvoiceOf(plan, day)
           s == IF closes THEN RolledOver(plan) ELSE plan
           inv == IF bills THEN [invoice EXCEPT ![plan.start] = row] ELSE invoice
           converts == closes /\ plan.status = "trial" /\ tenant = "trial"
           t == IF converts THEN "active" ELSE tenant
           target == Dunning(inv, day)
           writes == Reconciles(t, s.status, target)
           x == [op |-> "cycle", day |-> day, plan |-> s, bills |-> bills, at |-> plan.start,
                 row |-> row, converts |-> converts, target |-> target, writes |-> writes]
<1>1. /\ tenant \notin {"none", "cancelled"} /\ ~SubLocked
      /\ txn' = [txn EXCEPT ![w] = x]
      /\ patches' = IF day = today THEN patches ELSE patches + 1
      /\ UNCHANGED <<today, accounts, usage>>
  BY DEF CycleVisits
<1>2. /\ plan \in Subscription /\ today \in Days /\ BillingTypeOK
      /\ plan.start < plan.end
  BY <1>1 DEF BillingInv, BillingTypeOK
<1>3. day \in Days /\ patches' \in 0 .. MaxPatches
  <2>1. patches \in 0 .. MaxPatches
    BY DEF BillingInv, BillingTypeOK
  <2> QED
    BY <1>1, <1>2, <2>1, BillingAssumption DEF BillingAssumption, CycleDays
<1>4. /\ row \in Invoice /\ row.end = plan.end /\ row.lines = Lines(plan)
      /\ row.due = day + DueDays /\ Settled(row, plan.start)
  BY <1>2, <1>3, InvoiceOfFacts
<1>5. closes => plan.end <= day /\ invoice[plan.start].status = "none" /\ plan.start \in Days
  <2>1. plan.start \in Nat /\ plan.end \in Nat
    BY <1>2, RowTypes
  <2>2. day \in Nat /\ day <= MaxDay /\ MaxDay \in Nat
    BY <1>3, BillingAssumption DEF BillingAssumption, Days
  <2>3. closes => plan.end <= day /\ invoice[plan.start].status = "none"
    BY DEF PeriodDue
  <2> HIDE DEF closes
  <2> QED
    BY <1>2, <2>1, <2>2, <2>3 DEF Days
<1>6. /\ s \in Subscription /\ plan.start <= s.start /\ s.start < s.end
      /\ plan.setup => s.setup
      /\ closes => s.start = plan.end
      /\ closes /\ "setup_fee" \in Lines(plan) => s.setup
  <2>1. plan.start \in Nat /\ plan.end \in Nat
    BY <1>2, RowTypes
  <2>2. CASE closes
    BY <1>2, <2>1, <2>2, RolloverFacts
  <2>3. CASE ~closes
    BY <1>2, <2>1, <2>3
  <2> QED
    BY <2>2, <2>3
<1>7. target \in SubStatus
  BY <1>3, DunningFacts
<1>8. "setup_fee" \in Lines(plan) => ~plan.setup
  BY <1>2, LineFacts
<1>9. target = "suspended" => OverdueBy(day)
  <2> SUFFICES ASSUME target = "suspended"
               PROVE  OverdueBy(day)
    OBVIOUS
  <2>1. PICK i \in OpenIn(inv) : day > inv[i].due /\ day - inv[i].due >= SuspendAfter
    BY <1>3, DunningFacts
  <2>2. invoice \in [Days -> Invoice \cup {NoInvoice}] /\ i \in Days
    BY <1>2 DEF BillingTypeOK, OpenIn
  <2>3. inv[i] = invoice[i]
    <3>1. CASE bills /\ i = plan.start
      <4>1. inv[i] = row
        BY <1>5, <2>2, <3>1
      <4>2. row.due \in Nat /\ day \in Nat /\ day <= row.due
        BY <1>3, <1>4, BillingAssumption DEF BillingAssumption, Days
      <4> QED
        BY <2>1, <4>1, <4>2
    <3>2. CASE ~(bills /\ i = plan.start)
      BY <2>2, <3>2
    <3> QED
      BY <3>1, <3>2
  <2>4. i \in Invoiced(invoice)
    BY <2>2, <2>3 DEF OpenIn, Invoiced
  <2>5. invoice[i].due \in Nat /\ day \in Nat /\ SuspendAfter \in Nat
    <3>1. invoice[i] \in Invoice
      BY <2>2, <2>4, RowTypes DEF Invoiced
    <3> QED
      BY <1>3, <3>1, RowTypes, BillingAssumption DEF BillingAssumption, Days
  <2>6. invoice[i].due + SuspendAfter <= day
    BY <2>1, <2>3, <2>5
  <2> QED
    BY <2>4, <2>6 DEF OverdueBy
<1>10. bills \in BOOLEAN /\ converts \in BOOLEAN /\ writes \in BOOLEAN /\ plan.start \in Nat
  BY <1>2, RowTypes DEF Reconciles, PeriodDue
<1>11. bills => closes
  OBVIOUS
<1>12. x \in Txn
  <2> HIDE DEF bills, converts, writes, row, s, target
  <2> QED
    BY <1>3, <1>4, <1>6, <1>7, <1>10 DEF Txn, CycleTxn
<1>13. TxnSound(x)
  <2> HIDE DEF closes, bills, converts, writes, row, s, target
  <2>1. CycleSound(x)
    BY <1>1, <1>4, <1>5, <1>6, <1>8, <1>9, <1>11 DEF CycleSound
  <2> QED
    BY <2>1 DEF TxnSound
<1>14. \A v \in Workers : txn[v].op # "cycle"
  BY <1>1 DEF SubLocked
<1> HIDE DEF x
<1> QED
  BY <1>1, <1>3, <1>12, <1>13, <1>14, OpensBilling

LEMMA PayReadsKeeps ==
    ASSUME BillingInv, NEW w \in Workers, NEW i \in Days, PayReads(w, i)
    PROVE  BillingInv'
<1> DEFINE inv == [invoice EXCEPT ![i] = [@ EXCEPT !.status = "paid"]]
           target == Dunning(inv, today)
           writes == Reconciles(tenant, plan.status, target)
           x == [op |-> "pay", at |-> i, target |-> target, writes |-> writes]
<1>1. /\ i \in OpenIn(invoice)
      /\ txn' = [txn EXCEPT ![w] = x]
      /\ UNCHANGED <<today, accounts, usage, patches>>
  BY DEF PayReads
<1>2. /\ today \in Days /\ invoice \in [Days -> Invoice \cup {NoInvoice}]
      /\ patches \in 0 .. MaxPatches
  BY DEF BillingInv, BillingTypeOK
<1>3. target \in SubStatus /\ writes \in BOOLEAN
  BY <1>2, DunningFacts DEF Reconciles
<1>4. i \in Invoiced(invoice)
  BY <1>1 DEF OpenIn, Invoiced
<1>5. target = "suspended" => OverdueBy(today)
  <2> SUFFICES ASSUME target = "suspended"
               PROVE  OverdueBy(today)
    OBVIOUS
  <2>1. PICK k \in OpenIn(inv) : today > inv[k].due /\ today - inv[k].due >= SuspendAfter
    BY <1>2, DunningFacts
  <2>2. k \in Days /\ inv[k].status = "open"
    BY <1>2 DEF OpenIn
  <2>3. k # i
    <3>1. inv[i] = [invoice[i] EXCEPT !.status = "paid"] /\ invoice[i] \in Invoice
      BY <1>2, <1>4, RowTypes DEF Invoiced
    <3>2. inv[i].status = "paid"
      BY <3>1 DEF Invoice
    <3> QED
      BY <2>2, <3>2
  <2>4. inv[k] = invoice[k]
    BY <1>2, <2>2, <2>3
  <2>5. k \in Invoiced(invoice)
    BY <2>2, <2>4 DEF Invoiced
  <2>6. invoice[k].due \in Nat /\ today \in Nat /\ SuspendAfter \in Nat
    <3>1. invoice[k] \in Invoice
      BY <1>2, <2>2, <2>5, RowTypes DEF Invoiced
    <3> QED
      BY <1>2, <3>1, RowTypes, BillingAssumption DEF BillingAssumption, Days
  <2>7. invoice[k].due + SuspendAfter <= today
    BY <2>1, <2>4, <2>6
  <2> QED
    BY <2>5, <2>7 DEF OverdueBy
<1> HIDE DEF target, writes
<1>6. x \in Txn /\ x.op # "cycle"
  BY <1>3 DEF Txn, PayTxn
<1>7. TxnSound(x)
  BY <1>4, <1>5 DEF TxnSound, PaySound
<1> HIDE DEF x
<1> QED
  BY <1>1, <1>2, <1>6, <1>7, OpensBilling

-----------------------------------------------------------------------------
(* Billing: a cycle and a payment commit *)

\* The invoices of before are there, due when they were due.
LEMMA StillOverdue ==
    ASSUME NEW day,
           \A i \in Invoiced(invoice) : i \in Invoiced(invoice)' /\ invoice'[i].due = invoice[i].due
    PROVE  /\ OverdueBy(day) => OverdueBy(day)'
           /\ OverdueBy(today) /\ UNCHANGED today => OverdueBy(today)'
  BY DEF OverdueBy

\* A payment that is open stays sound when invoices only come to be or get paid.
LEMMA StillPaySound ==
    ASSUME NEW x, PaySound(x), UNCHANGED today,
           \A i \in Invoiced(invoice) : i \in Invoiced(invoice)' /\ invoice'[i].due = invoice[i].due
    PROVE  PaySound(x)'
  BY StillOverdue DEF PaySound

LEMMA CycleCommitsKeeps ==
    ASSUME BillingInv, NEW w \in Workers, CycleCommits(w)
    PROVE  BillingInv'
<1> DEFINE x == txn[w]
<1>1. /\ x.op = "cycle"
      /\ plan' = (IF x.writes THEN [x.plan EXCEPT !.status = x.target] ELSE x.plan)
      /\ invoice' = (IF x.bills THEN [invoice EXCEPT ![x.at] = x.row] ELSE invoice)
      /\ tenant' = (IF x.writes THEN x.target ELSE IF x.converts THEN "active" ELSE tenant)
      /\ txn' = [txn EXCEPT ![w] = Idle]
      /\ UNCHANGED <<today, usage, patches>>
  BY DEF CycleCommits
<1>2. /\ today \in Days /\ patches \in 0 .. MaxPatches
      /\ tenant \in TenantStatus \cup {"none"}
      /\ plan \in Subscription
      /\ invoice \in [Days -> Invoice \cup {NoInvoice}]
      /\ usage \subseteq Days
      /\ txn \in [Workers -> Txn]
  BY TxnKinds DEF BillingInv
<1>3. x \in CycleTxn
  BY <1>1, <1>2, TxnKinds
<1>4. CycleSound(x)
  BY <1>1 DEF BillingInv, TxnSound
<1>5. /\ x.plan \in Subscription /\ x.target \in SubStatus /\ x.row \in Invoice
      /\ x.plan.start \in Nat /\ x.plan.end \in Nat /\ plan.start \in Nat
  BY <1>2, <1>3, RowTypes
<1>6. /\ txn'[w] = Idle /\ \A v \in Workers \ {w} : txn'[v] = txn[v]
      /\ txn' \in [Workers -> Txn]
  BY <1>1, <1>2 DEF Txn
<1>7. \A v \in Workers : txn'[v].op # "cycle"
  BY <1>1, <1>6, TxnKinds DEF BillingInv, OneCycle
<1> HIDE DEF x
<1>8. /\ plan' \in Subscription /\ plan'.start = x.plan.start /\ plan'.end = x.plan.end
      /\ plan'.setup = x.plan.setup
  BY <1>1, <1>5 DEF Subscription
<1>9. tenant' \in TenantStatus /\ tenant' # "none"
  BY <1>1, <1>2, <1>4, <1>5 DEF CycleSound, TenantStatus, SubStatus
<1>10. invoice' \in [Days -> Invoice \cup {NoInvoice}]
  BY <1>1, <1>2, <1>5
<1>11. BillingTypeOK'
  BY <1>1, <1>2, <1>6, <1>8, <1>9, <1>10, TxnKinds DEF BillingTypeOK, Txn, CycleTxn, PayTxn
\* The invoices of before are untouched, and end before the one the cycle writes.
<1>12. \A i \in Invoiced(invoice) :
         /\ i \in Invoiced(invoice)' /\ invoice'[i] = invoice[i]
         /\ i < invoice[i].end /\ invoice[i].end <= plan.start /\ invoice[i].end \in Nat
         /\ i \in Nat
  <2> SUFFICES ASSUME NEW i \in Invoiced(invoice)
               PROVE  /\ i \in Invoiced(invoice)' /\ invoice'[i] = invoice[i]
                      /\ i < invoice[i].end /\ invoice[i].end <= plan.start
                      /\ invoice[i].end \in Nat /\ i \in Nat
    OBVIOUS
  <2>1. i \in Days /\ invoice[i].status # "none" /\ i \in Nat
    BY DEF Invoiced, Days
  <2>2. x.bills => x.at # i
    BY <1>4, <2>1 DEF CycleSound
  <2>3. invoice'[i] = invoice[i]
    BY <1>1, <1>2, <2>1, <2>2
  <2>4. i < invoice[i].end /\ invoice[i].end <= plan.start
    BY DEF BillingInv, InvoiceSound, Settled
  <2>5. invoice[i] \in Invoice
    BY <1>2, <2>1, RowTypes
  <2> QED
    BY <2>1, <2>3, <2>4, <2>5, RowTypes DEF Invoiced
<1>13. \A i \in Invoiced(invoice)' :
         \/ i \in Invoiced(invoice)
         \/ x.bills /\ i = x.at /\ invoice'[i] = x.row
  <2> SUFFICES ASSUME NEW i \in Invoiced(invoice)', i \notin Invoiced(invoice)
               PROVE  x.bills /\ i = x.at /\ invoice'[i] = x.row
    OBVIOUS
  <2>1. i \in Days /\ invoice'[i] # invoice[i]
    BY DEF Invoiced
  <2> QED
    BY <1>1, <1>2, <2>1
<1>14. \A i \in Invoiced(invoice)' : InvoiceSound(i)'
  <2> SUFFICES ASSUME NEW i \in Invoiced(invoice)'
               PROVE  /\ Settled(invoice'[i], i) /\ invoice'[i].end <= plan'.start
                      /\ "setup_fee" \in invoice'[i].lines => plan'.setup
    BY DEF InvoiceSound, Settled
  <2>1. CASE i \in Invoiced(invoice)
    <3>1. InvoiceSound(i)
      BY <2>1 DEF BillingInv
    <3> QED
      BY <1>4, <1>5, <1>8, <1>12, <2>1, <3>1 DEF InvoiceSound, CycleSound
  <2>2. CASE x.bills /\ i = x.at /\ invoice'[i] = x.row
    BY <1>4, <1>5, <1>8, <2>2 DEF CycleSound
  <2> QED
    BY <1>13, <2>1, <2>2
<1>15. BilledOnce'
  <2> SUFFICES ASSUME NEW i \in Invoiced(invoice)', NEW j \in Invoiced(invoice)', i < j
               PROVE  /\ invoice'[i].end <= j
                      /\ invoice'[i].gmv \cap invoice'[j].gmv = {}
                      /\ ~("setup_fee" \in invoice'[i].lines /\ "setup_fee" \in invoice'[j].lines)
    BY DEF BilledOnce
  <2>1. CASE i \in Invoiced(invoice) /\ j \in Invoiced(invoice)
    BY <1>12, <2>1 DEF BillingInv, BilledOnce
  <2>2. CASE i \in Invoiced(invoice) /\ x.bills /\ j = x.at /\ invoice'[j] = x.row
    <3>1. j = plan.start /\ Settled(x.row, j) /\ ("setup_fee" \in x.row.lines => ~plan.setup)
      BY <1>4, <2>2 DEF CycleSound
    <3>2. InvoiceSound(i) /\ invoice'[i] = invoice[i] /\ invoice[i].end \in Nat
      BY <1>12, <2>2 DEF BillingInv
    <3>3. invoice'[i].end <= j
      BY <1>12, <2>2, <3>1
    <3>4. ASSUME NEW d \in invoice[i].gmv, d \in x.row.gmv
          PROVE  FALSE
      <4>1. d < invoice[i].end /\ j <= d
        BY <3>1, <3>2, <3>4 DEF InvoiceSound, Settled
      <4>2. d \in Nat /\ j \in Nat
        BY <1>5, <3>1, <3>4, RowTypes DEF Days
      <4> QED
        BY <3>2, <3>3, <4>1, <4>2
    <3> QED
      BY <2>2, <3>1, <3>2, <3>3, <3>4 DEF InvoiceSound
  <2>3. CASE x.bills /\ i = x.at /\ j \in Invoiced(invoice)
    <3>1. i = plan.start /\ i \in Nat
      BY <1>4, <1>5, <2>3 DEF CycleSound
    <3> QED
      BY <1>5, <1>12, <2>3, <3>1
  <2>4. CASE x.bills /\ i = x.at /\ j = x.at
    <3>1. x.at \in Nat
      BY <1>4, <2>4 DEF CycleSound, Days
    <3> QED
      BY <2>4, <3>1
  <2> QED
    BY <1>13, <2>1, <2>2, <2>3, <2>4
<1>16. \A v \in Workers : TxnSound(txn[v])'
  <2> SUFFICES ASSUME NEW v \in Workers
               PROVE  TxnSound(txn[v])'
    OBVIOUS
  <2>1. PICK y : y = txn'[v]
    OBVIOUS
  <2>2. ASSUME y.op = "pay"
        PROVE  PaySound(y)'
    <3>1. v # w /\ y = txn[v]
      BY <1>6, <2>1, <2>2, TxnKinds
    <3>2. PaySound(y)
      BY <2>2, <3>1 DEF BillingInv, TxnSound
    <3> QED
      BY <1>1, <1>12, <3>2, StillPaySound
  <2>3. TxnSound(y)'
    BY <1>7, <2>1, <2>2 DEF TxnSound
  <2> QED
    BY <2>1, <2>3 DEF TxnSound, CycleSound, PaySound, OverdueBy
<1>17. OneCycle'
  BY <1>7 DEF OneCycle
<1>18. tenant' # "none" => plan'.start < plan'.end
  BY <1>4, <1>8 DEF CycleSound
<1> QED
  BY <1>9, <1>11, <1>14, <1>15, <1>16, <1>17, <1>18 DEF BillingInv

LEMMA PayCommitsKeeps ==
    ASSUME BillingInv, NEW w \in Workers, PayCommits(w)
    PROVE  BillingInv'
<1> DEFINE x == txn[w]
<1>1. /\ x.op = "pay" /\ (x.writes => ~SubLocked)
      /\ invoice' = [invoice EXCEPT ![x.at] = [@ EXCEPT !.status = "paid"]]
      /\ plan' = (IF x.writes THEN [plan EXCEPT !.status = x.target] ELSE plan)
      /\ tenant' = (IF x.writes THEN x.target ELSE tenant)
      /\ txn' = [txn EXCEPT ![w] = Idle]
      /\ UNCHANGED <<today, usage, patches>>
  BY DEF PayCommits
<1>2. /\ today \in Days /\ patches \in 0 .. MaxPatches
      /\ tenant \in TenantStatus \cup {"none"}
      /\ plan \in Subscription
      /\ invoice \in [Days -> Invoice \cup {NoInvoice}]
      /\ usage \subseteq Days
      /\ txn \in [Workers -> Txn]
  BY TxnKinds DEF BillingInv
<1>3. x \in PayTxn
  BY <1>1, <1>2, TxnKinds
<1>4. x.at \in Invoiced(invoice) /\ x.at \in Days /\ x.target \in SubStatus
  BY <1>1, <1>3, RowTypes DEF BillingInv, TxnSound, PaySound
<1>5. /\ txn'[w] = Idle /\ \A v \in Workers \ {w} : txn'[v] = txn[v]
      /\ txn' \in [Workers -> Txn]
  BY <1>1, <1>2 DEF Txn
<1>6. tenant # "none"
  BY <1>4 DEF BillingInv
<1> HIDE DEF x
\* Only the status of the invoice changes.
<1>7. /\ invoice[x.at] \in Invoice
      /\ invoice'[x.at] = [invoice[x.at] EXCEPT !.status = "paid"]
      /\ \A i \in Days : i # x.at => invoice'[i] = invoice[i]
  BY <1>1, <1>2, <1>4, RowTypes DEF Invoiced
<1>8. /\ invoice'[x.at] \in Invoice
      /\ invoice'[x.at].end = invoice[x.at].end /\ invoice'[x.at].due = invoice[x.at].due
      /\ invoice'[x.at].lines = invoice[x.at].lines /\ invoice'[x.at].gmv = invoice[x.at].gmv
  BY <1>7 DEF Invoice
<1>9. invoice'[x.at].status # "none"
  BY <1>8, RowTypes
<1>10. \A i \in Days :
         /\ i \in Invoiced(invoice)' <=> i \in Invoiced(invoice)
         /\ invoice'[i].end = invoice[i].end /\ invoice'[i].due = invoice[i].due
         /\ invoice'[i].lines = invoice[i].lines /\ invoice'[i].gmv = invoice[i].gmv
  BY <1>4, <1>7, <1>8, <1>9 DEF Invoiced
<1>11. invoice' \in [Days -> Invoice \cup {NoInvoice}]
  <2>1. invoice' = [invoice EXCEPT ![x.at] = invoice'[x.at]]
    BY <1>1, <1>2, <1>4
  <2> QED
    BY <1>2, <1>8, <2>1
<1>12. /\ plan' \in Subscription /\ plan'.start = plan.start /\ plan'.end = plan.end
       /\ plan'.setup = plan.setup
  BY <1>1, <1>2, <1>4 DEF Subscription
<1>13. tenant' \in TenantStatus /\ tenant' # "none"
  BY <1>1, <1>2, <1>4, <1>6 DEF TenantStatus, SubStatus
<1>14. BillingTypeOK'
  BY <1>1, <1>2, <1>5, <1>11, <1>12, <1>13, TxnKinds DEF BillingTypeOK, Txn, CycleTxn, PayTxn
<1>15. Invoiced(invoice)' \subseteq Days /\ Invoiced(invoice)' \subseteq Invoiced(invoice)
  BY <1>10 DEF Invoiced
<1>16. \A i \in Invoiced(invoice)' : InvoiceSound(i)'
  <2> SUFFICES ASSUME NEW i \in Invoiced(invoice)'
               PROVE  /\ Settled(invoice'[i], i) /\ invoice'[i].end <= plan'.start
                      /\ "setup_fee" \in invoice'[i].lines => plan'.setup
    BY DEF InvoiceSound, Settled
  <2>1. InvoiceSound(i) /\ i \in Days
    BY <1>15 DEF BillingInv
  <2> QED
    BY <1>10, <1>12, <2>1 DEF InvoiceSound, Settled
<1>17. BilledOnce'
  BY <1>10, <1>15 DEF BillingInv, BilledOnce
<1>18. Invoiced(invoice) \subseteq Days
  BY DEF Invoiced
<1>19. \A v \in Workers : TxnSound(txn[v])'
  <2> SUFFICES ASSUME NEW v \in Workers, v # w
               PROVE  TxnSound(txn[v])'
    BY <1>5, TxnKinds DEF TxnSound
  <2>1. PICK y : y = txn[v]
    OBVIOUS
  <2>2. TxnSound(y) /\ txn'[v] = y
    BY <1>5, <2>1 DEF BillingInv
  <2>3. \A i \in Invoiced(invoice) :
          i \in Invoiced(invoice)' /\ invoice'[i].due = invoice[i].due
    BY <1>10, <1>18
  <2>4. PaySound(y) => PaySound(y)'
    BY <1>1, <2>3, StillPaySound
  <2>5. ASSUME CycleSound(y)
        PROVE  CycleSound(y)'
    <3>1. PICK day : day = y.day
      OBVIOUS
    <3>2. OverdueBy(day) => OverdueBy(day)'
      BY <2>3, StillOverdue
    <3>3. y.bills => invoice'[y.at].status = "none"
      <4>1. ASSUME y.bills
            PROVE  y.at \in Days /\ y.at # x.at
        BY <1>4, <2>5, <4>1 DEF CycleSound, Invoiced
      <4> QED
        BY <1>7, <2>5, <4>1 DEF CycleSound
    <3> QED
      BY <1>12, <1>13, <2>5, <3>1, <3>2, <3>3 DEF CycleSound, Settled
  <2>6. TxnSound(y)'
    BY <2>2, <2>4, <2>5 DEF TxnSound
  <2> QED
    BY <2>2, <2>6 DEF TxnSound, CycleSound, PaySound, OverdueBy
<1>20. OneCycle'
  BY <1>5, TxnKinds DEF BillingInv, OneCycle
<1>21. plan'.start < plan'.end
  BY <1>6, <1>12 DEF BillingInv
<1> QED
  BY <1>13, <1>14, <1>16, <1>17, <1>19, <1>20, <1>21 DEF BillingInv

-----------------------------------------------------------------------------
LEMMA BillingStepHolds == BillingInv /\ [BillingNext]_billingVars => BillingInv'
<1> SUFFICES ASSUME BillingInv, [BillingNext]_billingVars
             PROVE  BillingInv'
  OBVIOUS
<1>1. CASE UNCHANGED billingVars
  BY <1>1
  DEF billingVars, accounts, BillingInv, BillingTypeOK, Invoiced, InvoiceSound, BilledOnce,
      OneCycle, TxnSound, CycleSound, PaySound, OverdueBy
<1>2. ASSUME NEW w \in Workers, WorkerStep(w)
      PROVE  BillingInv'
  BY <1>2, CycleVisitsKeeps, CycleCommitsKeeps, PayReadsKeeps, PayCommitsKeeps,
     RollbackKeepsBilling DEF WorkerStep
<1> QED
  BY <1>1, <1>2, CreateTenantKeeps, PatchPlanKeeps, CalendarKeeps DEF BillingNext

LEMMA BillingInvHolds == BillingSpec => []BillingInv
  BY BillingInitHolds, BillingStepHolds, PTL DEF BillingSpec

\* What billing keeps in every state (service.generate_invoice and the pay and patch
\* handlers): rows of their types, and no day, no usage and no setup fee billed twice,
\* whatever cycles and payments overlap and whatever day a cycle is told.
THEOREM BillingSafeHolds == BillingSpec => []BillingSafe
<1>1. BillingInv => BillingSafe
  BY DEF BillingInv, BillingSafe
<1> QED
  BY <1>1, BillingInvHolds, PTL

-----------------------------------------------------------------------------
(* Billing: nobody is suspended early *)

LEMMA CycleSuspends ==
    ASSUME BillingInv, NEW w \in Workers, CycleCommits(w),
           tenant' = "suspended", tenant # "suspended"
    PROVE  Overstayed \/ ByHand
<1> DEFINE x == txn[w]
<1>1. /\ x.op = "cycle" /\ CycleSound(x)
      /\ tenant' = (IF x.writes THEN x.target ELSE IF x.converts THEN "active" ELSE tenant)
  BY DEF CycleCommits, BillingInv, TxnSound
<1>2. x \in CycleTxn /\ today \in Days /\ invoice \in [Days -> Invoice \cup {NoInvoice}]
  BY <1>1, TxnKinds DEF BillingInv
<1>3. x.day \in Nat /\ today \in Nat
  BY <1>2, RowTypes DEF Days
<1>4. x.target = "suspended"
  BY <1>1
<1>5. CASE x.day > today
  BY <1>1, <1>5 DEF ByHand
<1>6. CASE x.day <= today
  <2>1. PICK i \in Invoiced(invoice) : invoice[i].due + SuspendAfter <= x.day
    BY <1>1, <1>4 DEF CycleSound, OverdueBy
  <2>2. invoice[i].due + SuspendAfter \in Nat
    <3>1. invoice[i] \in Invoice
      BY <1>2, RowTypes DEF Invoiced
    <3> QED
      BY <3>1, RowTypes, BillingAssumption DEF BillingAssumption
  <2>3. invoice[i].due + SuspendAfter <= today
    BY <1>3, <1>6, <2>1, <2>2
  <2> QED
    BY <2>3 DEF Overstayed
<1> QED
  BY <1>3, <1>5, <1>6

LEMMA SuspendsLate ==
    ASSUME BillingInv, [BillingNext]_billingVars, tenant' = "suspended", tenant # "suspended"
    PROVE  Overstayed \/ ByHand
<1>1. ASSUME NEW w \in Workers, PayCommits(w)
      PROVE  Overstayed
  <2>1. PaySound(txn[w])
    BY <1>1 DEF PayCommits, BillingInv, TxnSound
  <2>2. txn[w].target = "suspended"
    BY <1>1 DEF PayCommits
  <2> QED
    BY <2>1, <2>2 DEF PaySound, OverdueBy, Overstayed
<1>2. ASSUME NEW to \in TenantStatus, PatchTenant(to)
      PROVE  ByHand
  <2>1. patches \in Nat /\ patches' = patches + 1
    BY <1>2 DEF PatchTenant, BillingInv, BillingTypeOK
  <2> QED
    BY <2>1 DEF ByHand
<1>3. ASSUME NEW w \in Workers, WorkerStep(w)
      PROVE  Overstayed \/ ByHand
  BY <1>1, <1>3, CycleSuspends DEF WorkerStep, CycleVisits, PayReads, Rollback, accounts
<1> QED
  BY <1>2, <1>3
  DEF BillingNext, billingVars, accounts, CreateTenant, NewDay, PatchPlan, RecordUsage

\* Dunning never suspends a tenant early (service.dunning_state, reconcile_status): a step
\* that suspends it is an operator's, or one of its invoices has been due for
\* SUSPEND_AFTER days, however old the read is that the step acts on.
THEOREM NobodySuspendedEarly == BillingSpec => NeverSuspendedEarly
<1>1. BillingInv /\ [BillingNext]_billingVars =>
        [tenant' = "suspended" /\ tenant # "suspended" => Overstayed \/ ByHand]_billingVars
  BY SuspendsLate
<1> QED
  BY <1>1, BillingInvHolds, PTL DEF BillingSpec, NeverSuspendedEarly

-----------------------------------------------------------------------------
(* Domains: the inductive invariant *)

HostRows == [status : {"none", "pending", "active", "inactive"}, primary : BOOLEAN]
StatusTxn == [op : {"status"}, to : ShopStatus]
VerifyTxn == [op : {"verify"}, host : Custom, writes : BOOLEAN]
RecheckTxn == [op : {"recheck"}, failed : SUBSET Custom, demotes : SUBSET Custom]
PrimaryTxn == [op : {"primary"}, host : Hosts, old : SUBSET Hosts]
HostTxn == {Quiet} \cup StatusTxn \cup VerifyTxn \cup RecheckTxn \cup PrimaryTxn

\* What is served, or about to be, has been proved: the rows, the cached answers, the
\* answers on their way into the cache, and the host a verification will activate.
ProvedRows == \A h \in Custom : (dns[h] \/ domain[h].status = "active") => h \in proved
ProvedCache == \A h \in Custom : cache[h] # None /\ cache[h].domain = "active" => h \in proved
ProvedReaders ==
    \A r \in Readers : reader[r].row # None /\ reader[r].row.domain = "active"
                       /\ reader[r].host \in Custom => reader[r].host \in proved
ProvedVerifies ==
    \A s \in Staff : open[s].op = "verify" /\ open[s].writes => open[s].host \in proved
OnePrimary == \A g, h \in Primaries : g = h

DomainsInv ==
    /\ DomainsTypeOK /\ OnePrimary
    /\ ProvedRows /\ ProvedCache /\ ProvedReaders /\ ProvedVerifies

LEMMA HostTypes ==
    /\ DomainsTypeOK <=>
        /\ shop \in ShopStatus /\ changes \in 0 .. MaxChanges
        /\ domain \in [Hosts -> HostRows]
        /\ dns \in [Custom -> BOOLEAN] /\ proved \subseteq Custom
        /\ cache \in [Hosts -> Rows \cup {None}]
        /\ reader \in [Readers -> [host : Hosts, row : Rows \cup {None}]]
        /\ open \in [Staff -> HostTxn]
    /\ \A x \in HostTxn : /\ x.op = "status" <=> x \in StatusTxn
                          /\ x.op = "verify" <=> x \in VerifyTxn
                          /\ x.op = "recheck" <=> x \in RecheckTxn
                          /\ x.op = "primary" <=> x \in PrimaryTxn
    /\ Quiet.op = "quiet" /\ Quiet \in HostTxn
    /\ Home \in Hosts /\ Custom \subseteq Hosts
<1>1. /\ Quiet.op = "quiet"
      /\ \A x \in StatusTxn : x.op = "status"
      /\ \A x \in VerifyTxn : x.op = "verify"
      /\ \A x \in RecheckTxn : x.op = "recheck"
      /\ \A x \in PrimaryTxn : x.op = "primary"
  BY DEF Quiet, StatusTxn, VerifyTxn, RecheckTxn, PrimaryTxn
<1>2. DomainsTypeOK <=>
        /\ shop \in ShopStatus /\ changes \in 0 .. MaxChanges
        /\ domain \in [Hosts -> HostRows]
        /\ dns \in [Custom -> BOOLEAN] /\ proved \subseteq Custom
        /\ cache \in [Hosts -> Rows \cup {None}]
        /\ reader \in [Readers -> [host : Hosts, row : Rows \cup {None}]]
        /\ open \in [Staff -> HostTxn]
  BY DEF DomainsTypeOK, HostRows, HostTxn, StatusTxn, VerifyTxn, RecheckTxn, PrimaryTxn
<1>3. Home \in Hosts /\ Custom \subseteq Hosts /\ Quiet \in HostTxn
  BY DomainsAssumption DEF DomainsAssumption, Custom, HostTxn
<1> QED
  BY <1>1, <1>2, <1>3 DEF HostTxn

LEMMA DomainsInitHolds == DomainsInit => DomainsInv
<1> SUFFICES ASSUME DomainsInit
             PROVE  DomainsInv
  OBVIOUS
<1>1. DomainsTypeOK
  <2>1. 0 \in 0 .. MaxChanges /\ "active" \in ShopStatus
    BY DomainsAssumption DEF DomainsAssumption, ShopStatus
  <2> QED
    BY <2>1, HostTypes DEF DomainsInit, HostRows
<1>2. OnePrimary /\ ProvedRows
  BY HostTypes DEF DomainsInit, OnePrimary, Primaries, ProvedRows, Custom
<1>3. ProvedCache /\ ProvedReaders /\ ProvedVerifies
  BY HostTypes DEF DomainsInit, ProvedCache, ProvedReaders, ProvedVerifies
<1> QED
  BY <1>1, <1>2, <1>3 DEF DomainsInv

-----------------------------------------------------------------------------
(* Domains: transactions open and end *)

LEMMA CacheForgets ==
    ASSUME DomainsInv, NEW H, cache' \in {Without(H), cache}, UNCHANGED proved
    PROVE  cache' \in [Hosts -> Rows \cup {None}] /\ ProvedCache'
  BY HostTypes DEF DomainsInv, ProvedCache, Without

LEMMA OpensHosts ==
    ASSUME DomainsInv, NEW s \in Staff, NEW x \in HostTxn, open' = [open EXCEPT ![s] = x],
           x.op = "verify" /\ x.writes => x.host \in proved,
           cache' \in [Hosts -> Rows \cup {None}], ProvedCache',
           changes' \in 0 .. MaxChanges, UNCHANGED <<db, world, reader>>
    PROVE  DomainsInv'
<1>1. DomainsTypeOK'
  BY HostTypes DEF DomainsInv, db, world, DomainsTypeOK, HostTxn, StatusTxn,
     VerifyTxn, RecheckTxn, PrimaryTxn
<1>2. OnePrimary' /\ ProvedRows' /\ ProvedReaders'
  BY DEF DomainsInv, OnePrimary, Primaries, ProvedRows, ProvedReaders, db, world
<1>3. ProvedVerifies'
  BY HostTypes DEF DomainsInv, ProvedVerifies, world
<1> QED
  BY <1>1, <1>2, <1>3 DEF DomainsInv

LEMMA ReadsHosts ==
    ASSUME DomainsInv, NEW s \in Staff,
           \/ \E to \in ShopStatus : StatusFlushes(s, to)
           \/ \E h \in Custom : VerifyReads(s, h)
           \/ \E h \in Hosts : PrimaryReads(s, h)
           \/ RecheckReads(s) \/ Lost(s)
    PROVE  DomainsInv'
<1>1. changes \in 0 .. MaxChanges /\ MaxChanges \in Nat
  BY HostTypes, DomainsAssumption DEF DomainsAssumption, DomainsInv
<1> DEFINE fits == cache' \in [Hosts -> Rows \cup {None}] /\ ProvedCache'
<1>2. ASSUME NEW to \in ShopStatus, StatusFlushes(s, to)
      PROVE  DomainsInv'
  <2>1. PICK x \in HostTxn : x = [op |-> "status", to |-> to]
    BY DEF HostTxn, StatusTxn
  <2>2. changes' \in 0 .. MaxChanges /\ x.op # "verify"
    BY <1>1, <1>2, <2>1 DEF StatusFlushes
  <2>3. /\ open' = [open EXCEPT ![s] = x] /\ fits
        /\ UNCHANGED <<db, world, reader>>
    BY <1>2, <2>1, CacheForgets DEF StatusFlushes, world
  <2> QED
    BY <2>2, <2>3, OpensHosts
<1>3. ASSUME NEW h \in Custom, VerifyReads(s, h)
      PROVE  DomainsInv'
  <2>1. PICK ok \in Answers(h) :
          open' = [open EXCEPT ![s] =
              [op |-> "verify", host |-> h, writes |-> ok /\ domain[h].status # "active"]]
    BY <1>3 DEF VerifyReads
  <2>2. ok \in BOOLEAN /\ (ok => dns[h])
    BY HostTypes DEF Answers, DomainsInv
  <2> DEFINE writes == ok /\ domain[h].status # "active"
  <2>3. writes \in BOOLEAN /\ (writes => h \in proved)
    BY <2>2 DEF DomainsInv, ProvedRows
  <2> HIDE DEF writes
  <2>4. PICK x : x = [op |-> "verify", host |-> h, writes |-> writes]
    OBVIOUS
  <2>5. x \in HostTxn
    BY <2>3, <2>4 DEF HostTxn, VerifyTxn
  <2>6. x.op = "verify" /\ x.writes => x.host \in proved
    BY <2>3, <2>4
  <2>7. open' = [open EXCEPT ![s] = x]
    BY <2>1, <2>4 DEF writes
  <2>8. fits /\ changes' \in 0 .. MaxChanges
        /\ UNCHANGED <<db, world, reader>>
    BY <1>1, <1>3, CacheForgets DEF VerifyReads, world
  <2> QED
    BY <2>5, <2>6, <2>7, <2>8, OpensHosts
<1>4. ASSUME NEW h \in Hosts, PrimaryReads(s, h)
      PROVE  DomainsInv'
  <2>1. PICK x : x = [op |-> "primary", host |-> h, old |-> Primaries]
    OBVIOUS
  <2>2. x \in HostTxn /\ x.op # "verify"
    BY <2>1 DEF HostTxn, PrimaryTxn, Primaries
  <2>3. /\ open' = [open EXCEPT ![s] = x] /\ fits
        /\ UNCHANGED <<db, world, reader>> /\ changes' \in 0 .. MaxChanges
    BY <1>1, <1>4, <2>1, CacheForgets DEF PrimaryReads, world
  <2> QED
    BY <2>2, <2>3, OpensHosts
<1>5. ASSUME RecheckReads(s)
      PROVE  DomainsInv'
  <2>1. PICK failed \in SUBSET Active :
          open' = [open EXCEPT ![s] =
                [op |-> "recheck", failed |-> failed,
                 demotes |-> {h \in failed : domain[h].primary}]]
    BY <1>5 DEF RecheckReads
  <2>2. PICK x : x = [op |-> "recheck", failed |-> failed,
                      demotes |-> {h \in failed : domain[h].primary}]
    OBVIOUS
  <2>3. x \in HostTxn /\ x.op # "verify"
    BY <2>2 DEF HostTxn, RecheckTxn, Active
  <2>4. /\ open' = [open EXCEPT ![s] = x] /\ fits
        /\ UNCHANGED <<db, world, reader>> /\ changes' \in 0 .. MaxChanges
    BY <1>1, <1>5, <2>1, <2>2, CacheForgets DEF RecheckReads, world
  <2> QED
    BY <2>3, <2>4, OpensHosts
<1>6. ASSUME Lost(s)
      PROVE  DomainsInv'
  <2>1. /\ open' = [open EXCEPT ![s] = Quiet] /\ fits
        /\ UNCHANGED <<db, world, reader>> /\ changes' \in 0 .. MaxChanges
    BY <1>1, <1>6, CacheForgets DEF Lost, world
  <2>2. Quiet \in HostTxn /\ Quiet.op # "verify"
    BY HostTypes
  <2> QED
    BY <2>1, <2>2, OpensHosts
<1> QED
  BY <1>2, <1>3, <1>4, <1>5, <1>6

\* A transaction commits: what must be shown of the rows it leaves.
LEMMA CommitsHosts ==
    ASSUME DomainsInv, NEW s \in Staff, open' = [open EXCEPT ![s] = Quiet],
           shop' \in ShopStatus, domain' \in [Hosts -> HostRows],
           OnePrimary',
           \A h \in Custom : domain'[h].status = "active" =>
                               domain[h].status = "active" \/ h \in proved,
           UNCHANGED <<world, cache, reader, changes>>
    PROVE  DomainsInv'
<1>1. open' \in [Staff -> HostTxn]
      /\ \A t \in Staff : open'[t] = open[t] \/ open'[t].op = "quiet"
  BY HostTypes DEF DomainsInv
<1>2. DomainsTypeOK'
  BY <1>1, HostTypes DEF DomainsInv, world, DomainsTypeOK, HostTxn, StatusTxn, HostRows,
     VerifyTxn, RecheckTxn, PrimaryTxn
<1>3. ProvedRows' /\ ProvedCache' /\ ProvedReaders'
  BY DEF DomainsInv, ProvedRows, ProvedCache, ProvedReaders, world
<1>4. ProvedVerifies'
  BY <1>1 DEF DomainsInv, ProvedVerifies, world
<1> QED
  BY <1>2, <1>3, <1>4 DEF DomainsInv

LEMMA StatusCommitsKeeps ==
    ASSUME DomainsInv, NEW s \in Staff, StatusCommits(s)
    PROVE  DomainsInv'
<1>1. open[s] \in StatusTxn
  BY HostTypes DEF StatusCommits, DomainsInv
<1>2. shop' \in ShopStatus /\ domain' \in [Hosts -> HostRows] /\ OnePrimary'
  BY <1>1, HostTypes DEF StatusCommits, StatusTxn, DomainsInv, OnePrimary, Primaries
<1> QED
  BY <1>2, CommitsHosts DEF StatusCommits

LEMMA VerifyCommitsKeeps ==
    ASSUME DomainsInv, NEW s \in Staff, VerifyCommits(s)
    PROVE  DomainsInv'
<1>1. PICK x : x = open[s]
  OBVIOUS
<1>2. x \in VerifyTxn /\ (x.writes => x.host \in proved)
  BY <1>1, HostTypes DEF VerifyCommits, DomainsInv, ProvedVerifies
<1>3. x.host \in Custom /\ x.host \in Hosts
  BY <1>2, HostTypes DEF VerifyTxn
<1>4. domain \in [Hosts -> HostRows]
  BY HostTypes DEF DomainsInv
<1>5. [domain[x.host] EXCEPT !.status = "active"] \in HostRows
      /\ [domain[x.host] EXCEPT !.status = "active"].primary = domain[x.host].primary
  BY <1>3, <1>4 DEF HostRows
<1>6. domain' = (IF x.writes
                 THEN [domain EXCEPT ![x.host] = [domain[x.host] EXCEPT !.status = "active"]]
                 ELSE domain)
  BY <1>1 DEF VerifyCommits
<1>7. /\ domain' \in [Hosts -> HostRows]
      /\ \A h \in Hosts : domain'[h].primary = domain[h].primary
      /\ \A h \in Custom : domain'[h].status = "active" =>
                             domain[h].status = "active" \/ h \in proved
  BY <1>2, <1>3, <1>4, <1>5, <1>6, HostTypes
<1>8. OnePrimary'
  BY <1>7 DEF DomainsInv, OnePrimary, Primaries
<1>9. shop' \in ShopStatus /\ open' = [open EXCEPT ![s] = Quiet]
      /\ UNCHANGED <<world, cache, reader, changes>>
  BY HostTypes DEF VerifyCommits, DomainsInv
<1> QED
  BY <1>7, <1>8, <1>9, CommitsHosts

LEMMA RecheckCommitsKeeps ==
    ASSUME DomainsInv, NEW s \in Staff, RecheckCommits(s)
    PROVE  DomainsInv'
<1>1. PICK x : x = open[s]
  OBVIOUS
<1>2. domain \in [Hosts -> HostRows] /\ Custom \subseteq Hosts
  BY HostTypes DEF DomainsInv
<1>3. domain' = [h \in Hosts |->
           [status |-> IF h \in x.failed THEN "inactive" ELSE domain[h].status,
            primary |-> domain[h].primary /\ h \notin x.demotes]]
  BY <1>1 DEF RecheckCommits
<1>4. \A h \in Hosts : domain[h].status \in {"none", "pending", "active", "inactive"}
                       /\ domain[h].primary \in BOOLEAN
  BY <1>2 DEF HostRows
<1>5. domain' \in [Hosts -> HostRows]
  BY <1>3, <1>4 DEF HostRows
<1>6. \A h \in Hosts : /\ domain'[h].primary => domain[h].primary
                       /\ domain'[h].status = "active" => domain[h].status = "active"
  BY <1>3
<1>7. OnePrimary'
  BY <1>6 DEF DomainsInv, OnePrimary, Primaries
<1>8. shop' \in ShopStatus /\ open' = [open EXCEPT ![s] = Quiet]
      /\ UNCHANGED <<world, cache, reader, changes>>
  BY HostTypes DEF RecheckCommits, DomainsInv
<1> QED
  BY <1>2, <1>5, <1>6, <1>7, <1>8, CommitsHosts

LEMMA PrimaryCommitsKeeps ==
    ASSUME DomainsInv, NEW s \in Staff, PrimaryCommits(s)
    PROVE  DomainsInv'
<1>1. PICK x : x = open[s]
  OBVIOUS
<1>2. x \in PrimaryTxn /\ x.host \in Hosts
  BY <1>1, HostTypes DEF PrimaryCommits, DomainsInv, PrimaryTxn
<1>3. domain \in [Hosts -> HostRows] /\ Custom \subseteq Hosts
  BY HostTypes DEF DomainsInv
<1>4. domain' = [h \in Hosts |->
           [domain[h] EXCEPT !.primary = h = x.host \/ (@ /\ h \notin x.old)]]
  BY <1>1 DEF PrimaryCommits
<1> DEFINE first(h) == h = x.host \/ (domain[h].primary /\ h \notin x.old)
<1>5. \A h \in Hosts : first(h) \in BOOLEAN
  OBVIOUS
<1>6. \A h \in Hosts : domain'[h] = [domain[h] EXCEPT !.primary = first(h)]
  BY <1>4
\* The unique index: whatever is primary by now was read, or is the host itself.
<1>7. \A h \in Hosts : first(h) => h = x.host
  BY <1>1, <1>3 DEF PrimaryCommits, OldGone, Primaries
<1> HIDE DEF first
<1>8. \A h \in Hosts : /\ domain'[h] \in HostRows
                       /\ domain'[h].primary = first(h)
                       /\ domain'[h].status = domain[h].status
  <2> SUFFICES ASSUME NEW h \in Hosts
               PROVE  /\ domain'[h] \in HostRows
                      /\ domain'[h].primary = first(h)
                      /\ domain'[h].status = domain[h].status
    OBVIOUS
  <2>1. domain[h] \in HostRows /\ first(h) \in BOOLEAN
    BY <1>3, <1>5
  <2>2. PICK p \in BOOLEAN : p = first(h)
    BY <2>1
  <2> QED
    BY <1>6, <2>1, <2>2 DEF HostRows
<1>9. domain' \in [Hosts -> HostRows]
  <2>1. domain' = [h \in Hosts |-> domain'[h]]
    BY <1>4
  <2> QED
    BY <1>8, <2>1
<1>10. OnePrimary'
  BY <1>7, <1>8 DEF OnePrimary, Primaries
<1>11. shop' \in ShopStatus /\ open' = [open EXCEPT ![s] = Quiet]
       /\ UNCHANGED <<world, cache, reader, changes>>
  BY HostTypes DEF PrimaryCommits, DomainsInv
<1> QED
  BY <1>3, <1>8, <1>9, <1>10, <1>11, CommitsHosts

-----------------------------------------------------------------------------
(* Domains: the world, the cache and its readers *)

LEMMA AddDomainKeeps ==
    ASSUME DomainsInv, NEW h \in Custom, AddDomain(h)
    PROVE  DomainsInv'
<1>1. domain \in [Hosts -> HostRows] /\ h \in Hosts
  BY HostTypes DEF DomainsInv
<1>2. domain' = [domain EXCEPT ![h] = [domain[h] EXCEPT !.status = "pending"]]
  BY DEF AddDomain
<1>3. /\ [domain[h] EXCEPT !.status = "pending"] \in HostRows
      /\ [domain[h] EXCEPT !.status = "pending"].primary = domain[h].primary
      /\ [domain[h] EXCEPT !.status = "pending"].status = "pending"
  BY <1>1 DEF HostRows
<1>4. /\ domain' \in [Hosts -> HostRows]
      /\ \A g \in Hosts : /\ domain'[g].primary = domain[g].primary
                          /\ domain'[g].status = "active" => domain[g].status = "active"
  BY <1>1, <1>2, <1>3
<1>5. DomainsTypeOK'
  BY <1>4, HostTypes DEF DomainsInv, AddDomain, world, DomainsTypeOK, HostRows
<1>6. OnePrimary' /\ ProvedRows'
  BY <1>4, HostTypes DEF DomainsInv, AddDomain, world, OnePrimary, Primaries, ProvedRows
<1>7. ProvedCache' /\ ProvedReaders' /\ ProvedVerifies'
  BY DEF DomainsInv, AddDomain, world, ProvedCache, ProvedReaders, ProvedVerifies
<1> QED
  BY <1>5, <1>6, <1>7 DEF DomainsInv

LEMMA DnsChangesKeeps ==
    ASSUME DomainsInv, NEW h \in Custom, DnsChanges(h)
    PROVE  DomainsInv'
<1>1. /\ dns' = [dns EXCEPT ![h] = ~dns[h]] /\ changes' = changes + 1 /\ changes < MaxChanges
      /\ proved' = proved \cup {x \in Custom : dns'[x]}
      /\ UNCHANGED <<db, cache, reader, open>>
  BY DEF DnsChanges
<1>2. dns \in [Custom -> BOOLEAN] /\ changes \in Nat /\ MaxChanges \in Nat
  BY HostTypes, DomainsAssumption DEF DomainsAssumption, DomainsInv
<1>3. dns' \in [Custom -> BOOLEAN]
  BY <1>1, <1>2
<1>4. proved \subseteq proved' /\ (proved \subseteq Custom => proved' \subseteq Custom)
  BY <1>1
<1>5. DomainsTypeOK'
  BY <1>1, <1>2, <1>3, <1>4 DEF DomainsInv, db, DomainsTypeOK
<1>6. ProvedRows'
  BY <1>1, <1>4 DEF DomainsInv, db, ProvedRows
<1>7. OnePrimary' /\ ProvedCache' /\ ProvedReaders' /\ ProvedVerifies'
  BY <1>1, <1>4
  DEF DomainsInv, db, OnePrimary, Primaries, ProvedCache, ProvedReaders, ProvedVerifies
<1> QED
  BY <1>5, <1>6, <1>7 DEF DomainsInv

LEMMA MissesKeeps ==
    ASSUME DomainsInv, NEW r \in Readers, NEW h \in Hosts, Misses(r, h)
    PROVE  DomainsInv'
<1>1. PICK x : x = [host |-> h, row |-> Row(h)]
  OBVIOUS
<1>2. reader' = [reader EXCEPT ![r] = x] /\ UNCHANGED <<db, world, cache, open, changes>>
  BY <1>1 DEF Misses
<1>3. Row(h) \in Rows /\ Row(h).domain = domain[h].status
  BY HostTypes DEF DomainsInv, Row, Rows, HostRows
<1>4. x \in [host : Hosts, row : Rows \cup {None}]
  BY <1>1, <1>3
<1>5. x.row.domain = "active" /\ x.host \in Custom => x.host \in proved
  BY <1>1, <1>3 DEF DomainsInv, ProvedRows
<1>6. reader' \in [Readers -> [host : Hosts, row : Rows \cup {None}]]
  BY <1>2, <1>4, HostTypes DEF DomainsInv
<1>7. DomainsTypeOK'
  BY <1>2, <1>6 DEF DomainsInv, db, world, DomainsTypeOK
<1>8. ProvedReaders'
  BY <1>2, <1>5, HostTypes DEF DomainsInv, world, ProvedReaders
<1> QED
  BY <1>2, <1>7, <1>8
  DEF DomainsInv, db, world, OnePrimary, Primaries, ProvedRows, ProvedCache, ProvedVerifies

LEMMA FillsKeeps ==
    ASSUME DomainsInv, NEW r \in Readers, Fills(r)
    PROVE  DomainsInv'
<1>1. PICK h, row : h = reader[r].host /\ row = reader[r].row
  OBVIOUS
<1>2. /\ row # None /\ cache' = [cache EXCEPT ![h] = row]
      /\ reader' = [reader EXCEPT ![r] = [host |-> Home, row |-> None]]
      /\ UNCHANGED <<db, world, open, changes>>
  BY <1>1 DEF Fills
<1>3. h \in Hosts /\ row \in Rows /\ Home \in Hosts
  BY <1>1, <1>2, HostTypes DEF DomainsInv
<1>4. row.domain = "active" /\ h \in Custom => h \in proved
  BY <1>1, <1>2 DEF DomainsInv, ProvedReaders
<1>5. DomainsTypeOK'
  BY <1>2, <1>3, HostTypes DEF DomainsInv, db, world, DomainsTypeOK
<1>6. ProvedCache'
  BY <1>2, <1>4, HostTypes DEF DomainsInv, world, ProvedCache
<1>7. ProvedReaders'
  BY <1>2, HostTypes DEF DomainsInv, world, ProvedReaders
<1> QED
  BY <1>2, <1>5, <1>6, <1>7
  DEF DomainsInv, db, world, OnePrimary, Primaries, ProvedRows, ProvedVerifies

LEMMA ExpiresKeeps ==
    ASSUME DomainsInv, NEW h \in Hosts, Expires(h)
    PROVE  DomainsInv'
<1>1. cache' \in [Hosts -> Rows \cup {None}] /\ ProvedCache'
  BY CacheForgets DEF Expires, world
<1> QED
  BY <1>1
  DEF Expires, DomainsInv, DomainsTypeOK, db, world, OnePrimary, Primaries, ProvedRows,
      ProvedReaders, ProvedVerifies

-----------------------------------------------------------------------------
LEMMA DomainsStepHolds == DomainsInv /\ [DomainsNext]_domainsVars => DomainsInv'
<1> SUFFICES ASSUME DomainsInv, [DomainsNext]_domainsVars
             PROVE  DomainsInv'
  OBVIOUS
<1>1. CASE UNCHANGED domainsVars
  BY <1>1
  DEF domainsVars, db, world, DomainsInv, DomainsTypeOK, OnePrimary, Primaries, ProvedRows,
      ProvedCache, ProvedReaders, ProvedVerifies
<1>2. ASSUME NEW s \in Staff, StaffStep(s)
      PROVE  DomainsInv'
  BY <1>2, ReadsHosts, StatusCommitsKeeps, VerifyCommitsKeeps, RecheckCommitsKeeps,
     PrimaryCommitsKeeps DEF StaffStep
<1> QED
  BY <1>1, <1>2, AddDomainKeeps, DnsChangesKeeps, MissesKeeps, FillsKeeps, ExpiresKeeps
  DEF DomainsNext

\* What the domains keep in every state (domains/router, service.recheck): rows of their
\* types, at most one primary host whatever requests and rechecks race, and no host
\* active, cached or being cached as active whose DNS never proved it.
THEOREM DomainsSafeHolds == DomainsSpec => []DomainsSafe
<1>1. DomainsInv => DomainsSafe
  <2> SUFFICES ASSUME DomainsInv
               PROVE  OwnedHosts
    BY DEF DomainsInv, DomainsSafe
  <2>1. Cardinality(Primaries) <= 1
    <3>1. CASE Primaries = {}
      BY <3>1, FS_EmptySet
    <3>2. CASE Primaries # {}
      <4>1. PICK h \in Primaries : TRUE
        BY <3>2
      <4>2. Primaries = {h}
        BY <4>1 DEF DomainsInv, OnePrimary
      <4> QED
        BY <4>2, FS_Singleton
    <3> QED
      BY <3>1, <3>2
  <2> QED
    BY <2>1 DEF DomainsInv, OwnedHosts, ProvedRows, ProvedCache, ProvedReaders
<1> QED
  BY <1>1, DomainsInitHolds, DomainsStepHolds, PTL DEF DomainsSpec

-----------------------------------------------------------------------------
(* App builds: the inductive invariant *)

BuildStatus == {Queued, "building", "succeeded", "failed", "uploaded"}
BuildRow == [status : BuildStatus, version : Versions, number : Nat \ {0}]
AskRow == [version : Versions, number : Nat \ {0}]
BuildTypes ==
    /\ build \in [Builds -> {Unused} \cup BuildRow]
    /\ ready \in BOOLEAN /\ readied \in 0 .. MaxReady
    /\ asking \in [Managers -> {NotAsking} \cup AskRow]
    /\ claim \in [Runners -> SUBSET Builds] /\ held \in [Runners -> SUBSET Builds]
    /\ release.latest \in Versions \cup {<<>>} /\ release.min \in Versions \cup {<<>>}

\* The numbers of a version are handed out without a gap.
Taken(v) == {build[b].number : b \in {c \in Builds : Requested(c) /\ build[c].version = v}}
NoGaps == \A v \in Versions : \A n \in Taken(v) : 1 .. n \subseteq Taken(v)

\* A number that was read is the next one, and nothing of its version is in flight, or
\* the number has been taken since and the unique index refuses it.
AskSound(a) ==
    /\ 1 .. (a.number - 1) \subseteq Taken(a.version)
    /\ a.number \notin Taken(a.version) =>
         /\ \A n \in Taken(a.version) : n < a.number
         /\ \A b \in Builds : Requested(b) /\ build[b].version = a.version => ~InFlight(b)
Numbering ==
    /\ NoGaps /\ NumbersDiffer
    /\ \A m \in Managers : asking[m] # NotAsking => AskSound(asking[m])

\* A claim has locked queued rows, a runner has been given rows that no longer are.
Hands ==
    /\ OneRunner
    /\ \A r \in Runners : /\ \A b \in claim[r] : build[b].status = Queued
                          /\ \A b \in held[r] : build[b].status \notin {Queued, "unused"}

BuildsInv == BuildTypes /\ Numbering /\ Hands /\ LatestIsFine

LEMMA BuildRows ==
    /\ Unused \notin BuildRow /\ Unused.status = "unused"
    /\ \A x \in BuildRow : /\ x.status \in BuildStatus /\ x.version \in Versions
                           /\ x.number \in Nat /\ x.number > 0
    /\ \A x \in AskRow : x.version \in Versions /\ x.number \in Nat /\ x.number > 0
<1>1. /\ \A x \in BuildRow : /\ x.status \in BuildStatus /\ x.version \in Versions
                             /\ x.number \in Nat /\ x.number > 0
      /\ \A x \in AskRow : x.version \in Versions /\ x.number \in Nat /\ x.number > 0
  BY DEF BuildRow, AskRow
<1>2. Unused.status = "unused"
  BY DEF Unused
<1>3. Unused \notin BuildRow
  BY <1>1, <1>2 DEF BuildStatus, Queued
<1> QED
  BY <1>1, <1>2, <1>3

LEMMA TakenFacts ==
    ASSUME BuildTypes, NEW v
    PROVE  /\ Taken(v) \subseteq Nat \ {0}
           /\ IsFiniteSet(Taken(v)) /\ Cardinality(Taken(v)) <= Cardinality(Builds)
           /\ Cardinality(Builds) \in Nat
<1> DEFINE of == {c \in Builds : Requested(c) /\ build[c].version = v}
           number(b) == build[b].number
<1>1. IsFiniteSet(Builds) /\ of \subseteq Builds
  BY AppBuildsAssumption DEF AppBuildsAssumption
<1>2. IsFiniteSet(of) /\ Cardinality(of) <= Cardinality(Builds)
  BY <1>1, FS_Subset
<1>3. Taken(v) = {number(b) : b \in of}
  BY DEF Taken
<1>4. \A b \in of : number(b) \in Nat \ {0}
  BY BuildRows DEF BuildTypes, Requested
<1> HIDE DEF of, number
<1>5. IsFiniteSet(Taken(v)) /\ Cardinality(Taken(v)) <= Cardinality(of)
  <2> DEFINE f == [b \in of |-> number(b)]
  <2>1. f \in Surjection(of, Taken(v))
    BY <1>3 DEF Surjection
  <2> HIDE DEF f
  <2> QED
    BY <1>2, <2>1, FS_Surjection
<1>6. /\ Cardinality(Taken(v)) \in Nat /\ Cardinality(of) \in Nat
      /\ Cardinality(Builds) \in Nat
  BY <1>1, <1>2, <1>5, FS_CardinalityType
<1> QED
  BY <1>2, <1>3, <1>4, <1>5, <1>6

\* A finite set of numbers that is not empty has a largest one.
LEMMA LargestNumber ==
    ASSUME NEW T, T \subseteq Nat, IsFiniteSet(T), T # {}
    PROVE  \E n \in T : \A k \in T : k <= n
<1> DEFINE above(n) == {k \in T : k > n}
           Rests == {above(n) : n \in T}
<1>1. Rests \subseteq SUBSET T /\ Rests # {}
  OBVIOUS
<1>2. \A n \in T : above(n) \in Rests
  OBVIOUS
<1>3. \A Y \in Rests : \E n \in T : Y = above(n)
  OBVIOUS
<1>0. \A n, k \in T : k \in above(n) <=> k > n
  OBVIOUS
<1> HIDE DEF Rests, above
<1>4. PICK X \in Rests : \A Y \in Rests : Y \subseteq X => Y = X
  <2>1. IsFiniteSet(T)
    OBVIOUS
  <2> QED
    BY ONLY <1>1, <2>1, SmallestSubset
<1>5. PICK n \in T : X = above(n)
  BY <1>3
<1>6. ASSUME NEW k \in T, ~(k <= n)
      PROVE  FALSE
  <2>1. k \in Nat /\ n \in Nat /\ T \subseteq Nat /\ k > n
    BY <1>6
  <2>2. k \in above(n) /\ k \notin above(k) /\ above(k) \subseteq above(n)
    <3>1. above(k) \subseteq T /\ above(n) \subseteq T
      BY DEF above
    <3>2. ASSUME NEW j \in above(k)
          PROVE  j \in above(n)
      <4>1. j \in T /\ j \in Nat
        BY <3>1
      <4>2. j > k
        BY <1>0, <4>1
      <4>3. j > n
        BY <2>1, <4>1, <4>2
      <4> QED
        BY <1>0, <4>1, <4>3
    <3> QED
      BY <1>0, <2>1, <3>2
  <2> QED
    BY <1>2, <1>4, <1>5, <2>2
<1> QED
  BY <1>6

\* The next number is above every one of the version, and follows the last of them.
LEMMA NextNumber ==
    ASSUME BuildTypes, NEW v, \A n \in Taken(v) : 1 .. n \subseteq Taken(v)
    PROVE  /\ NumberOf(v) \in Nat /\ NumberOf(v) > 0
           /\ 1 .. (NumberOf(v) - 1) \subseteq Taken(v)
           /\ \A n \in Taken(v) : n < NumberOf(v)
<1>1. Taken(v) \subseteq Nat /\ IsFiniteSet(Taken(v))
  BY TakenFacts
<1> DEFINE last == CHOOSE n \in Taken(v) : \A k \in Taken(v) : k <= n
<1>2. NumberOf(v) = IF Taken(v) = {} THEN 1 ELSE 1 + last
  BY DEF NumberOf, Taken
<1>3. CASE Taken(v) = {}
  BY <1>2, <1>3
<1>4. CASE Taken(v) # {}
  <2>1. \E n \in Taken(v) : \A k \in Taken(v) : k <= n
    BY <1>1, <1>4, LargestNumber
  <2>2. last \in Taken(v) /\ \A k \in Taken(v) : k <= last
    BY <2>1
  <2> HIDE DEF last
  <2>3. NumberOf(v) = 1 + last /\ last \in Nat /\ 1 .. last \subseteq Taken(v)
    BY <1>1, <1>2, <1>4, <2>2
  <2> QED
    BY <1>1, <2>2, <2>3
<1> QED
  BY <1>3, <1>4

LEMMA BuildsInitHolds == AppBuildsInit => BuildsInv
<1> SUFFICES ASSUME AppBuildsInit
             PROVE  BuildsInv
  OBVIOUS
<1>1. BuildTypes
  <2>1. 0 \in 0 .. MaxReady
    BY AppBuildsAssumption DEF AppBuildsAssumption
  <2>2. release.latest = <<>> /\ release.min = <<>>
    BY DEF AppBuildsInit
  <2> QED
    BY <2>1, <2>2 DEF AppBuildsInit, BuildTypes
<1>2. \A b \in Builds : ~Requested(b)
  BY DEF AppBuildsInit, Requested
<1>3. Numbering
  BY <1>2 DEF AppBuildsInit, Numbering, NoGaps, NumbersDiffer, Taken
<1>4. Hands /\ LatestIsFine
  BY DEF AppBuildsInit, Hands, OneRunner, LatestIsFine
<1> QED
  BY <1>1, <1>3, <1>4 DEF BuildsInv

-----------------------------------------------------------------------------
(* App builds: steps that request no build *)

\* Builds change their status, and none gets in flight again.
LEMMA NumberingKeeps ==
    ASSUME Numbering, BuildTypes,
           \A b \in Builds : /\ Requested(b)' <=> Requested(b)
                             /\ Requested(b) => /\ build'[b].version = build[b].version
                                                /\ build'[b].number = build[b].number
                                                /\ InFlight(b)' => InFlight(b),
           \A m \in Managers : asking'[m] = asking[m] \/ asking'[m] = NotAsking
    PROVE  Numbering'
<1>1. \A v : Taken(v)' = Taken(v)
  BY DEF Taken
<1>2. NoGaps'
  BY <1>1 DEF Numbering, NoGaps
<1>3. NumbersDiffer'
  BY DEF Numbering, NumbersDiffer
<1>4. ASSUME NEW a, AskSound(a)
      PROVE  AskSound(a)'
  <2>1. PICK v : v = a.version
    OBVIOUS
  <2>2. Taken(v)' = Taken(v)
    BY <1>1
  <2> QED
    BY <1>4, <2>1, <2>2 DEF AskSound, Taken
<1>5. \A m \in Managers : asking'[m] # NotAsking => AskSound(asking[m])'
  <2> SUFFICES ASSUME NEW m \in Managers, asking'[m] # NotAsking
               PROVE  AskSound(asking[m])'
    OBVIOUS
  <2>1. PICK a : a = asking[m]
    OBVIOUS
  <2>2. asking'[m] = a /\ AskSound(a)
    BY <2>1 DEF Numbering
  <2>3. AskSound(a)'
    BY <1>4, <2>2
  <2> QED
    BY <2>2, <2>3 DEF AskSound, Taken, Requested, InFlight
<1> QED
  BY <1>2, <1>3, <1>5 DEF Numbering

LEMMA PutProfileKeeps == BuildsInv /\ PutProfile => BuildsInv'
<1> SUFFICES ASSUME BuildsInv, PutProfile
             PROVE  BuildsInv'
  OBVIOUS
<1>1. BuildTypes'
  BY AppBuildsAssumption DEF AppBuildsAssumption, BuildsInv, BuildTypes, PutProfile
<1>2. Numbering'
  BY NumberingKeeps DEF BuildsInv, PutProfile, Requested, InFlight
<1> QED
  BY <1>1, <1>2
  DEF PutProfile, BuildsInv, Hands, OneRunner, LatestIsFine, UpdateState, Older, VersionTuple

\* A release may name any latest version: nobody is below himself.
LEMMA PutReleaseKeeps ==
    ASSUME BuildsInv, NEW v \in Versions, NEW w \in Versions, PutRelease(v, w)
    PROVE  BuildsInv'
<1>1. release' = [latest |-> v, min |-> w] /\ ~Older(v, w)
      /\ UNCHANGED <<build, ready, readied, asking, claim, held>>
  BY DEF PutRelease, Supported
<1>2. release'.latest = v /\ release'.min = w
  BY <1>1
<1>3. BuildTypes'
  BY <1>1, <1>2 DEF BuildsInv, BuildTypes
<1>4. Numbering'
  BY <1>1, NumberingKeeps DEF BuildsInv, Requested, InFlight
<1>5. ~Older(v, v)
  <2>1. \A i \in 1 .. 3 : VersionTuple(v)[i] \in Int
    BY AppBuildsAssumption DEF AppBuildsAssumption, VersionTuple
  <2> QED
    BY <2>1 DEF Older
<1>6. LatestIsFine'
  BY <1>1, <1>2, <1>5 DEF LatestIsFine, UpdateState, Older, VersionTuple
<1> QED
  BY <1>1, <1>3, <1>4, <1>6 DEF BuildsInv, Hands, OneRunner

LEMMA RequestBuildKeeps ==
    ASSUME BuildsInv, NEW m \in Managers, NEW v \in Versions, RequestBuild(m, v)
    PROVE  BuildsInv'
<1>1. PICK a : a = [version |-> v, number |-> NumberOf(v)]
  OBVIOUS
<1>2. /\ \A b \in Builds : ~InFlight(b)
      /\ asking' = [asking EXCEPT ![m] = a]
      /\ UNCHANGED <<build, ready, readied, claim, held, release>>
  BY <1>1 DEF RequestBuild
<1>3. BuildTypes /\ Numbering /\ asking \in [Managers -> {NotAsking} \cup AskRow]
  BY DEF BuildsInv, BuildTypes
<1>4. /\ NumberOf(v) \in Nat /\ NumberOf(v) > 0
      /\ 1 .. (NumberOf(v) - 1) \subseteq Taken(v)
      /\ \A n \in Taken(v) : n < NumberOf(v)
  BY <1>3, NextNumber DEF Numbering, NoGaps
<1>5. a \in AskRow /\ AskSound(a)
  BY <1>1, <1>2, <1>4 DEF AskRow, AskSound
<1>6. asking' \in [Managers -> {NotAsking} \cup AskRow]
      /\ \A k \in Managers : asking'[k] = (IF k = m THEN a ELSE asking[k])
  BY <1>2, <1>3, <1>5
<1>7. BuildTypes'
  BY <1>2, <1>3, <1>6 DEF BuildTypes
<1>8. \A x : AskSound(x)' <=> AskSound(x)
  BY <1>2 DEF AskSound, Taken, Requested, InFlight
<1>9. \A k \in Managers : asking'[k] # NotAsking => AskSound(asking[k])'
  <2> SUFFICES ASSUME NEW k \in Managers, asking'[k] # NotAsking
               PROVE  AskSound(asking[k])'
    OBVIOUS
  <2>1. PICK x : x = asking'[k]
    OBVIOUS
  <2>2. AskSound(x)
    BY <1>3, <1>5, <1>6, <2>1 DEF Numbering
  <2>3. AskSound(x)'
    BY <1>8, <2>2
  <2> QED
    BY <2>1, <2>3 DEF AskSound, Taken, Requested, InFlight
<1>10. Numbering'
  BY <1>2, <1>3, <1>9 DEF Numbering, NoGaps, NumbersDiffer, Taken, Requested, InFlight
<1> QED
  BY <1>2, <1>7, <1>10
  DEF BuildsInv, Hands, OneRunner, LatestIsFine, UpdateState, Older, VersionTuple

LEMMA RequestRefusedKeeps ==
    ASSUME BuildsInv, NEW m \in Managers, RequestRefused(m)
    PROVE  BuildsInv'
<1>1. asking' = [asking EXCEPT ![m] = NotAsking]
      /\ UNCHANGED <<build, ready, readied, claim, held, release>>
  BY DEF RequestRefused
<1>2. \A k \in Managers : asking'[k] = asking[k] \/ asking'[k] = NotAsking
  BY <1>1 DEF BuildsInv, BuildTypes
<1>3. Numbering'
  BY <1>1, <1>2, NumberingKeeps DEF BuildsInv, Requested, InFlight
<1>4. BuildTypes'
  BY <1>1 DEF BuildsInv, BuildTypes
<1> QED
  BY <1>1, <1>3, <1>4
  DEF BuildsInv, Hands, OneRunner, LatestIsFine, UpdateState, Older, VersionTuple

\* The unique index lets one request of a version in for each number.
LEMMA RequestCommitsKeeps ==
    ASSUME BuildsInv, NEW m \in Managers, NEW b \in Builds, RequestCommits(m, b)
    PROVE  BuildsInv'
<1>1. PICK a, v, n : a = asking[m] /\ v = a.version /\ n = a.number
  OBVIOUS
<1>2. PICK row : row = [status |-> Queued, version |-> v, number |-> n]
  OBVIOUS
<1>3. /\ a # NotAsking /\ ~Requested(b) /\ NumberFree(v, n)
      /\ build' = [build EXCEPT ![b] = row]
      /\ asking' = [asking EXCEPT ![m] = NotAsking]
      /\ UNCHANGED <<ready, readied, claim, held, release>>
  BY <1>1, <1>2 DEF RequestCommits
<1>4. BuildTypes /\ Numbering /\ Hands
  BY DEF BuildsInv
<1>5. a \in AskRow /\ v \in Versions /\ n \in Nat /\ n > 0 /\ AskSound(a)
  BY <1>1, <1>3, <1>4, BuildRows DEF BuildTypes, Numbering
<1>6. row \in BuildRow /\ row.status = Queued /\ row.version = v /\ row.number = n
  BY <1>2, <1>5 DEF BuildRow, BuildStatus
<1>7. /\ build' \in [Builds -> {Unused} \cup BuildRow]
      /\ build'[b] = row /\ \A c \in Builds : c # b => build'[c] = build[c]
      /\ asking' \in [Managers -> {NotAsking} \cup AskRow]
      /\ \A k \in Managers : asking'[k] = (IF k = m THEN NotAsking ELSE asking[k])
  BY <1>3, <1>4, <1>6 DEF BuildTypes
<1>8. BuildTypes'
  BY <1>3, <1>4, <1>7 DEF BuildTypes
<1>9. /\ Requested(b)' /\ InFlight(b)'
      /\ \A c \in Builds : c # b => /\ Requested(c)' <=> Requested(c)
                                   /\ InFlight(c)' <=> InFlight(c)
  BY <1>6, <1>7, BuildRows DEF Requested, InFlight
\* The number was free, so it is the next one and no build of the version is in flight.
<1>10. n \notin Taken(v)
  BY <1>3 DEF NumberFree, Taken
<1>11. /\ 1 .. (n - 1) \subseteq Taken(v) /\ (\A k \in Taken(v) : k < n)
       /\ \A c \in Builds : Requested(c) /\ build[c].version = v => ~InFlight(c)
  BY <1>1, <1>5, <1>10 DEF AskSound
<1>12. \A u : Taken(u)' = IF u = v THEN Taken(v) \cup {n} ELSE Taken(u)
  <2> SUFFICES ASSUME NEW u
               PROVE  Taken(u)' = IF u = v THEN Taken(v) \cup {n} ELSE Taken(u)
    OBVIOUS
  <2> DEFINE of(w) == {c \in Builds : Requested(c) /\ build[c].version = w}
             ofNext(w) == {c \in Builds : Requested(c)' /\ build'[c].version = w}
  <2>1. ofNext(u) = IF u = v THEN of(u) \cup {b} ELSE of(u)
    <3>1. \A c \in Builds : c # b =>
            (c \in ofNext(u) <=> c \in of(u))
      BY <1>7 DEF Requested
    <3>2. b \notin of(u) /\ (b \in ofNext(u) <=> u = v)
      BY <1>3, <1>6, <1>7, BuildRows DEF Requested
    <3>3. of(u) \subseteq Builds /\ ofNext(u) \subseteq Builds /\ b \in Builds
      OBVIOUS
    <3> HIDE DEF of, ofNext
    <3> QED
      BY <3>1, <3>2, <3>3
  <2>2. Taken(u) = {build[c].number : c \in of(u)}
        /\ Taken(u)' = {build'[c].number : c \in ofNext(u)}
    BY DEF Taken
  <2>3. \A c \in of(u) : c # b /\ build'[c].number = build[c].number
    BY <1>3, <1>7
  <2> HIDE DEF of, ofNext
  <2> QED
    BY <1>6, <1>7, <2>1, <2>2, <2>3
<1>13. NoGaps'
  <2> SUFFICES ASSUME NEW u \in Versions, NEW k \in Taken(u)'
               PROVE  1 .. k \subseteq Taken(u)'
    BY DEF NoGaps
  <2>1. CASE u # v
    BY <1>4, <1>12, <2>1 DEF Numbering, NoGaps
  <2>2. CASE u = v /\ k = n
    BY <1>5, <1>11, <1>12, <2>2
  <2>3. CASE u = v /\ k \in Taken(v)
    BY <1>4, <1>5, <1>12, <2>3 DEF Numbering, NoGaps
  <2> QED
    BY <1>12, <2>1, <2>2, <2>3
<1>14. NumbersDiffer'
  <2> SUFFICES ASSUME NEW c \in Builds, NEW d \in Builds, c # d, Requested(c)', Requested(d)',
                      build'[c].version = build'[d].version
               PROVE  /\ build'[c].number # build'[d].number
                      /\ ~(InFlight(c)' /\ InFlight(d)')
    BY DEF NumbersDiffer
  <2>1. CASE c # b /\ d # b
    <3>1. build'[c] = build[c] /\ build'[d] = build[d]
      BY <1>7, <2>1
    <3> QED
      BY <1>4, <3>1 DEF Numbering, NumbersDiffer, Requested, InFlight
  <2>2. ASSUME NEW e \in Builds, e # b, Requested(e)', build'[e].version = v
        PROVE  build'[e].number # n /\ ~InFlight(e)'
    <3>1. Requested(e) /\ build[e].version = v /\ build'[e] = build[e]
      BY <1>7, <2>2 DEF Requested
    <3>2. build[e].number \in Taken(v)
      BY <3>1 DEF Taken
    <3> QED
      BY <1>10, <1>11, <2>2, <3>1, <3>2 DEF InFlight
  <2> QED
    BY <1>6, <1>7, <2>1, <2>2
\* Who asked for the same number of the version is refused from now on.
<1>15. ASSUME NEW x \in AskRow, AskSound(x)
       PROVE  AskSound(x)'
  <2>1. PICK u, k : u = x.version /\ k = x.number
    OBVIOUS
  <2>2. /\ k \in Nat /\ k > 0 /\ 1 .. (k - 1) \subseteq Taken(u)
        /\ k \notin Taken(u) => (\A j \in Taken(u) : j < k)
             /\ \A c \in Builds : Requested(c) /\ build[c].version = u => ~InFlight(c)
    BY <1>15, <2>1, BuildRows DEF AskSound
  <2>3. /\ 1 .. (k - 1) \subseteq Taken(u)'
        /\ k \notin Taken(u)' => (\A j \in Taken(u)' : j < k)
             /\ \A c \in Builds : Requested(c)' /\ build'[c].version = u => ~InFlight(c)'
    <3>1. CASE u # v
      <4>1. Taken(u)' = Taken(u)
        BY <1>12, <3>1
      <4>2. \A c \in Builds : Requested(c)' /\ build'[c].version = u =>
              c # b /\ Requested(c) /\ build[c].version = u /\ (InFlight(c)' <=> InFlight(c))
        BY <1>6, <1>7, <3>1 DEF Requested, InFlight
      <4> QED
        BY <2>2, <4>1, <4>2
    <3>2. CASE u = v
      <4>1. Taken(u)' = Taken(v) \cup {n}
        BY <1>12, <3>2
      <4>2. k \in Taken(u)'
        <5>1. CASE k \in Taken(v)
          BY <4>1, <5>1
        <5>2. CASE k \notin Taken(v)
          <6>1. ~(n < k)
            BY <1>5, <1>10, <2>2, <3>2
          <6>2. ~(k < n)
            BY <1>5, <1>11, <2>2, <5>2
          <6> QED
            BY <1>5, <2>2, <4>1, <6>1, <6>2
        <5> QED
          BY <5>1, <5>2
      <4> QED
        BY <2>2, <3>2, <4>1, <4>2
    <3> QED
      BY <3>1, <3>2
  <2> QED
    BY <2>1, <2>3 DEF AskSound, Taken, Requested, InFlight
<1>16. \A k \in Managers : asking'[k] # NotAsking => AskSound(asking[k])'
  <2> SUFFICES ASSUME NEW k \in Managers, asking'[k] # NotAsking
               PROVE  AskSound(asking[k])'
    OBVIOUS
  <2>1. PICK x : x = asking'[k]
    OBVIOUS
  <2>2. x = asking[k] /\ x \in AskRow /\ AskSound(x)
    BY <1>4, <1>7, <2>1 DEF Numbering, BuildTypes
  <2>3. AskSound(x)'
    BY <1>15, <2>2
  <2> QED
    BY <2>1, <2>3 DEF AskSound, Taken, Requested, InFlight
<1>17. Hands'
  <2>1. \A r \in Runners : b \notin claim[r] /\ b \notin held[r]
    BY <1>3, <1>4, BuildRows DEF Hands, Requested, Queued
  <2> QED
    BY <1>3, <1>4, <1>7, <2>1 DEF Hands, OneRunner, BuildTypes
<1>18. LatestIsFine'
  BY <1>3 DEF BuildsInv, LatestIsFine, UpdateState, Older, VersionTuple
<1> QED
  BY <1>8, <1>13, <1>14, <1>16, <1>17, <1>18 DEF BuildsInv, Numbering

-----------------------------------------------------------------------------
(* App builds: runners *)

LEMMA ClaimsKeeps ==
    ASSUME BuildsInv, NEW r \in Runners, NEW b \in Builds, Claims(r, b)
    PROVE  BuildsInv'
<1>1. /\ claim[r] = {} /\ held[r] = {} /\ build[b].status = Queued
      /\ \A s \in Runners : b \notin claim[s]
      /\ claim' = [claim EXCEPT ![r] = {b}]
      /\ UNCHANGED <<build, ready, readied, asking, held, release>>
  BY DEF Claims, Unlocked
<1>2. /\ claim' \in [Runners -> SUBSET Builds] /\ claim'[r] = {b}
      /\ \A s \in Runners : s # r => claim'[s] = claim[s]
  BY <1>1 DEF BuildsInv, BuildTypes
<1>3. \A s \in Runners : b \notin held[s]
  BY <1>1 DEF BuildsInv, Hands
<1>4. Hands'
  BY <1>1, <1>2, <1>3 DEF BuildsInv, Hands, OneRunner
<1>5. BuildTypes'
  BY <1>1, <1>2 DEF BuildsInv, BuildTypes
<1>6. Numbering'
  BY <1>1, NumberingKeeps DEF BuildsInv, Requested, InFlight
<1> QED
  BY <1>1, <1>4, <1>5, <1>6
  DEF BuildsInv, LatestIsFine, UpdateState, Older, VersionTuple

LEMMA ClaimCommitsKeeps ==
    ASSUME BuildsInv, NEW r \in Runners, ClaimCommits(r)
    PROVE  BuildsInv'
<1>1. /\ build' = [b \in Builds |-> IF b \in claim[r]
                      THEN [build[b] EXCEPT !.status = "building"] ELSE build[b]]
      /\ held' \in {[held EXCEPT ![r] = claim[r]], held}
      /\ claim' = [claim EXCEPT ![r] = {}]
      /\ UNCHANGED <<ready, readied, asking, release>>
  BY DEF ClaimCommits
<1>2. BuildTypes /\ Numbering /\ Hands
  BY DEF BuildsInv
<1>3. \A b \in Builds : b \in claim[r] =>
        /\ build[b] \in BuildRow /\ build[b].status = Queued
        /\ build'[b] \in BuildRow /\ build'[b].status = "building"
        /\ build'[b].version = build[b].version /\ build'[b].number = build[b].number
  <2> SUFFICES ASSUME NEW b \in Builds, b \in claim[r]
               PROVE  /\ build[b] \in BuildRow /\ build[b].status = Queued
                      /\ build'[b] \in BuildRow /\ build'[b].status = "building"
                      /\ build'[b].version = build[b].version
                      /\ build'[b].number = build[b].number
    OBVIOUS
  <2>1. build[b].status = Queued /\ build[b] \in BuildRow
    BY <1>2, BuildRows DEF Hands, BuildTypes, Queued
  <2>2. build'[b] = [build[b] EXCEPT !.status = "building"]
    BY <1>1
  <2> QED
    BY <2>1, <2>2 DEF BuildRow, BuildStatus
<1>4. \A b \in Builds : b \notin claim[r] => build'[b] = build[b]
  BY <1>1
<1>5. build' \in [Builds -> {Unused} \cup BuildRow]
  <2>1. build' = [b \in Builds |-> build'[b]]
    BY <1>1
  <2>2. \A b \in Builds : build'[b] \in {Unused} \cup BuildRow
    BY <1>2, <1>3, <1>4 DEF BuildTypes
  <2> QED
    BY <2>1, <2>2
<1>6. /\ claim' \in [Runners -> SUBSET Builds] /\ held' \in [Runners -> SUBSET Builds]
      /\ claim'[r] = {} /\ held'[r] \in {claim[r], held[r]}
      /\ \A s \in Runners : s # r => claim'[s] = claim[s] /\ held'[s] = held[s]
  BY <1>1, <1>2 DEF BuildTypes
<1>7. BuildTypes'
  BY <1>1, <1>2, <1>5, <1>6 DEF BuildTypes
<1>8. Numbering'
  BY <1>1, <1>2, <1>3, <1>4, BuildRows, NumberingKeeps DEF Requested, InFlight
<1>9. claim \in [Runners -> SUBSET Builds] /\ held \in [Runners -> SUBSET Builds]
  BY <1>2 DEF BuildTypes
<1>10. \A s \in Runners : s # r => \A b \in claim[s] \cup held[s] : build'[b] = build[b]
  BY <1>2, <1>4, <1>9 DEF Hands, OneRunner
<1>11. \A b \in held'[r] : build'[b].status \notin {Queued, "unused"}
  <2> SUFFICES ASSUME NEW b \in held'[r]
               PROVE  build'[b].status \notin {Queued, "unused"}
    OBVIOUS
  <2>1. b \in Builds
    BY <1>6
  <2>2. CASE b \in claim[r]
    BY <1>3, <2>1, <2>2 DEF Queued
  <2>3. CASE b \notin claim[r]
    BY <1>2, <1>4, <1>6, <2>1, <2>3 DEF Hands
  <2> QED
    BY <2>2, <2>3
<1>12. OneRunner'
  <2>1. \A s \in Runners : held'[s] \cup claim'[s] \subseteq held[s] \cup claim[s]
    BY <1>6
  <2>2. \A s \in Runners : \A b \in held'[s] : build'[b].status # Queued
    BY <1>2, <1>6, <1>10, <1>11 DEF Hands
  <2> QED
    BY <1>2, <2>1, <2>2 DEF Hands, OneRunner
<1>13. Hands'
  BY <1>2, <1>6, <1>10, <1>11, <1>12 DEF Hands
<1> QED
  BY <1>1, <1>7, <1>8, <1>13
  DEF BuildsInv, LatestIsFine, UpdateState, Older, VersionTuple

\* A runner lets go of a build, and may have said how it went.
LEMMA RunKeeps ==
    ASSUME BuildsInv, NEW r \in Runners, NEW b \in Builds,
           \/ UploadReports(r, b) \/ RunEnds(r, b)
           \/ \E to \in {"succeeded", "failed"} : BuildReports(r, b, to)
    PROVE  BuildsInv'
<1>1. BuildTypes /\ Numbering /\ Hands
  BY DEF BuildsInv
<1>2. b \in held[r] /\ UNCHANGED <<ready, readied, asking, claim, release>>
  BY DEF UploadReports, RunEnds, BuildReports
<1>3. /\ held' \in [Runners -> SUBSET Builds]
      /\ \A s \in Runners : held'[s] \subseteq held[s]
  BY <1>1 DEF UploadReports, RunEnds, BuildReports, BuildTypes
<1>4. build[b] \in BuildRow
  BY <1>1, <1>2, BuildRows DEF Hands, BuildTypes
<1>5. \/ UNCHANGED build
      \/ \E to \in {"succeeded", "failed", "uploaded"} :
             build' = [build EXCEPT ![b] = [build[b] EXCEPT !.status = to]]
  BY DEF UploadReports, RunEnds, BuildReports, Report
<1>6. \/ build'[b] = build[b]
      \/ /\ build'[b] \in BuildRow
         /\ build'[b].version = build[b].version /\ build'[b].number = build[b].number
         /\ build'[b].status \in {"succeeded", "failed", "uploaded"}
  <2>1. ASSUME NEW to \in {"succeeded", "failed", "uploaded"},
               build' = [build EXCEPT ![b] = [build[b] EXCEPT !.status = to]]
        PROVE  /\ build'[b] \in BuildRow /\ build'[b].status = to
               /\ build'[b].version = build[b].version /\ build'[b].number = build[b].number
    <3>1. build'[b] = [build[b] EXCEPT !.status = to]
      BY <1>1, <2>1 DEF BuildTypes
    <3> QED
      BY <1>4, <3>1 DEF BuildRow, BuildStatus
  <2> QED
    BY <1>5, <2>1
<1>7. /\ \A c \in Builds : c # b => build'[c] = build[c]
      /\ build' \in [Builds -> {Unused} \cup BuildRow]
  <2>1. UNCHANGED build \/ \E row : build' = [build EXCEPT ![b] = row]
    BY <1>5
  <2> QED
    BY <1>1, <1>4, <1>6, <2>1 DEF BuildTypes
<1>8. BuildTypes'
  BY <1>1, <1>2, <1>3, <1>7 DEF BuildTypes
<1>9. Numbering'
  BY <1>1, <1>2, <1>4, <1>6, <1>7, BuildRows, NumberingKeeps DEF Requested, InFlight, Queued
<1>10. \A s \in Runners : b \notin claim[s]
  BY <1>1, <1>2 DEF Hands
<1>11. claim \in [Runners -> SUBSET Builds] /\ held \in [Runners -> SUBSET Builds]
  BY <1>1 DEF BuildTypes
<1>12. \A s \in Runners : /\ \A c \in claim'[s] : build'[c].status = Queued
                          /\ \A c \in held'[s] : build'[c].status \notin {Queued, "unused"}
  BY <1>1, <1>2, <1>3, <1>6, <1>7, <1>10, <1>11 DEF Hands, Queued
<1>13. Hands'
  BY <1>1, <1>2, <1>3, <1>12 DEF Hands, OneRunner
<1> QED
  BY <1>2, <1>8, <1>9, <1>13
  DEF BuildsInv, LatestIsFine, UpdateState, Older, VersionTuple

-----------------------------------------------------------------------------
LEMMA BuildsStepHolds == BuildsInv /\ [AppBuildsNext]_buildVars => BuildsInv'
<1> SUFFICES ASSUME BuildsInv, [AppBuildsNext]_buildVars
             PROVE  BuildsInv'
  OBVIOUS
<1>1. CASE UNCHANGED buildVars
  BY <1>1
  DEF buildVars, BuildsInv, BuildTypes, Numbering, NoGaps, NumbersDiffer, AskSound, Taken,
      Requested, InFlight, Hands, OneRunner, LatestIsFine, UpdateState, Older, VersionTuple
<1> QED
  BY <1>1, PutProfileKeeps, RequestRefusedKeeps, RequestBuildKeeps, RequestCommitsKeeps,
     ClaimsKeeps, ClaimCommitsKeeps, RunKeeps, PutReleaseKeeps DEF AppBuildsNext

\* Numbers without gaps are no more than there are builds.
LEMMA NumbersBounded ==
    ASSUME BuildTypes, NoGaps, NEW b \in Builds, Requested(b)
    PROVE  build[b].number \in 1 .. Cardinality(Builds)
<1>1. PICK n, v : n = build[b].number /\ v = build[b].version
  OBVIOUS
<1>2. n \in Nat /\ n > 0 /\ v \in Versions
  BY <1>1, BuildRows DEF BuildTypes, Requested
<1>3. n \in Taken(v)
  BY <1>1 DEF Taken
<1>4. 1 .. n \subseteq Taken(v)
  BY <1>2, <1>3 DEF NoGaps
<1>5. Cardinality(1 .. n) = n
  BY <1>2, FS_Interval
<1>6. Cardinality(1 .. n) <= Cardinality(Taken(v)) /\ Cardinality(Taken(v)) \in Nat
  BY <1>4, TakenFacts, FS_Subset, FS_CardinalityType
<1>7. n <= Cardinality(Builds)
  BY <1>2, <1>5, <1>6, TakenFacts
<1> QED
  BY <1>1, <1>2, <1>7, TakenFacts

\* What the build queue keeps in every state (mobile/builds.py): rows of their types, a
\* build in the hands of one runner although claims skip what is locked and answers get
\* lost, numbers that differ and one build of a version in flight although two requests
\* may have read the same, and a latest version that is never told to update.
THEOREM BuildsSafeHolds == AppBuildsSpec => []BuildsSafe
<1>1. BuildsInv => BuildsSafe
  <2> SUFFICES ASSUME BuildsInv
               PROVE  AppBuildsTypeOK
    BY DEF BuildsInv, BuildsSafe, Numbering, Hands
  <2>1. \A b \in Builds : Requested(b) =>
          build[b].status \in BuildStatus /\ build[b].version \in Versions
    BY BuildRows DEF BuildsInv, BuildTypes, Requested
  <2>2. \A b \in Builds : Requested(b) => build[b].number \in 1 .. Cardinality(Builds)
    BY NumbersBounded DEF BuildsInv, Numbering
  <2> QED
    BY <2>1, <2>2 DEF BuildsInv, BuildTypes, AppBuildsTypeOK, BuildStatus
<1> QED
  BY <1>1, BuildsInitHolds, BuildsStepHolds, PTL DEF AppBuildsSpec
=============================================================================
