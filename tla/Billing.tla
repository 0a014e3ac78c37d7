------------------------------- MODULE Billing -------------------------------
(* What the platform charges one tenant, and the status the tenant has for it:  *)
(* subscription, usage, invoices, dunning and the nightly cycle.  A request of  *)
(* an operator or a cycle is a transaction of a worker that reads in one step   *)
(* and writes and commits in a later one.                                       *)
EXTENDS Integers, FiniteSets

CONSTANTS
    Workers,     \* operators' requests and cycles open at the same time
    MaxDay,      \* the last day of the calendar
    UsageDays,   \* the days orders may be recorded for
    TrialDays, Month, Year,               \* lengths of the periods, in days
    DueDays, PastDueAfter, SuspendAfter,  \* DUE_DAYS, PAST_DUE_AFTER, SUSPEND_AFTER
    MaxPatches   \* changes the platform's operators make by hand

ASSUME BillingAssumption ==
    /\ {MaxDay, TrialDays, DueDays, PastDueAfter, SuspendAfter, MaxPatches} \subseteq Nat
    /\ {Month, Year} \subseteq Nat \ {0}
    /\ UsageDays \subseteq 0 .. MaxDay

VARIABLES
    today,
    tenant,    \* tenants.status, "none" before the tenant is created
    plan,       \* tenant_subscriptions
    invoice,   \* platform_invoices by period_start
    usage,     \* the days usage_records has GMV of
    txn,       \* the open transaction of a worker
    patches

accounts == <<tenant, plan, invoice>>
billingVars == <<today, accounts, usage, txn, patches>>

Days == 0 .. MaxDay
TenantStatus == {"trial", "active", "past_due", "suspended", "cancelled"}
SubStatus == {"trial", "active", "past_due", "suspended"}
Intervals == {"monthly", "yearly"}
LineKinds == {"subscription", "setup_fee", "gmv_fee"}
NoInvoice == [status |-> "none", due |-> 0, end |-> 0, lines |-> {}, gmv |-> {}]
Idle == [op |-> "idle"]

-----------------------------------------------------------------------------
Invoiced(inv) == {i \in Days : inv[i].status # "none"}
OpenIn(inv) == {i \in Days : inv[i].status = "open"}

\* dunning_state() of the oldest open invoice, and the status it maps to.
Dunning(inv, day) ==
    LET overdue(n) == \E i \in OpenIn(inv) : day > inv[i].due /\ day - inv[i].due >= n
    IN  IF overdue(SuspendAfter) THEN "suspended"
        ELSE IF overdue(PastDueAfter) THEN "past_due" ELSE "active"

\* Mutant: the tenant's own status is not compared.
Reconciles_subOnly(t, s, target) == t # "cancelled" /\ s # "trial" /\ target # s

\* Whether reconcile_status() writes, given the statuses it read.
Reconciles(t, s, target) ==
    /\ t # "cancelled" /\ s # "trial"
    /\ target # s \/ target # t

\* Mutant: the last day counts for both periods.
Metered_inclusive(s) == {d \in usage : s.start <= d /\ d <= s.end}

\* The usage of the period that ends, and the lines its invoice has.
Metered(s) == {d \in usage : s.start <= d /\ d < s.end}
Lines(s) ==
    (IF s.status = "trial" THEN {}
     ELSE {"subscription"} \cup (IF s.setup THEN {} ELSE {"setup_fee"}))
    \cup (IF Metered(s) = {} THEN {} ELSE {"gmv_fee"})

\* The period has ended and has no invoice yet.
PeriodDue(s, day) == s.end <= day /\ invoice[s.start].status = "none"

Period(interval) == IF interval = "yearly" THEN Year ELSE Month

RolledOver(s) ==
    [s EXCEPT !.start = s.end,
              !.end = s.end + Period(s.interval),
              !.status = IF @ = "trial" THEN "active" ELSE @,
              !.setup = @ \/ "setup_fee" \in Lines(s)]

InvoiceOf(s, day) ==
    [status |-> "open", due |-> day + DueDays, end |-> s.end,
     lines |-> Lines(s), gmv |-> Metered(s)]

-----------------------------------------------------------------------------
BillingInit ==
    /\ today = 0
    /\ tenant = "none"
    /\ plan = [status |-> "trial", interval |-> "monthly", start |-> 0, end |-> 0, setup |-> FALSE]
    /\ invoice = [d \in Days |-> NoInvoice]
    /\ usage = {}
    /\ txn = [w \in Workers |-> Idle]
    /\ patches = 0

\* create_tenant() with start_subscription(): the trial is the first period.
CreateTenant ==
    /\ tenant = "none"
    /\ tenant' = "trial"
    /\ plan' = [plan EXCEPT !.start = today,
                          !.end = today + (IF TrialDays > 0 THEN TrialDays ELSE Month)]
    /\ UNCHANGED <<today, invoice, usage, txn, patches>>

\* Day 0 is the day the tenant is created.
NewDay ==
    /\ tenant # "none" /\ today < MaxDay
    /\ today' = today + 1
    /\ UNCHANGED <<accounts, usage, txn, patches>>

\* record_usage(): idempotent on its source; the order may be of an earlier day.
RecordUsage(d) ==
    /\ tenant # "none" /\ d <= today
    /\ usage' = usage \cup {d}
    /\ UNCHANGED <<today, accounts, txn, patches>>

-----------------------------------------------------------------------------
\* A cycle holds the subscription's row (FOR UPDATE) until it commits.
SubLocked == \E v \in Workers : txn[v].op = "cycle"

\* The days a cycle may be told: today for the nightly job, any day for a cycle an
\* operator starts by hand.
CycleDays == {today} \cup (IF patches < MaxPatches THEN Days ELSE {})

\* run_billing_cycle() reaches this tenant, which it has just listed:
\* generate_invoice() under the subscription's lock, then the read of
\* reconcile_status(), which sees what this transaction has written.
CycleVisits(w, day) ==
    LET closes == PeriodDue(plan, day)
        bills == closes /\ Lines(plan) # {}
        row == InvoiceOf(plan, day)
        s == IF closes THEN RolledOver(plan) ELSE plan
        inv == IF bills THEN [invoice EXCEPT ![plan.start] = row] ELSE invoice
        converts == closes /\ plan.status = "trial" /\ tenant = "trial"
        t == IF converts THEN "active" ELSE tenant
        target == Dunning(inv, day)
    IN  /\ txn[w] = Idle
        /\ tenant \notin {"none", "cancelled"}
        /\ ~SubLocked
        /\ txn' = [txn EXCEPT ![w] =
               [op |-> "cycle", day |-> day, plan |-> s, bills |-> bills, at |-> plan.start,
                row |-> row, converts |-> converts, target |-> target,
                writes |-> Reconciles(t, s.status, target)]]
        /\ patches' = IF day = today THEN patches ELSE patches + 1
        /\ UNCHANGED <<today, accounts, usage>>

\* Its UPDATEs are by tenant id only: they overwrite whatever is there by now.
CycleCommits(w) ==
    LET x == txn[w] IN
    /\ x.op = "cycle"
    /\ plan' = IF x.writes THEN [x.plan EXCEPT !.status = x.target] ELSE x.plan
    /\ invoice' = IF x.bills THEN [invoice EXCEPT ![x.at] = x.row] ELSE invoice
    /\ tenant' = IF x.writes THEN x.target ELSE IF x.converts THEN "active" ELSE tenant
    /\ txn' = [txn EXCEPT ![w] = Idle]
    /\ UNCHANGED <<today, usage, patches>>

\* mark_paid() with the invoice locked: it pays, and reconciles in the same
\* transaction; one that is paid already changes nothing.
PayReads(w, i) ==
    /\ txn[w] = Idle
    /\ i \in OpenIn(invoice)
    /\ \A v \in Workers : txn[v].op = "pay" => txn[v].at # i
    /\ LET target == Dunning([invoice EXCEPT ![i] = [@ EXCEPT !.status = "paid"]], today) IN
       txn' = [txn EXCEPT ![w] =
           [op |-> "pay", at |-> i, target |-> target,
            writes |-> Reconciles(tenant, plan.status, target)]]
    /\ UNCHANGED <<today, accounts, usage, patches>>

PayCommits(w) ==
    LET x == txn[w] IN
    /\ x.op = "pay"
    /\ x.writes => ~SubLocked
    /\ invoice' = [invoice EXCEPT ![x.at] = [@ EXCEPT !.status = "paid"]]
    /\ plan' = IF x.writes THEN [plan EXCEPT !.status = x.target] ELSE plan
    /\ tenant' = IF x.writes THEN x.target ELSE tenant
    /\ txn' = [txn EXCEPT ![w] = Idle]
    /\ UNCHANGED <<today, usage, patches>>

\* patch_tenant(): the status as the operator names it.
PatchTenant(to) ==
    /\ tenant # "none" /\ patches < MaxPatches
    /\ patches' = patches + 1
    /\ tenant' = to
    /\ UNCHANGED <<today, plan, invoice, usage, txn>>

\* patch_subscription(): one UPDATE, which waits for a cycle's lock.
PatchPlan ==
    /\ tenant # "none" /\ patches < MaxPatches /\ ~SubLocked
    /\ patches' = patches + 1
    /\ \E i \in Intervals \ {plan.interval} : plan' = [plan EXCEPT !.interval = i]
    /\ UNCHANGED <<today, tenant, invoice, usage, txn>>

\* A transaction is lost: its process dies, or another tenant of its cycle fails.
Rollback(w) ==
    /\ txn[w] # Idle
    /\ txn' = [txn EXCEPT ![w] = Idle]
    /\ UNCHANGED <<today, accounts, usage, patches>>

-----------------------------------------------------------------------------
WorkerStep(w) ==
    \/ \E d \in CycleDays : CycleVisits(w, d)
    \/ CycleCommits(w) \/ PayCommits(w) \/ Rollback(w)
    \/ \E i \in Days : PayReads(w, i)

BillingNext ==
    \/ CreateTenant \/ NewDay \/ PatchPlan
    \/ \E d \in UsageDays : RecordUsage(d)
    \/ \E to \in TenantStatus : PatchTenant(to)
    \/ \E w \in Workers : WorkerStep(w)

\* The nightly job runs again and again, its tenants are not failed for ever, and
\* an open transaction ends.
BillingFairness ==
    /\ SF_billingVars(\E w \in Workers : CycleVisits(w, today))
    /\ SF_billingVars(\E w \in Workers : CycleCommits(w))
    /\ \A w \in Workers : WF_billingVars(PayCommits(w) \/ Rollback(w))

BillingSpec == BillingInit /\ [][BillingNext]_billingVars
FairBillingSpec == BillingSpec /\ BillingFairness

-----------------------------------------------------------------------------
Invoice == [status : {"open", "paid"}, due : Nat, end : Nat,
            lines : SUBSET LineKinds, gmv : SUBSET Days]
Subscription == [status : SubStatus, interval : Intervals, start : Nat, end : Nat,
                 setup : BOOLEAN]

\* The types of the tables and of the open transactions.
BillingTypeOK ==
    /\ today \in Days /\ patches \in 0 .. MaxPatches
    /\ tenant \in TenantStatus \cup {"none"}
    /\ plan \in Subscription
    /\ invoice \in [Days -> Invoice \cup {NoInvoice}]
    /\ usage \subseteq Days
    /\ txn \in [Workers ->
         {Idle} \cup [op : {"cycle"}, day : Days, plan : Subscription,
               bills : BOOLEAN, at : Nat, row : Invoice, converts : BOOLEAN,
               target : SubStatus, writes : BOOLEAN]
         \cup [op : {"pay"}, at : Days, target : SubStatus, writes : BOOLEAN]]

\* Nothing is charged twice, whatever cycles run at the same time and whatever day
\* they are told: no two invoices share a day of GMV or a day of their periods, and
\* at most one of them has the setup fee.
BilledOnce ==
    \A i, j \in Invoiced(invoice) : i < j =>
        /\ invoice[i].end <= j
        /\ invoice[i].gmv \cap invoice[j].gmv = {}
        /\ ~("setup_fee" \in invoice[i].lines /\ "setup_fee" \in invoice[j].lines)

Overstayed == \E i \in Invoiced(invoice) : invoice[i].due + SuspendAfter <= today
ByHand == patches' # patches \/ \E w \in Workers : txn[w].op = "cycle" /\ txn[w].day > today

\* The tenant is suspended only by an operator, or because one of its invoices has
\* been overdue for SUSPEND_AFTER days: never for an invoice that is merely open.
NeverSuspendedEarly ==
    [][tenant' = "suspended" /\ tenant # "suspended" => Overstayed \/ ByHand]_billingVars

Matched == tenant \notin {"none", "cancelled"} /\ plan.status # "trial" =>
    tenant = Dunning(invoice, today) /\ plan.status = Dunning(invoice, today)

\* Whatever operators did by hand and whichever cycles and payments raced, the
\* nightly cycle ends with tenant and subscription at the status their open
\* invoices earn.
StatusFollowsInvoices == <>[]Matched

\* What billing keeps in every state (service.generate_invoice and the pay and patch
\* handlers): rows of their types, and nothing charged twice.
BillingSafe == BillingTypeOK /\ BilledOnce

\* Dunning is fair and it ends (service.dunning_state, reconcile_status): nobody is
\* suspended early, and the statuses come to be what the open invoices earn.
Dunned == NeverSuspendedEarly /\ StatusFollowsInvoices
=============================================================================
