------------------------------ MODULE Payouts ------------------------------
(***************************************************************************)
(* What a tenant owes its vendors and how it pays them: vendor balances    *)
(* and payout batches of apps/api/app/modules/ledger.  The tenant's        *)
(* reserve rule is the window.                                             *)
(*                                                                         *)
(* Building a batch reads one vendor's statement after another in one      *)
(* transaction, and marking a line paid is a transaction that holds row    *)
(* locks; both may cross with everything else.  The other actions are one  *)
(* transaction each.                                                       *)
(*                                                                         *)
(* Name_slip next to a definition Name is a plausible mistake in the code  *)
(* that Name models; a check of the project substitutes it for Name.       *)
(***************************************************************************)
EXTENDS Integers, FiniteSets, FiniteSetsExt

CONSTANTS
  Vendors,       \* approved vendors with an active payout method
  SubOrders,
  VendorOf,      \* [SubOrders -> Vendors]
  CodOrders,     \* sub-orders paid on delivery; the others are paid before
  Share,         \* [SubOrders -> Nat], the vendor's part of a sub-order
  Periods,       \* period_end dates a batch is built for
  Finance,       \* staff who may approve payouts
  MakerChecker,  \* tenant_settings.maker_checker
  MinAmount,     \* tenant_settings.payout_min_amount
  Disputed,      \* bound: vendors that ever meet a payout hold
  MaxClicks      \* bound: transactions marking one line paid, open together

ASSUME PayoutsAssumption ==
  /\ VendorOf \in [SubOrders -> Vendors]
  /\ CodOrders \subseteq SubOrders
  /\ Share \in [SubOrders -> Nat \ {0}]
  /\ IsFiniteSet(SubOrders) /\ IsFiniteSet(Periods)
  /\ MakerChecker \in BOOLEAN
  /\ MinAmount \in Nat
  /\ Disputed \subseteq Vendors
  /\ MaxClicks \in Nat
  /\ "scheduler" \notin Finance

Actors == Finance \cup {"scheduler"}

VARIABLES
  earned,      \* sub-orders with a capture or cod_delivery group
  delivered,   \* sub-orders of these with a shipment's delivered_at
  recent,      \* sub-orders inside the reserve window
  reversed,    \* sub-orders with a return_reversal group
  holds,       \* vendors with an active payout hold
  batch,       \* payout_batches.status; none, and building until it commits
  createdBy,
  approvedBy,
  considered,  \* vendors an open build has dealt with
  line,        \* payout_lines.status of a period and vendor
  gross,       \* payout_lines.gross
  marking,     \* open transactions that mark a line paid
  closing,     \* such a transaction found no other pending line in the batch
  posted,      \* payout groups in the ledger for a line
  overlap      \* vendors a line was built for while an older one was not paid

moneyVars == <<earned, delivered, recent, reversed>>
batchVars == <<batch, createdBy, approvedBy, considered>>
lineVars == <<line, gross>>
markVars == <<marking, closing>>
vars == <<moneyVars, holds, batchVars, lineVars, markVars, posted, overlap>>

Init ==
  /\ earned = {}
  /\ delivered = {}
  /\ recent = {}
  /\ reversed = {}
  /\ holds = {}
  /\ batch = [p \in Periods |-> "none"]
  /\ createdBy = [p \in Periods |-> "none"]
  /\ approvedBy = [p \in Periods |-> "none"]
  /\ considered = [p \in Periods |-> {}]
  /\ line = [p \in Periods |-> [v \in Vendors |-> "none"]]
  /\ gross = [p \in Periods |-> [v \in Vendors |-> 0]]
  /\ marking = [p \in Periods |-> [v \in Vendors |-> 0]]
  /\ closing = [p \in Periods |-> FALSE]
  /\ posted = [p \in Periods |-> [v \in Vendors |-> 0]]
  /\ overlap = {}

-----------------------------------------------------------------------------
(* Balances *)

ShareOf(subs, v) == SumFunctionOnSet(Share, {s \in subs : VendorOf[s] = v})

PaidTo(v) ==
  SumFunctionOnSet([p \in Periods |-> posted[p][v] * gross[p][v]], Periods)

\* vendor_payable: credits minus debits.
Payable_unpaid(v) == ShareOf(earned, v) - ShareOf(reversed, v)
Payable(v) == ShareOf(earned, v) - ShareOf(reversed, v) - PaidTo(v)

\* vendor_reserve nets nothing: a reversed sub-order inside the window counts.
Reserve(v) == ShareOf(earned \cap recent, v)

Available(v) ==
  IF v \in holds THEN 0
  ELSE IF Payable(v) > Reserve(v) THEN Payable(v) - Reserve(v) ELSE 0

-----------------------------------------------------------------------------
(* Money and holds *)

\* post_capture before delivery, post_cod_delivery at delivery.
Earn(s) ==
  /\ s \notin earned
  /\ earned' = earned \cup {s}
  /\ recent' = recent \cup {s}
  /\ delivered' = IF s \in CodOrders THEN delivered \cup {s} ELSE delivered
  /\ UNCHANGED <<reversed, holds, batchVars, lineVars, markVars, posted, overlap>>

\* A prepaid parcel is delivered: the window starts again.
Deliver(s) ==
  /\ s \in earned \ delivered
  /\ delivered' = delivered \cup {s}
  /\ recent' = recent \cup {s}
  /\ UNCHANGED <<earned, reversed, holds, batchVars, lineVars, markVars, posted,
                 overlap>>

WindowPasses(s) ==
  /\ s \in recent
  /\ recent' = recent \ {s}
  /\ UNCHANGED <<earned, delivered, reversed, holds, batchVars, lineVars,
                 markVars, posted, overlap>>

\* Only a delivered sub-order can be returned, once.
MayReverse(s) == s \in delivered \ reversed

\* post_refund for the whole sub-order.
Reverse(s) ==
  /\ MayReverse(s)
  /\ reversed' = reversed \cup {s}
  /\ UNCHANGED <<earned, delivered, recent, holds, batchVars, lineVars, markVars,
                 posted, overlap>>

\* A dispute opens or the payout method changes; the hold is released or runs out.
Hold(v) ==
  /\ v \in Disputed \ holds
  /\ holds' = holds \cup {v}
  /\ UNCHANGED <<moneyVars, batchVars, lineVars, markVars, posted, overlap>>

Release(v) ==
  /\ v \in holds
  /\ holds' = holds \ {v}
  /\ UNCHANGED <<moneyVars, batchVars, lineVars, markVars, posted, overlap>>

-----------------------------------------------------------------------------
(* build_batch *)

\* The batch row is inserted; (tenant, period_end) is unique.
BuildBatch(p, actor) ==
  /\ batch[p] = "none"
  /\ batch' = [batch EXCEPT ![p] = "building"]
  /\ createdBy' = [createdBy EXCEPT ![p] = actor]
  /\ considered' = [considered EXCEPT ![p] = {}]
  /\ UNCHANGED <<moneyVars, holds, approvedBy, lineVars, markVars, posted, overlap>>

Unpaid(v) == {q \in Periods : line[q][v] \in {"pending", "failed"}}

\* One vendor's statement is read, and its line inserted if there is enough.
BuildLine(p, v) ==
  /\ batch[p] = "building"
  /\ v \notin considered[p]
  /\ considered' = [considered EXCEPT ![p] = @ \cup {v}]
  /\ IF Available(v) > 0 /\ Available(v) >= MinAmount
     THEN /\ line' = [line EXCEPT ![p][v] = "pending"]
          /\ gross' = [gross EXCEPT ![p][v] = Available(v)]
          /\ overlap' = IF Unpaid(v) = {} THEN overlap ELSE overlap \cup {v}
     ELSE UNCHANGED <<lineVars, overlap>>
  /\ UNCHANGED <<moneyVars, holds, batch, createdBy, approvedBy, markVars, posted>>

BuildCommits(p) ==
  /\ batch[p] = "building"
  /\ considered[p] = Vendors
  /\ batch' = [batch EXCEPT ![p] = "draft"]
  /\ considered' = [considered EXCEPT ![p] = {}]
  /\ UNCHANGED <<moneyVars, holds, createdBy, approvedBy, lineVars, markVars,
                 posted, overlap>>

BuildFails(p) ==
  /\ batch[p] = "building"
  /\ batch' = [batch EXCEPT ![p] = "none"]
  /\ createdBy' = [createdBy EXCEPT ![p] = "none"]
  /\ considered' = [considered EXCEPT ![p] = {}]
  /\ line' = [line EXCEPT ![p] = [v \in Vendors |-> "none"]]
  /\ gross' = [gross EXCEPT ![p] = [v \in Vendors |-> 0]]
  /\ UNCHANGED <<moneyVars, holds, approvedBy, markVars, posted, overlap>>

-----------------------------------------------------------------------------
(* approve and export take the lock of the batch *)

BatchLocked_never(p) == FALSE
BatchLocked(p) == \E v \in Vendors : marking[p][v] > 0

\* The preparer may not approve when there is somebody else in finance.
MayApprove_anyone(p, actor) == batch[p] = "draft"
MayApprove(p, actor) ==
  /\ batch[p] = "draft"
  /\ ~(MakerChecker /\ Cardinality(Finance) > 1 /\ createdBy[p] = actor)

Approve(p, actor) ==
  /\ ~BatchLocked(p)
  /\ MayApprove(p, actor)
  /\ \E v \in Vendors : line[p][v] # "none"
  /\ batch' = [batch EXCEPT ![p] = "approved"]
  /\ approvedBy' = [approvedBy EXCEPT ![p] = actor]
  /\ UNCHANGED <<moneyVars, holds, createdBy, considered, lineVars, markVars,
                 posted, overlap>>

\* Exporting again writes nothing.
Export(p) ==
  /\ ~BatchLocked(p)
  /\ batch[p] = "approved"
  /\ batch' = [batch EXCEPT ![p] = "exported"]
  /\ UNCHANGED <<moneyVars, holds, createdBy, approvedBy, considered, lineVars,
                 markVars, posted, overlap>>

-----------------------------------------------------------------------------
(* mark_paid and mark_failed *)

\* The locks of the line and of its batch are taken, both statuses are checked,
\* the line is written and the pending lines are counted.
MarkPaid(p, v) ==
  /\ ~BatchLocked(p)
  /\ marking[p][v] < MaxClicks
  /\ line[p][v] \in {"pending", "failed"}
  /\ batch[p] \in {"approved", "exported"}
  /\ marking' = [marking EXCEPT ![p][v] = @ + 1]
  /\ closing' = [closing EXCEPT ![p] =
       \A u \in Vendors \ {v} : line[p][u] # "pending"]
  /\ UNCHANGED <<moneyVars, holds, batchVars, lineVars, posted, overlap>>

\* ledger.post writes the group of a line once.
MarkPaidCommits(p, v) ==
  /\ marking[p][v] > 0
  /\ marking' = [marking EXCEPT ![p][v] = @ - 1]
  /\ closing' = [closing EXCEPT ![p] = FALSE]
  /\ line' = [line EXCEPT ![p][v] = "paid"]
  /\ posted' = [posted EXCEPT ![p][v] = 1]
  /\ batch' = [batch EXCEPT ![p] = IF closing[p] THEN "completed" ELSE @]
  /\ UNCHANGED <<moneyVars, holds, createdBy, approvedBy, considered, gross,
                 overlap>>

MarkPaidFails(p, v) ==
  /\ marking[p][v] > 0
  /\ marking' = [marking EXCEPT ![p][v] = @ - 1]
  /\ closing' = [closing EXCEPT ![p] = FALSE]
  /\ UNCHANGED <<moneyVars, holds, batchVars, lineVars, posted, overlap>>

\* One UPDATE of a pending line; it waits for the line's lock, not the batch's.
MarkFailed(p, v) ==
  /\ batch[p] # "building"
  /\ line[p][v] = "pending"
  /\ marking[p][v] = 0
  /\ line' = [line EXCEPT ![p][v] = "failed"]
  /\ UNCHANGED <<moneyVars, holds, batchVars, gross, markVars, posted, overlap>>

-----------------------------------------------------------------------------
MoneyStep ==
  \/ \E s \in SubOrders : Earn(s) \/ Deliver(s) \/ WindowPasses(s) \/ Reverse(s)
  \/ \E v \in Vendors : Hold(v) \/ Release(v)

BatchStep(p) ==
  \/ \E actor \in Actors : BuildBatch(p, actor)
  \/ BuildCommits(p)
  \/ BuildFails(p)
  \/ \E actor \in Finance : Approve(p, actor)
  \/ Export(p)

LineStep(p, v) ==
  \/ BuildLine(p, v)
  \/ MarkPaid(p, v)
  \/ MarkPaidCommits(p, v)
  \/ MarkPaidFails(p, v)
  \/ MarkFailed(p, v)

Next ==
  \/ MoneyStep
  \/ \E p \in Periods : BatchStep(p) \/ \E v \in Vendors : LineStep(p, v)

Spec == Init /\ [][Next]_vars

-----------------------------------------------------------------------------
(* Properties *)

TypeOK ==
  /\ earned \subseteq SubOrders
  /\ delivered \subseteq earned
  /\ recent \subseteq earned
  /\ reversed \subseteq delivered
  /\ holds \subseteq Vendors
  /\ batch \in [Periods -> {"none", "building", "draft", "approved", "exported",
                            "completed"}]
  /\ createdBy \in [Periods -> Actors \cup {"none"}]
  /\ approvedBy \in [Periods -> Finance \cup {"none"}]
  /\ considered \in [Periods -> SUBSET Vendors]
  /\ line \in [Periods -> [Vendors -> {"none", "pending", "paid", "failed"}]]
  /\ gross \in [Periods -> [Vendors -> Nat]]
  /\ marking \in [Periods -> [Vendors -> 0..MaxClicks]]
  /\ closing \in [Periods -> BOOLEAN]
  /\ posted \in [Periods -> [Vendors -> {0, 1}]]
  /\ overlap \subseteq Vendors

\* A vendor is never paid more than it ever earned, whatever crosses - unless two
\* of its lines were unpaid at the same time.
PaidIsEarned ==
  \A v \in Vendors \ overlap : PaidTo(v) <= ShareOf(earned, v)

\* Money moves only in a batch that somebody other than its preparer approved.
FourEyes ==
  \A p \in Periods :
    (\E v \in Vendors : posted[p][v] > 0) =>
      /\ batch[p] \in {"approved", "exported", "completed"}
      /\ approvedBy[p] \in Finance
      /\ MakerChecker /\ Cardinality(Finance) > 1 => approvedBy[p] # createdBy[p]

\* A batch is completed when nothing in it is pending, and the last line paid
\* completes it, even when two people mark lines at the same time.
BatchCloses ==
  \A p \in Periods :
    LET Lines == {v \in Vendors : line[p][v] # "none"} IN
    /\ batch[p] = "completed" => \A v \in Lines : line[p][v] # "pending"
    /\ Lines # {} /\ (\A v \in Lines : line[p][v] = "paid") =>
         batch[p] = "completed"

-----------------------------------------------------------------------------
(* What the documentation says and the code does not do *)

\* Payouts cannot pay twice.
PaidOnce == \A v \in Vendors : PaidTo(v) <= ShareOf(earned, v)

\* Batches and lines stay well formed while they are built and paid (TypeOK), and a
\* vendor is not paid more than earned (PaidIsEarned).
PayoutBooks == TypeOK /\ PaidIsEarned
=============================================================================
