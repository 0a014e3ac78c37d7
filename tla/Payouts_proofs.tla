--------------------------- MODULE Payouts_proofs ---------------------------
(***************************************************************************)
(* Theorems about Payouts for every number of vendors, batches and staff.  *)
(***************************************************************************)
EXTENDS Payouts, Sums_proofs, TLAPS

-----------------------------------------------------------------------------
(* The inductive invariant *)

PayableStatuses == {"approved", "exported", "completed"}

\* Types of what the invariant is about.
BatchTypes ==
  /\ batch \in [Periods -> {"none", "building", "draft", "approved", "exported",
                            "completed"}]
  /\ createdBy \in [Periods -> Actors \cup {"none"}]
  /\ approvedBy \in [Periods -> Finance \cup {"none"}]
  /\ line \in [Periods -> [Vendors -> {"none", "pending", "paid", "failed"}]]
  /\ marking \in [Periods -> [Vendors -> 0..MaxClicks]]
  /\ closing \in [Periods -> BOOLEAN]
  /\ posted \in [Periods -> [Vendors -> {0, 1}]]

\* A batch that may be paid was approved by four eyes; before that nothing of it
\* is paid, posted or being paid.
Approved(p) ==
  /\ batch[p] \in PayableStatuses =>
       /\ approvedBy[p] \in Finance
       /\ MakerChecker /\ Cardinality(Finance) > 1 => approvedBy[p] # createdBy[p]
  /\ batch[p] \notin PayableStatuses =>
       \A v \in Vendors : line[p][v] # "paid" /\ posted[p][v] = 0

\* The lock of the batch: one line of it is marked at a time, and what was counted
\* when it was taken still decides correctly at the commit.
Locked(p) ==
  \A v \in Vendors :
    marking[p][v] > 0 =>
      /\ batch[p] \in {"approved", "exported"}
      /\ marking[p][v] = 1
      /\ line[p][v] # "paid"
      /\ \A u \in Vendors \ {v} :
           /\ marking[p][u] = 0
           /\ closing[p] => line[p][u] # "pending"
      /\ ~closing[p] => \E u \in Vendors \ {v} : line[p][u] \in {"pending", "failed"}

\* BatchCloses for one batch.
Closes(p) ==
  /\ batch[p] = "completed" => \A v \in Vendors : line[p][v] # "pending"
  /\ \A v \in Vendors :
       line[p][v] = "paid" /\ batch[p] # "completed" =>
         \E u \in Vendors : line[p][u] \in {"pending", "failed"}

PayoutInv ==
  /\ BatchTypes
  /\ \A p \in Periods : Approved(p) /\ Locked(p) /\ Closes(p)

-----------------------------------------------------------------------------
(* Rows *)

\* An action works on one batch; the others keep what holds of them.
LEMMA OtherBatches ==
  ASSUME PayoutInv, NEW p \in Periods,
         \A q \in Periods \ {p} :
           /\ batch'[q] = batch[q] /\ createdBy'[q] = createdBy[q]
           /\ approvedBy'[q] = approvedBy[q] /\ line'[q] = line[q]
           /\ marking'[q] = marking[q] /\ closing'[q] = closing[q]
           /\ posted'[q] = posted[q],
         BatchTypes', Approved(p)', Locked(p)', Closes(p)'
  PROVE  PayoutInv'
<1>1. ASSUME NEW q \in Periods \ {p}
      PROVE  Approved(q)' /\ Locked(q)' /\ Closes(q)'
  BY DEF PayoutInv, Approved, Locked, Closes
<1> QED
  BY <1>1 DEF PayoutInv

LEMMA InitHolds == Init => PayoutInv
<1> SUFFICES ASSUME Init
             PROVE  PayoutInv
  OBVIOUS
<1>1. BatchTypes
  BY PayoutsAssumption DEF PayoutsAssumption, Init, BatchTypes
<1>2. \A p \in Periods : Approved(p) /\ Locked(p) /\ Closes(p)
  BY DEF Init, Approved, Locked, Closes, PayableStatuses
<1> QED
  BY <1>1, <1>2 DEF PayoutInv

\* Money, holds and a stutter change no batch.
LEMMA QuietKeeps ==
  ASSUME PayoutInv, UNCHANGED <<batch, createdBy, approvedBy, line, marking, closing,
                                posted>>
  PROVE  PayoutInv'
<1>1. BatchTypes'
  BY DEF PayoutInv, BatchTypes
<1>2. \A p \in Periods : Approved(p)' /\ Locked(p)' /\ Closes(p)'
  BY DEF PayoutInv, Approved, Locked, Closes
<1> QED
  BY <1>1, <1>2 DEF PayoutInv

-----------------------------------------------------------------------------
(* Building a batch *)

\* While a batch is not approved no transaction marks its lines.
LEMMA NotMarked ==
  ASSUME PayoutInv, NEW p \in Periods, batch[p] \notin {"approved", "exported"},
         NEW v \in Vendors
  PROVE  marking[p][v] = 0
<1>1. marking[p][v] \in 0 .. MaxClicks /\ MaxClicks \in Nat
  BY PayoutsAssumption DEF PayoutsAssumption, PayoutInv, BatchTypes
<1> QED
  BY <1>1 DEF PayoutInv, Locked

LEMMA BuildingKeeps ==
  ASSUME PayoutInv, NEW p \in Periods,
         (\E actor \in Actors : BuildBatch(p, actor)) \/ BuildCommits(p) \/ BuildFails(p)
  PROVE  PayoutInv'
<1>1. /\ batch[p] \in {"none", "building"}
      /\ UNCHANGED <<approvedBy, marking, closing, posted>>
  BY DEF BuildBatch, BuildCommits, BuildFails, markVars, lineVars
<1>2. PICK next \in {"none", "building", "draft"} : batch' = [batch EXCEPT ![p] = next]
  BY DEF BuildBatch, BuildCommits, BuildFails
<1>3. \/ createdBy' = createdBy
      \/ \E who \in Actors \cup {"none"} : createdBy' = [createdBy EXCEPT ![p] = who]
  BY DEF BuildBatch, BuildCommits, BuildFails
<1>4. \/ line' = line
      \/ line' = [line EXCEPT ![p] = [v \in Vendors |-> "none"]]
  BY DEF BuildBatch, BuildCommits, BuildFails, lineVars
<1>5. BatchTypes'
  BY <1>1, <1>2, <1>3, <1>4 DEF PayoutInv, BatchTypes
<1>6. /\ batch'[p] = next
      /\ \A q \in Periods \ {p} :
           /\ batch'[q] = batch[q] /\ createdBy'[q] = createdBy[q]
           /\ line'[q] = line[q]
      /\ \A v \in Vendors : line'[p][v] = line[p][v] \/ line'[p][v] = "none"
  BY <1>2, <1>3, <1>4 DEF PayoutInv, BatchTypes
<1>7. \A v \in Vendors : line[p][v] # "paid" /\ posted[p][v] = 0
  BY <1>1 DEF PayoutInv, Approved, PayableStatuses
<1>8. \A v \in Vendors : line'[p][v] # "paid"
  BY <1>6, <1>7
<1>9. Approved(p)'
  BY <1>1, <1>6, <1>7 DEF Approved, PayableStatuses
<1>10. Locked(p)'
  BY <1>1, NotMarked DEF Locked
<1>11. Closes(p)'
  BY <1>6, <1>8 DEF Closes
<1> QED
  BY <1>1, <1>5, <1>6, <1>9, <1>10, <1>11, OtherBatches

LEMMA BuildLineKeeps ==
  ASSUME PayoutInv, NEW p \in Periods, NEW v \in Vendors, BuildLine(p, v)
  PROVE  PayoutInv'
<1>1. /\ batch[p] = "building"
      /\ line' = line \/ line' = [line EXCEPT ![p][v] = "pending"]
      /\ UNCHANGED <<batch, createdBy, approvedBy, marking, closing, posted>>
  BY DEF BuildLine, lineVars, markVars
<1>2. CASE line' = line
  BY <1>1, <1>2, QuietKeeps
<1>3. CASE line' = [line EXCEPT ![p][v] = "pending"]
  <2>1. line \in [Periods -> [Vendors -> {"none", "pending", "paid", "failed"}]]
    BY DEF PayoutInv, BatchTypes
  <2>2. /\ line' \in [Periods -> [Vendors -> {"none", "pending", "paid", "failed"}]]
        /\ line'[p][v] = "pending"
        /\ \A u \in Vendors \ {v} : line'[p][u] = line[p][u]
        /\ \A q \in Periods \ {p} : line'[q] = line[q]
    <3> DEFINE row == [line[p] EXCEPT ![v] = "pending"]
    <3>1. line' = [line EXCEPT ![p] = row]
      BY <1>3
    <3>2. /\ row \in [Vendors -> {"none", "pending", "paid", "failed"}]
          /\ row[v] = "pending"
          /\ \A u \in Vendors \ {v} : row[u] = line[p][u]
      BY <2>1
    <3> HIDE DEF row
    <3> QED
      BY <2>1, <3>1, <3>2
  <2>3. BatchTypes'
    BY <1>1, <2>2 DEF PayoutInv, BatchTypes
  <2>4. Approved(p)'
    BY <1>1, <2>2 DEF PayoutInv, Approved, PayableStatuses
  <2>5. Locked(p)'
    BY <1>1, NotMarked DEF Locked
  <2>6. Closes(p)'
    <3>1. batch'[p] # "completed"
      BY <1>1
    <3>2. line'[p][v] \in {"pending", "failed"}
      BY <2>2
    <3> QED
      BY <3>1, <3>2 DEF Closes
  <2> QED
    BY <1>1, <2>2, <2>3, <2>4, <2>5, <2>6, OtherBatches
<1> QED
  BY <1>1, <1>2, <1>3

-----------------------------------------------------------------------------
(* Approval, export and payment *)

LEMMA ApproveKeeps ==
  ASSUME PayoutInv, NEW p \in Periods, NEW actor \in Finance, Approve(p, actor)
  PROVE  PayoutInv'
<1>1. /\ batch[p] = "draft"
      /\ MakerChecker /\ Cardinality(Finance) > 1 => createdBy[p] # actor
      /\ batch' = [batch EXCEPT ![p] = "approved"]
      /\ approvedBy' = [approvedBy EXCEPT ![p] = actor]
      /\ UNCHANGED <<createdBy, line, marking, closing, posted>>
  BY Zenon DEF Approve, MayApprove, lineVars, markVars
<1>2. /\ batch'[p] = "approved" /\ approvedBy'[p] = actor
      /\ \A q \in Periods \ {p} : batch'[q] = batch[q] /\ approvedBy'[q] = approvedBy[q]
      /\ BatchTypes'
  BY <1>1 DEF PayoutInv, BatchTypes
<1>3. Approved(p)'
  BY <1>1, <1>2 DEF Approved, PayableStatuses
<1>4. Locked(p)'
  BY <1>1, NotMarked DEF Locked
<1>5. Closes(p)'
  <2>1. \A v \in Vendors : line[p][v] # "paid"
    BY <1>1 DEF PayoutInv, Approved, PayableStatuses
  <2> QED
    BY <1>1, <1>2, <2>1 DEF Closes
<1> QED
  BY <1>1, <1>2, <1>3, <1>4, <1>5, OtherBatches

LEMMA ExportKeeps ==
  ASSUME PayoutInv, NEW p \in Periods, Export(p)
  PROVE  PayoutInv'
<1>1. /\ batch[p] = "approved"
      /\ batch' = [batch EXCEPT ![p] = "exported"]
      /\ UNCHANGED <<createdBy, approvedBy, line, marking, closing, posted>>
  BY DEF Export, lineVars, markVars
<1>2. /\ batch'[p] = "exported"
      /\ \A q \in Periods \ {p} : batch'[q] = batch[q]
      /\ BatchTypes'
  BY <1>1 DEF PayoutInv, BatchTypes
<1>3. Approved(p)'
  BY <1>1, <1>2 DEF PayoutInv, Approved, PayableStatuses
<1>4. Locked(p)'
  BY <1>1, <1>2 DEF PayoutInv, Locked
<1>5. Closes(p)'
  BY <1>1, <1>2 DEF PayoutInv, Closes
<1> QED
  BY <1>1, <1>2, <1>3, <1>4, <1>5, OtherBatches

\* What the transaction reads and counts under the lock of the batch.
LEMMA MarkPaidKeeps ==
  ASSUME PayoutInv, NEW p \in Periods, NEW v \in Vendors, MarkPaid(p, v)
  PROVE  PayoutInv'
<1>1. /\ line[p][v] \in {"pending", "failed"} /\ batch[p] \in {"approved", "exported"}
      /\ marking[p][v] < MaxClicks
      /\ UNCHANGED <<batch, createdBy, approvedBy, line, posted>>
  BY DEF MarkPaid, batchVars, lineVars
<1>2. /\ marking \in [Periods -> [Vendors -> 0 .. MaxClicks]] /\ MaxClicks \in Nat
      /\ closing \in [Periods -> BOOLEAN]
  BY PayoutsAssumption DEF PayoutsAssumption, PayoutInv, BatchTypes
<1>3. \A u \in Vendors : marking[p][u] = 0
  BY <1>2 DEF MarkPaid, BatchLocked
<1>4. /\ marking' = [marking EXCEPT ![p][v] = 1] /\ 1 \in 0 .. MaxClicks
  <2>1. marking' = [marking EXCEPT ![p][v] = marking[p][v] + 1]
    BY DEF MarkPaid
  <2>2. marking[p][v] + 1 = 1 /\ 1 \in 0 .. MaxClicks
    BY <1>1, <1>2, <1>3
  <2> QED
    BY <2>1, <2>2, Zenon
<1>5. /\ marking' \in [Periods -> [Vendors -> 0 .. MaxClicks]]
      /\ marking'[p][v] = 1
      /\ \A u \in Vendors \ {v} : marking'[p][u] = 0
      /\ \A q \in Periods \ {p} : marking'[q] = marking[q]
  <2>1. /\ marking' \in [Periods -> [Vendors -> 0 .. MaxClicks]]
        /\ marking'[p][v] = 1
        /\ \A u \in Vendors \ {v} : marking'[p][u] = marking[p][u]
        /\ \A q \in Periods \ {p} : marking'[q] = marking[q]
    <3> DEFINE row == [marking[p] EXCEPT ![v] = 1]
    <3>1. marking' = [marking EXCEPT ![p] = row]
      BY <1>4
    <3>2. /\ row \in [Vendors -> 0 .. MaxClicks] /\ row[v] = 1
          /\ \A u \in Vendors \ {v} : row[u] = marking[p][u]
      BY <1>2, <1>4
    <3> HIDE DEF row
    <3> QED
      BY <1>2, <3>1, <3>2
  <2> QED
    BY <1>3, <2>1
<1>6. /\ closing' \in [Periods -> BOOLEAN]
      /\ closing'[p] <=> \A u \in Vendors \ {v} : line[p][u] # "pending"
      /\ \A q \in Periods \ {p} : closing'[q] = closing[q]
  <2> DEFINE last == \A u \in Vendors \ {v} : line[p][u] # "pending"
  <2>1. closing' = [closing EXCEPT ![p] = last]
    BY DEF MarkPaid
  <2>2. last \in BOOLEAN
    OBVIOUS
  <2> HIDE DEF last
  <2>3. closing' \in [Periods -> BOOLEAN] /\ closing'[p] = last
    BY <1>2, <2>1, <2>2
  <2>4. \A q \in Periods \ {p} : closing'[q] = closing[q]
    BY <1>2, <2>1
  <2> QED
    BY <2>3, <2>4, Zenon DEF last
<1>7. BatchTypes'
  BY <1>1, <1>5, <1>6 DEF PayoutInv, BatchTypes
<1>8. Approved(p)' /\ Closes(p)'
  BY <1>1 DEF PayoutInv, Approved, Closes
<1>9. Locked(p)'
  <2>1. ~closing'[p] => \E u \in Vendors \ {v} : line[p][u] = "pending"
    BY <1>6, Zenon
  <2>2. closing'[p] => \A u \in Vendors \ {v} : line[p][u] # "pending"
    BY <1>6, Zenon
  <2> QED
    BY <1>1, <1>5, <2>1, <2>2 DEF Locked
<1> QED
  BY <1>1, <1>5, <1>6, <1>7, <1>8, <1>9, OtherBatches

\* What a commit or a rollback of a marking finds and leaves of its lock.
LEMMA UnlockFacts ==
  ASSUME PayoutInv, NEW p \in Periods, NEW v \in Vendors, marking[p][v] > 0,
         marking' = [marking EXCEPT ![p][v] = @ - 1],
         closing' = [closing EXCEPT ![p] = FALSE]
  PROVE  /\ marking' \in [Periods -> [Vendors -> 0 .. MaxClicks]]
         /\ \A u \in Vendors : marking'[p][u] = 0
         /\ \A q \in Periods \ {p} : marking'[q] = marking[q] /\ closing'[q] = closing[q]
         /\ closing' \in [Periods -> BOOLEAN]
<1>1. /\ marking \in [Periods -> [Vendors -> 0 .. MaxClicks]] /\ MaxClicks \in Nat
      /\ closing \in [Periods -> BOOLEAN]
  BY PayoutsAssumption DEF PayoutsAssumption, PayoutInv, BatchTypes
<1>2. marking[p][v] = 1 /\ \A u \in Vendors \ {v} : marking[p][u] = 0
  BY DEF PayoutInv, Locked
<1>3. /\ marking' = [marking EXCEPT ![p][v] = 0] /\ 0 \in 0 .. MaxClicks
  <2>1. marking' = [marking EXCEPT ![p][v] = marking[p][v] - 1]
    OBVIOUS
  <2>2. marking[p][v] - 1 = 0 /\ 0 \in 0 .. MaxClicks
    BY <1>1, <1>2
  <2> QED
    BY <2>1, <2>2, Zenon
<1>4. /\ marking' \in [Periods -> [Vendors -> 0 .. MaxClicks]]
      /\ marking'[p][v] = 0
      /\ \A u \in Vendors \ {v} : marking'[p][u] = marking[p][u]
      /\ \A q \in Periods \ {p} : marking'[q] = marking[q]
  <2> DEFINE row == [marking[p] EXCEPT ![v] = 0]
  <2>1. marking' = [marking EXCEPT ![p] = row]
    BY <1>1, <1>3
  <2>2. /\ row \in [Vendors -> 0 .. MaxClicks] /\ row[v] = 0
        /\ \A u \in Vendors \ {v} : row[u] = marking[p][u]
    BY <1>1, <1>3
  <2> HIDE DEF row
  <2> QED
    BY <1>1, <1>3, <2>1, <2>2
<1>5. /\ \A q \in Periods \ {p} : closing'[q] = closing[q]
      /\ closing' \in [Periods -> BOOLEAN]
  BY <1>1
<1> QED
  BY <1>2, <1>4, <1>5

LEMMA MarkPaidFailsKeeps ==
  ASSUME PayoutInv, NEW p \in Periods, NEW v \in Vendors, MarkPaidFails(p, v)
  PROVE  PayoutInv'
<1>1. /\ marking[p][v] > 0
      /\ marking' = [marking EXCEPT ![p][v] = @ - 1]
      /\ closing' = [closing EXCEPT ![p] = FALSE]
      /\ UNCHANGED <<batch, createdBy, approvedBy, line, posted>>
  BY DEF MarkPaidFails, batchVars, lineVars
<1>2. BatchTypes'
  BY <1>1, UnlockFacts DEF PayoutInv, BatchTypes
<1>3. Approved(p)' /\ Closes(p)'
  BY <1>1 DEF PayoutInv, Approved, Closes
<1>4. Locked(p)'
  <2>1. \A u \in Vendors : marking'[p][u] = 0
    BY <1>1, UnlockFacts
  <2>2. \A u \in Vendors : ~(marking'[p][u] > 0)
    BY <2>1
  <2> QED
    BY <2>2, Zenon DEF Locked
<1> QED
  BY <1>1, <1>2, <1>3, <1>4, UnlockFacts, OtherBatches

\* The line is paid and posted, and the batch completed when the count said so.
LEMMA MarkPaidCommitsKeeps ==
  ASSUME PayoutInv, NEW p \in Periods, NEW v \in Vendors, MarkPaidCommits(p, v)
  PROVE  PayoutInv'
<1>1. /\ marking[p][v] > 0
      /\ marking' = [marking EXCEPT ![p][v] = @ - 1]
      /\ closing' = [closing EXCEPT ![p] = FALSE]
      /\ line' = [line EXCEPT ![p][v] = "paid"]
      /\ posted' = [posted EXCEPT ![p][v] = 1]
      /\ batch' = [batch EXCEPT ![p] = IF closing[p] THEN "completed" ELSE @]
      /\ UNCHANGED <<createdBy, approvedBy>>
  BY DEF MarkPaidCommits
<1>2. /\ line \in [Periods -> [Vendors -> {"none", "pending", "paid", "failed"}]]
      /\ posted \in [Periods -> [Vendors -> {0, 1}]]
      /\ batch \in [Periods -> {"none", "building", "draft", "approved", "exported",
                                "completed"}]
  BY DEF PayoutInv, BatchTypes
<1>3. /\ line' \in [Periods -> [Vendors -> {"none", "pending", "paid", "failed"}]]
      /\ line'[p][v] = "paid"
      /\ \A u \in Vendors \ {v} : line'[p][u] = line[p][u]
      /\ \A q \in Periods \ {p} : line'[q] = line[q]
  <2> DEFINE row == [line[p] EXCEPT ![v] = "paid"]
  <2>1. line' = [line EXCEPT ![p] = row]
    BY <1>1, <1>2
  <2>2. /\ row \in [Vendors -> {"none", "pending", "paid", "failed"}] /\ row[v] = "paid"
        /\ \A u \in Vendors \ {v} : row[u] = line[p][u]
    BY <1>1, <1>2
  <2> HIDE DEF row
  <2> QED
    BY <1>1, <1>2, <2>1, <2>2
<1>4. /\ posted' \in [Periods -> [Vendors -> {0, 1}]]
      /\ posted'[p][v] = 1
      /\ \A u \in Vendors \ {v} : posted'[p][u] = posted[p][u]
      /\ \A q \in Periods \ {p} : posted'[q] = posted[q]
  <2> DEFINE row == [posted[p] EXCEPT ![v] = 1]
  <2>1. posted' = [posted EXCEPT ![p] = row]
    BY <1>1, <1>2
  <2>2. /\ row \in [Vendors -> {0, 1}] /\ row[v] = 1
        /\ \A u \in Vendors \ {v} : row[u] = posted[p][u]
    BY <1>1, <1>2
  <2> HIDE DEF row
  <2> QED
    BY <1>1, <1>2, <2>1, <2>2
<1>5. /\ batch' \in [Periods -> {"none", "building", "draft", "approved", "exported",
                                 "completed"}]
      /\ \A q \in Periods \ {p} : batch'[q] = batch[q]
      /\ closing[p] => batch'[p] = "completed"
      /\ ~closing[p] => batch'[p] = batch[p]
  BY <1>1, <1>2
<1>6. /\ batch[p] \in {"approved", "exported"}
      /\ closing[p] => \A u \in Vendors \ {v} : line[p][u] # "pending"
      /\ ~closing[p] => \E u \in Vendors \ {v} : line[p][u] \in {"pending", "failed"}
  <2>1. Locked(p)
    BY DEF PayoutInv
  <2> QED
    BY <1>1, <2>1 DEF Locked
<1>7. BatchTypes'
  BY <1>1, <1>3, <1>4, <1>5, UnlockFacts DEF PayoutInv, BatchTypes
<1>8. Approved(p)'
  <2>1. batch'[p] \in PayableStatuses /\ batch[p] \in PayableStatuses
    BY <1>5, <1>6 DEF PayableStatuses
  <2> QED
    BY <1>1, <2>1 DEF PayoutInv, Approved
<1>9. Locked(p)'
  <2>1. \A u \in Vendors : marking'[p][u] = 0
    BY <1>1, UnlockFacts
  <2>2. \A u \in Vendors : ~(marking'[p][u] > 0)
    BY <2>1
  <2> QED
    BY <2>2, Zenon DEF Locked
<1>10. Closes(p)'
  <2>1. CASE closing[p]
    BY <1>3, <1>5, <1>6, <2>1 DEF Closes
  <2>2. CASE ~closing[p]
    BY <1>3, <1>5, <1>6, <2>2 DEF Closes
  <2> QED
    BY <2>1, <2>2
<1> QED
  BY <1>1, <1>3, <1>4, <1>5, <1>7, <1>8, <1>9, <1>10, UnlockFacts, OtherBatches

\* A failed line does not wait for the lock of its batch, and need not.
LEMMA MarkFailedKeeps ==
  ASSUME PayoutInv, NEW p \in Periods, NEW v \in Vendors, MarkFailed(p, v)
  PROVE  PayoutInv'
<1>1. /\ line[p][v] = "pending" /\ marking[p][v] = 0
      /\ line' = [line EXCEPT ![p][v] = "failed"]
      /\ UNCHANGED <<batch, createdBy, approvedBy, marking, closing, posted>>
  BY DEF MarkFailed, batchVars, markVars
<1>2. line \in [Periods -> [Vendors -> {"none", "pending", "paid", "failed"}]]
  BY DEF PayoutInv, BatchTypes
<1>3. /\ line' \in [Periods -> [Vendors -> {"none", "pending", "paid", "failed"}]]
      /\ line'[p][v] = "failed"
      /\ \A u \in Vendors \ {v} : line'[p][u] = line[p][u]
      /\ \A q \in Periods \ {p} : line'[q] = line[q]
  <2> DEFINE row == [line[p] EXCEPT ![v] = "failed"]
  <2>1. line' = [line EXCEPT ![p] = row]
    BY <1>1, <1>2
  <2>2. /\ row \in [Vendors -> {"none", "pending", "paid", "failed"}] /\ row[v] = "failed"
        /\ \A u \in Vendors \ {v} : row[u] = line[p][u]
    BY <1>1, <1>2
  <2> HIDE DEF row
  <2> QED
    BY <1>1, <1>2, <2>1, <2>2
<1>4. BatchTypes'
  BY <1>1, <1>3 DEF PayoutInv, BatchTypes
<1>5. Approved(p)'
  BY <1>1, <1>3 DEF PayoutInv, Approved
<1>6. Locked(p)'
  <2>1. Locked(p)
    BY DEF PayoutInv
  <2> QED
    BY <1>1, <1>3, <2>1 DEF Locked
<1>7. Closes(p)'
  BY <1>1, <1>3 DEF PayoutInv, Closes
<1> QED
  BY <1>1, <1>3, <1>4, <1>5, <1>6, <1>7, OtherBatches

LEMMA StepKeeps == PayoutInv /\ [Next]_vars => PayoutInv'
<1> SUFFICES ASSUME PayoutInv, [Next]_vars
             PROVE  PayoutInv'
  OBVIOUS
<1>1. CASE MoneyStep \/ UNCHANGED vars
  BY <1>1, QuietKeeps
  DEF MoneyStep, Earn, Deliver, WindowPasses, Reverse, Hold, Release, vars, batchVars,
      lineVars, markVars
<1>2. ASSUME NEW p \in Periods, BatchStep(p)
      PROVE  PayoutInv'
  BY <1>2, BuildingKeeps, ApproveKeeps, ExportKeeps DEF BatchStep
<1>3. ASSUME NEW p \in Periods, NEW v \in Vendors, LineStep(p, v)
      PROVE  PayoutInv'
  BY <1>3, BuildLineKeeps, MarkPaidKeeps, MarkPaidCommitsKeeps, MarkPaidFailsKeeps,
     MarkFailedKeeps DEF LineStep
<1> QED
  BY <1>1, <1>2, <1>3 DEF Next

-----------------------------------------------------------------------------
(* Theorems *)

\* The invariant that carries the properties of batches: approval, the lock a
\* payment holds, and what it counted under that lock.
THEOREM PayoutsHold == Spec => []PayoutInv
<1>1. Init => PayoutInv
  BY InitHolds
<1>2. PayoutInv /\ [Next]_vars => PayoutInv'
  BY StepKeeps
<1> QED
  BY <1>1, <1>2, PTL DEF Spec

\* No line is posted as paid in a batch that its preparer alone let through.
THEOREM FourEyesHolds == Spec => []FourEyes
<1>1. PayoutInv => FourEyes
  BY DEF PayoutInv, Approved, FourEyes, PayableStatuses
<1> QED
  BY <1>1, PayoutsHold, PTL

\* However many people mark lines at the same time, the last line paid completes
\* the batch, and no completed batch has a pending line.
THEOREM BatchClosesHolds == Spec => []BatchCloses
<1>1. PayoutInv => BatchCloses
  BY DEF PayoutInv, BatchTypes, Closes, BatchCloses
<1> QED
  BY <1>1, PayoutsHold, PTL

-----------------------------------------------------------------------------
(* What is paid and what was earned *)

UnpaidStatuses == {"pending", "failed"}

\* A line is posted when and only when it is paid, and marked while it is not.
PostedLines ==
  \A p \in Periods, v \in Vendors :
    /\ posted[p][v] = 1 <=> line[p][v] = "paid"
    /\ marking[p][v] > 0 => line[p][v] \in UnpaidStatuses

\* What was paid to a vendor, and the one line that may still be paid, stay within
\* what the vendor earned: the line was built from what was payable then, and until
\* it is paid nothing else is.
VendorBook(v) ==
  v \notin overlap =>
    /\ PaidTo(v) <= ShareOf(earned, v)
    /\ \A p \in Periods :
         line[p][v] \in UnpaidStatuses =>
           /\ PaidTo(v) + gross[p][v] <= ShareOf(earned, v)
           /\ \A q \in Periods : line[q][v] \in UnpaidStatuses => q = p

PayoutBooksInv ==
  /\ PayoutInv
  /\ TypeOK
  /\ PostedLines
  /\ \A v \in Vendors : VendorBook(v)

LEMMA ShareFacts ==
  ASSUME NEW A, NEW B, A \subseteq B, B \subseteq SubOrders
  PROVE  \A v : /\ ShareOf(A, v) \in Nat /\ ShareOf(B, v) \in Nat
                /\ ShareOf(A, v) <= ShareOf(B, v)
<1> SUFFICES ASSUME NEW v
             PROVE  /\ ShareOf(A, v) \in Nat /\ ShareOf(B, v) \in Nat
                    /\ ShareOf(A, v) <= ShareOf(B, v)
  OBVIOUS
<1> DEFINE a == {s \in A : VendorOf[s] = v}
           b == {s \in B : VendorOf[s] = v}
<1>1. a \subseteq b /\ b \subseteq SubOrders
  OBVIOUS
<1>2. ShareOf(A, v) = SumFunctionOnSet(Share, a) /\ ShareOf(B, v) = SumFunctionOnSet(Share, b)
  BY DEF ShareOf
<1> HIDE DEF a, b
<1>3. IsFiniteSet(b) /\ IsFiniteSet(a) /\ \A s \in b : Share[s] \in Nat
  BY <1>1, FS_Subset, PayoutsAssumption DEF PayoutsAssumption
<1>4. SumFunctionOnSet(Share, a) \in Nat /\ SumFunctionOnSet(Share, b) \in Nat
  BY <1>1, <1>3, SumNat
<1>5. SumFunctionOnSet(Share, a) <= SumFunctionOnSet(Share, b)
  BY <1>1, <1>3, SumSubset
<1> QED
  BY <1>2, <1>4, <1>5

\* The part of a line that was paid.
LEMMA Settled ==
  ASSUME TypeOK, NEW p \in Periods, NEW v \in Vendors
  PROVE  /\ posted[p][v] * gross[p][v] \in Nat
         /\ posted[p][v] = 0 => posted[p][v] * gross[p][v] = 0
         /\ posted[p][v] = 1 => posted[p][v] * gross[p][v] = gross[p][v]
<1>1. posted[p][v] \in {0, 1} /\ gross[p][v] \in Nat
  BY DEF TypeOK
<1>2. CASE posted[p][v] = 0
  <2>1. posted[p][v] * gross[p][v] = 0
    BY <1>1, <1>2
  <2> QED
    BY <1>2, <2>1
<1>3. CASE posted[p][v] = 1
  <2>1. posted[p][v] * gross[p][v] = gross[p][v]
    BY <1>1, <1>3
  <2> QED
    BY <1>1, <1>3, <2>1
<1> QED
  BY <1>1, <1>2, <1>3

LEMMA PaidToType == ASSUME TypeOK, NEW v \in Vendors PROVE PaidTo(v) \in Nat
<1> DEFINE f == [p \in Periods |-> posted[p][v] * gross[p][v]]
<1>1. \A p \in Periods : f[p] \in Nat
  BY Settled
<1>2. PaidTo(v) = SumFunctionOnSet(f, Periods)
  BY DEF PaidTo
<1> HIDE DEF f
<1> QED
  BY <1>1, <1>2, SumNat, PayoutsAssumption DEF PayoutsAssumption

LEMMA PaidToUnchanged ==
  ASSUME NEW v \in Vendors,
         \A p \in Periods : posted'[p][v] * gross'[p][v] = posted[p][v] * gross[p][v]
  PROVE  PaidTo(v)' = PaidTo(v)
<1> DEFINE f == [p \in Periods |-> posted[p][v] * gross[p][v]]
           g == [p \in Periods |-> posted'[p][v] * gross'[p][v]]
<1>1. f = g
  OBVIOUS
<1>2. PaidTo(v) = SumFunctionOnSet(f, Periods) /\ PaidTo(v)' = SumFunctionOnSet(g, Periods)
  BY DEF PaidTo
<1> HIDE DEF f, g
<1> QED
  BY <1>1, <1>2

\* A vendor none of whose lines comes to be payable, and whose earnings do not shrink.
LEMMA VendorKeeps ==
  ASSUME PayoutBooksInv, TypeOK', NEW v \in Vendors,
         earned \subseteq earned', overlap \subseteq overlap',
         \A p \in Periods :
           /\ posted'[p][v] * gross'[p][v] = posted[p][v] * gross[p][v]
           /\ line'[p][v] \in UnpaidStatuses =>
                line[p][v] \in UnpaidStatuses /\ gross'[p][v] = gross[p][v]
  PROVE  VendorBook(v)'
<1> SUFFICES ASSUME v \notin overlap'
             PROVE  VendorBook(v)'
  BY DEF VendorBook
<1>1. VendorBook(v) /\ v \notin overlap
  BY DEF PayoutBooksInv
<1>2. PaidTo(v)' = PaidTo(v) /\ PaidTo(v) \in Nat
  BY PaidToUnchanged, PaidToType DEF PayoutBooksInv
<1>3. earned' \subseteq SubOrders
  BY DEF TypeOK
<1>4. /\ ShareOf(earned, v) \in Nat /\ ShareOf(earned', v) \in Nat
      /\ ShareOf(earned, v) <= ShareOf(earned', v)
  BY <1>3, ShareFacts
<1>5. ShareOf(earned, v)' = ShareOf(earned', v)
  BY DEF ShareOf
<1>6. \A p \in Periods : gross[p][v] \in Nat
  BY DEF PayoutBooksInv, TypeOK
<1>7. PaidTo(v)' <= ShareOf(earned, v)'
  BY <1>1, <1>2, <1>4, <1>5 DEF VendorBook
<1>8. ASSUME NEW p \in Periods, line'[p][v] \in UnpaidStatuses
      PROVE  /\ PaidTo(v)' + gross'[p][v] <= ShareOf(earned, v)'
             /\ \A q \in Periods : line'[q][v] \in UnpaidStatuses => q = p
  <2>1. line[p][v] \in UnpaidStatuses /\ gross'[p][v] = gross[p][v]
    BY <1>8
  <2>2. PaidTo(v) + gross[p][v] <= ShareOf(earned, v)
    BY <1>1, <2>1 DEF VendorBook
  <2>3. \A q \in Periods : line[q][v] \in UnpaidStatuses => q = p
    BY <1>1, <2>1 DEF VendorBook
  <2> QED
    BY <1>2, <1>4, <1>5, <1>6, <2>1, <2>2, <2>3
<1> QED
  BY <1>7, <1>8 DEF VendorBook

\* The types that are not among BatchTypes.
MoneyTypes ==
  /\ earned \subseteq SubOrders
  /\ delivered \subseteq earned
  /\ recent \subseteq earned
  /\ reversed \subseteq delivered
  /\ holds \subseteq Vendors
  /\ considered \in [Periods -> SUBSET Vendors]
  /\ gross \in [Periods -> [Vendors -> Nat]]
  /\ overlap \subseteq Vendors

LEMMA TypesSplit ==
  /\ TypeOK <=> BatchTypes /\ MoneyTypes
  /\ TypeOK' <=> BatchTypes' /\ MoneyTypes'
  BY DEF TypeOK, BatchTypes, MoneyTypes

LEMMA BooksInit == Init => PayoutBooksInv
<1> SUFFICES ASSUME Init
             PROVE  PayoutBooksInv
  OBVIOUS
<1>1. PayoutInv
  BY InitHolds
<1>2. TypeOK
  <2>1. MoneyTypes
    BY DEF Init, MoneyTypes
  <2> QED
    BY <1>1, <2>1, TypesSplit DEF PayoutInv
<1>3. PostedLines
  BY DEF Init, PostedLines
<1>4. ASSUME NEW v \in Vendors
      PROVE  VendorBook(v)
  <2> DEFINE f == [p \in Periods |-> posted[p][v] * gross[p][v]]
  <2>1. \A p \in Periods : f[p] = 0
    BY DEF Init
  <2>2. PaidTo(v) = SumFunctionOnSet(f, Periods)
    BY DEF PaidTo
  <2> HIDE DEF f
  <2>3. PaidTo(v) = 0
    BY <2>1, <2>2, SumZero, PayoutsAssumption DEF PayoutsAssumption
  <2>4. ShareOf(earned, v) \in Nat
    <3>1. earned \subseteq SubOrders
      BY DEF Init
    <3> QED
      BY <3>1, ShareFacts
  <2>5. \A p \in Periods : line[p][v] \notin UnpaidStatuses
    BY DEF Init, UnpaidStatuses
  <2> QED
    BY <2>3, <2>4, <2>5 DEF VendorBook
<1> QED
  BY <1>1, <1>2, <1>3, <1>4 DEF PayoutBooksInv

-----------------------------------------------------------------------------
(* Steps that pay nothing *)

LEMMA MoneyKeepsBooks ==
  ASSUME PayoutBooksInv, PayoutInv', MoneyStep \/ UNCHANGED vars
  PROVE  PayoutBooksInv'
<1>1. UNCHANGED <<line, gross, posted, marking, considered, overlap>>
  BY DEF MoneyStep, Earn, Deliver, WindowPasses, Reverse, Hold, Release, vars, batchVars,
     lineVars, markVars
<1>2. earned \subseteq earned'
  BY DEF MoneyStep, Earn, Deliver, WindowPasses, Reverse, Hold, Release, vars, moneyVars
<1>3. MoneyTypes'
  <2>1. MoneyTypes
    BY TypesSplit DEF PayoutBooksInv
  <2>2. CASE \E s \in SubOrders : Earn(s) \/ Deliver(s) \/ WindowPasses(s) \/ Reverse(s)
    BY <1>1, <2>1, <2>2, PayoutsAssumption
    DEF Earn, Deliver, WindowPasses, Reverse, MayReverse, MoneyTypes
  <2>3. CASE \E v \in Vendors : Hold(v) \/ Release(v)
    BY <1>1, <2>1, <2>3 DEF Hold, Release, MoneyTypes, moneyVars
  <2>4. CASE UNCHANGED vars
    BY <1>1, <2>1, <2>4 DEF vars, moneyVars, MoneyTypes
  <2> QED
    BY <2>2, <2>3, <2>4 DEF MoneyStep
<1>4. TypeOK'
  BY <1>3, TypesSplit DEF PayoutInv
<1>5. PostedLines'
  BY <1>1 DEF PayoutBooksInv, PostedLines
<1>6. \A v \in Vendors : VendorBook(v)'
  <2> TAKE v \in Vendors
  <2>1. \A p \in Periods :
          /\ posted'[p][v] * gross'[p][v] = posted[p][v] * gross[p][v]
          /\ line'[p][v] \in UnpaidStatuses =>
               line[p][v] \in UnpaidStatuses /\ gross'[p][v] = gross[p][v]
    BY <1>1
  <2> QED
    BY <1>1, <1>2, <1>4, <2>1, VendorKeeps
<1> QED
  BY <1>4, <1>5, <1>6 DEF PayoutBooksInv

\* Every other action leaves the money of the sub-orders alone.
LEMMA BatchKeepsBooks ==
  ASSUME PayoutBooksInv, PayoutInv', NEW p \in Periods,
         (\E actor \in Actors : BuildBatch(p, actor)) \/ BuildCommits(p)
         \/ (\E actor \in Finance : Approve(p, actor)) \/ Export(p)
         \/ \E v \in Vendors : MarkPaid(p, v) \/ MarkPaidFails(p, v)
  PROVE  PayoutBooksInv'
<1>1. UNCHANGED <<moneyVars, holds, line, gross, posted, overlap>>
  BY DEF BuildBatch, BuildCommits, Approve, Export, MarkPaid, MarkPaidFails, batchVars,
     lineVars
<1>2. MoneyTypes'
  <2>1. MoneyTypes
    BY TypesSplit DEF PayoutBooksInv
  <2>2. considered' = considered \/ considered' = [considered EXCEPT ![p] = {}]
    BY DEF BuildBatch, BuildCommits, Approve, Export, MarkPaid, MarkPaidFails, batchVars
  <2> QED
    BY <1>1, <2>1, <2>2 DEF MoneyTypes, moneyVars
<1>3. TypeOK'
  BY <1>2, TypesSplit DEF PayoutInv
<1>4. PostedLines'
  <2>1. ASSUME NEW q \in Periods, NEW u \in Vendors, marking'[q][u] > 0
        PROVE  line[q][u] \in UnpaidStatuses
    <3>1. CASE marking'[q][u] = marking[q][u]
      BY <2>1, <3>1 DEF PayoutBooksInv, PostedLines
    <3>2. CASE marking'[q][u] # marking[q][u]
      <4>1. PICK v \in Vendors : MarkPaid(p, v) \/ MarkPaidFails(p, v)
        BY <3>2 DEF BuildBatch, BuildCommits, Approve, Export, markVars
      <4>2. marking \in [Periods -> [Vendors -> 0 .. MaxClicks]]
        BY DEF PayoutBooksInv, PayoutInv, BatchTypes
      <4>3. q = p /\ u = v
        <5>1. PICK n : marking' = [marking EXCEPT ![p][v] = n]
          BY <4>1 DEF MarkPaid, MarkPaidFails
        <5> QED
          BY <3>2, <4>2, <5>1
      <4>4. CASE MarkPaid(p, v)
        BY <4>3, <4>4 DEF MarkPaid, UnpaidStatuses
      <4>5. CASE MarkPaidFails(p, v)
        BY <4>3, <4>5 DEF MarkPaidFails, PayoutBooksInv, PostedLines
      <4> QED
        BY <4>1, <4>4, <4>5
    <3> QED
      BY <3>1, <3>2
  <2> QED
    BY <1>1, <2>1 DEF PayoutBooksInv, PostedLines
<1>5. \A v \in Vendors : VendorBook(v)'
  <2> TAKE v \in Vendors
  <2>1. \A q \in Periods :
          /\ posted'[q][v] * gross'[q][v] = posted[q][v] * gross[q][v]
          /\ line'[q][v] \in UnpaidStatuses =>
               line[q][v] \in UnpaidStatuses /\ gross'[q][v] = gross[q][v]
    BY <1>1
  <2>2. earned \subseteq earned' /\ overlap \subseteq overlap'
    BY <1>1 DEF moneyVars
  <2> QED
    BY <1>3, <2>1, <2>2, VendorKeeps
<1> QED
  BY <1>3, <1>4, <1>5 DEF PayoutBooksInv

LEMMA FailsKeepBooks ==
  ASSUME PayoutBooksInv, PayoutInv', NEW p \in Periods, NEW v \in Vendors,
         MarkFailed(p, v)
  PROVE  PayoutBooksInv'
<1>1. /\ line[p][v] = "pending"
      /\ line' = [line EXCEPT ![p][v] = "failed"]
      /\ UNCHANGED <<moneyVars, holds, considered, gross, marking, posted, overlap>>
  BY DEF MarkFailed, batchVars, markVars
<1>2. MoneyTypes'
  BY <1>1, TypesSplit DEF PayoutBooksInv, MoneyTypes, moneyVars
<1>3. TypeOK'
  BY <1>2, TypesSplit DEF PayoutInv
<1>4. \A q \in Periods, u \in Vendors :
        \/ line'[q][u] = line[q][u]
        \/ line[q][u] = "pending" /\ line'[q][u] = "failed"
  BY <1>1 DEF PayoutBooksInv, TypeOK
<1>5. PostedLines'
  BY <1>1, <1>4 DEF PayoutBooksInv, PostedLines, UnpaidStatuses
<1>6. \A u \in Vendors : VendorBook(u)'
  <2> TAKE u \in Vendors
  <2>1. \A q \in Periods :
          /\ posted'[q][u] * gross'[q][u] = posted[q][u] * gross[q][u]
          /\ line'[q][u] \in UnpaidStatuses =>
               line[q][u] \in UnpaidStatuses /\ gross'[q][u] = gross[q][u]
    BY <1>1, <1>4 DEF UnpaidStatuses
  <2>2. earned \subseteq earned' /\ overlap \subseteq overlap'
    BY <1>1 DEF moneyVars
  <2> QED
    BY <1>3, <2>1, <2>2, VendorKeeps
<1> QED
  BY <1>3, <1>5, <1>6 DEF PayoutBooksInv

\* A build that fails takes its unpaid lines back.
LEMMA BuildFailsKeepsBooks ==
  ASSUME PayoutBooksInv, PayoutInv', NEW p \in Periods, BuildFails(p)
  PROVE  PayoutBooksInv'
<1>1. /\ batch[p] = "building"
      /\ considered' = [considered EXCEPT ![p] = {}]
      /\ line' = [line EXCEPT ![p] = [v \in Vendors |-> "none"]]
      /\ gross' = [gross EXCEPT ![p] = [v \in Vendors |-> 0]]
      /\ UNCHANGED <<moneyVars, holds, marking, posted, overlap>>
  BY DEF BuildFails, markVars
<1>2. MoneyTypes'
  BY <1>1, TypesSplit DEF PayoutBooksInv, MoneyTypes, moneyVars
<1>3. TypeOK'
  BY <1>2, TypesSplit DEF PayoutInv
<1>4. /\ \A v \in Vendors : line'[p][v] = "none" /\ gross'[p][v] = 0
      /\ \A q \in Periods \ {p} : line'[q] = line[q] /\ gross'[q] = gross[q]
  BY <1>1 DEF PayoutBooksInv, TypeOK
<1>5. \A v \in Vendors : posted[p][v] = 0 /\ marking[p][v] = 0
  <2>1. \A v \in Vendors : posted[p][v] = 0
    BY <1>1 DEF PayoutBooksInv, PayoutInv, Approved, PayableStatuses
  <2> QED
    BY <1>1, <2>1, NotMarked DEF PayoutBooksInv
<1>6. PostedLines'
  BY <1>1, <1>4, <1>5 DEF PayoutBooksInv, PostedLines
<1>7. \A v \in Vendors : VendorBook(v)'
  <2> TAKE v \in Vendors
  <2>1. ASSUME NEW q \in Periods
        PROVE  /\ posted'[q][v] * gross'[q][v] = posted[q][v] * gross[q][v]
               /\ line'[q][v] \in UnpaidStatuses =>
                    line[q][v] \in UnpaidStatuses /\ gross'[q][v] = gross[q][v]
    <3>1. CASE q # p
      BY <1>1, <1>4, <3>1
    <3>2. CASE q = p
      <4>1. posted'[p][v] = 0 /\ posted[p][v] = 0
        BY <1>1, <1>5
      <4>2. posted[p][v] * gross[p][v] = 0
        BY <4>1, Settled DEF PayoutBooksInv
      <4>3. posted'[p][v] * gross'[p][v] = 0
        BY <1>4, <4>1
      <4> QED
        BY <1>4, <3>2, <4>2, <4>3 DEF UnpaidStatuses
    <3> QED
      BY <3>1, <3>2
  <2>2. earned \subseteq earned' /\ overlap \subseteq overlap'
    BY <1>1 DEF moneyVars
  <2> QED
    BY <1>3, <2>1, <2>2, VendorKeeps
<1> QED
  BY <1>3, <1>6, <1>7 DEF PayoutBooksInv

-----------------------------------------------------------------------------
(* A line is built from what is payable, and paid *)

LEMMA AvailableFits ==
  ASSUME PayoutBooksInv, NEW v \in Vendors, Available(v) > 0
  PROVE  Available(v) \in Nat /\ PaidTo(v) + Available(v) <= ShareOf(earned, v)
<1> DEFINE e == ShareOf(earned, v)
           d == ShareOf(reversed, v)
           r == ShareOf(earned \cap recent, v)
           m == PaidTo(v)
<1>1. e \in Nat /\ d \in Nat /\ r \in Nat /\ m \in Nat
  <2>1. earned \subseteq SubOrders /\ reversed \subseteq SubOrders
        /\ earned \cap recent \subseteq SubOrders
    BY DEF PayoutBooksInv, TypeOK
  <2> QED
    BY <2>1, ShareFacts, PaidToType DEF PayoutBooksInv
<1>2. Payable(v) = e - d - m /\ Reserve(v) = r
  BY DEF Payable, Reserve
<1>3. v \notin holds
  BY DEF Available
<1>4. Available(v) = IF Payable(v) > Reserve(v) THEN Payable(v) - Reserve(v) ELSE 0
  BY <1>3 DEF Available
<1> HIDE DEF e, d, r, m
<1>5. Payable(v) > Reserve(v) /\ Available(v) = e - d - m - r
  BY <1>1, <1>2, <1>4
<1>6. Available(v) \in Nat /\ m + Available(v) <= e
  BY <1>1, <1>2, <1>5
<1> QED
  BY <1>6 DEF e, m

LEMMA BuildLineKeepsBooks ==
  ASSUME PayoutBooksInv, PayoutInv', NEW p \in Periods, NEW v \in Vendors,
         BuildLine(p, v)
  PROVE  PayoutBooksInv'
<1>1. /\ batch[p] = "building"
      /\ considered' = [considered EXCEPT ![p] = @ \cup {v}]
      /\ UNCHANGED <<moneyVars, holds, marking, posted>>
  BY DEF BuildLine, markVars
<1>2. \A u \in Vendors : posted[p][u] = 0 /\ marking[p][u] = 0
  <2>1. \A u \in Vendors : posted[p][u] = 0
    BY <1>1 DEF PayoutBooksInv, PayoutInv, Approved, PayableStatuses
  <2> QED
    BY <1>1, <2>1, NotMarked DEF PayoutBooksInv
<1>3. earned \subseteq earned' /\ MoneyTypes
  BY <1>1, TypesSplit DEF PayoutBooksInv, moneyVars
<1>4. considered' \in [Periods -> SUBSET Vendors]
  BY <1>1, <1>3 DEF MoneyTypes
<1>5. CASE ~(Available(v) > 0 /\ Available(v) >= MinAmount)
  <2>1. UNCHANGED <<line, gross, overlap>>
    BY <1>5 DEF BuildLine, lineVars
  <2>2. TypeOK'
    BY <1>1, <1>3, <1>4, <2>1, TypesSplit DEF PayoutInv, MoneyTypes, moneyVars
  <2>3. PostedLines'
    BY <1>1, <2>1 DEF PayoutBooksInv, PostedLines
  <2>4. \A u \in Vendors : VendorBook(u)'
    <3> TAKE u \in Vendors
    <3>1. \A q \in Periods :
            /\ posted'[q][u] * gross'[q][u] = posted[q][u] * gross[q][u]
            /\ line'[q][u] \in UnpaidStatuses =>
                 line[q][u] \in UnpaidStatuses /\ gross'[q][u] = gross[q][u]
      BY <1>1, <2>1
    <3> QED
      BY <1>3, <2>1, <2>2, <3>1, VendorKeeps
  <2> QED
    BY <2>2, <2>3, <2>4 DEF PayoutBooksInv
<1>6. CASE Available(v) > 0 /\ Available(v) >= MinAmount
  <2>1. PICK n : n = Available(v)
    OBVIOUS
  <2>2. n \in Nat /\ PaidTo(v) + n <= ShareOf(earned, v)
    BY <1>6, <2>1, AvailableFits
  <2>3. /\ line' = [line EXCEPT ![p][v] = "pending"]
        /\ gross' = [gross EXCEPT ![p][v] = n]
        /\ overlap' = IF Unpaid(v) = {} THEN overlap ELSE overlap \cup {v}
    BY <1>6, <2>1 DEF BuildLine
  <2>4. /\ gross \in [Periods -> [Vendors -> Nat]]
        /\ line \in [Periods -> [Vendors -> {"none", "pending", "paid", "failed"}]]
    BY DEF PayoutBooksInv, TypeOK
  <2>5. /\ line'[p][v] = "pending" /\ gross'[p][v] = n
        /\ \A q \in Periods, u \in Vendors :
             q # p \/ u # v => line'[q][u] = line[q][u] /\ gross'[q][u] = gross[q][u]
    BY <2>3, <2>4
  <2>6. gross' \in [Periods -> [Vendors -> Nat]]
    BY <2>2, <2>3, <2>4
  <2>7. TypeOK'
    <3>1. overlap' \subseteq Vendors
      BY <1>3, <2>3 DEF MoneyTypes
    <3> QED
      BY <1>1, <1>3, <1>4, <2>6, <3>1, TypesSplit DEF PayoutInv, MoneyTypes, moneyVars
  <2>8. PostedLines'
    BY <1>1, <1>2, <2>5 DEF PayoutBooksInv, PostedLines
  <2>9. overlap \subseteq overlap'
    BY <2>3
  <2>10. \A q \in Periods, u \in Vendors :
           posted'[q][u] * gross'[q][u] = posted[q][u] * gross[q][u]
    <3> SUFFICES ASSUME NEW q \in Periods, NEW u \in Vendors
                 PROVE  posted'[q][u] * gross'[q][u] = posted[q][u] * gross[q][u]
      OBVIOUS
    <3>1. CASE q # p \/ u # v
      BY <1>1, <2>5, <3>1
    <3>2. CASE q = p /\ u = v
      <4>1. posted[p][v] * gross[p][v] = 0
        BY <1>2, Settled DEF PayoutBooksInv
      <4>2. posted'[p][v] * gross'[p][v] = 0
        <5>1. posted'[p][v] = 0
          BY <1>1, <1>2
        <5> QED
          BY <2>2, <2>5, <5>1
      <4> QED
        BY <3>2, <4>1, <4>2
    <3> QED
      BY <3>1, <3>2
  <2>11. ASSUME NEW u \in Vendors \ {v}
         PROVE  VendorBook(u)'
    <3>1. \A q \in Periods :
            /\ posted'[q][u] * gross'[q][u] = posted[q][u] * gross[q][u]
            /\ line'[q][u] \in UnpaidStatuses =>
                 line[q][u] \in UnpaidStatuses /\ gross'[q][u] = gross[q][u]
      BY <2>5, <2>10
    <3> QED
      BY <1>3, <2>7, <2>9, <3>1, VendorKeeps
  <2>12. VendorBook(v)'
    <3> SUFFICES ASSUME v \notin overlap'
                 PROVE  VendorBook(v)'
      BY DEF VendorBook
    <3>1. v \notin overlap /\ Unpaid(v) = {}
      BY <2>3
    <3>2. \A q \in Periods : line[q][v] \notin UnpaidStatuses
      BY <3>1 DEF Unpaid, UnpaidStatuses
    <3>3. PaidTo(v)' = PaidTo(v) /\ PaidTo(v) \in Nat
      BY <2>10, PaidToUnchanged, PaidToType DEF PayoutBooksInv
    <3>4. ShareOf(earned, v)' = ShareOf(earned, v)
      BY <1>1 DEF ShareOf, moneyVars
    <3>5. PaidTo(v) <= ShareOf(earned, v)
      BY <3>1 DEF PayoutBooksInv, VendorBook
    <3>6. \A q \in Periods : line'[q][v] \in UnpaidStatuses => q = p
      BY <2>5, <3>2
    <3>7. PaidTo(v)' + gross'[p][v] <= ShareOf(earned, v)'
      BY <2>2, <2>5, <3>3, <3>4
    <3> QED
      BY <3>3, <3>4, <3>5, <3>6, <3>7 DEF VendorBook
  <2> QED
    BY <2>7, <2>8, <2>11, <2>12 DEF PayoutBooksInv
<1> QED
  BY <1>5, <1>6

\* The line leaves what may still be paid and joins what was.
LEMMA PayingKeepsBooks ==
  ASSUME PayoutBooksInv, PayoutInv', NEW p \in Periods, NEW v \in Vendors,
         MarkPaidCommits(p, v)
  PROVE  PayoutBooksInv'
<1>1. /\ marking[p][v] > 0
      /\ marking' = [marking EXCEPT ![p][v] = @ - 1]
      /\ closing' = [closing EXCEPT ![p] = FALSE]
      /\ line' = [line EXCEPT ![p][v] = "paid"]
      /\ posted' = [posted EXCEPT ![p][v] = 1]
      /\ UNCHANGED <<moneyVars, holds, considered, gross, overlap>>
  BY DEF MarkPaidCommits
<1>2. TypeOK'
  BY <1>1, TypesSplit DEF PayoutBooksInv, PayoutInv, MoneyTypes, moneyVars
<1>3. line[p][v] \in UnpaidStatuses /\ posted[p][v] = 0
  <2>1. line[p][v] \in UnpaidStatuses
    BY <1>1 DEF PayoutBooksInv, PostedLines
  <2>2. posted[p][v] \in {0, 1}
    BY DEF PayoutBooksInv, TypeOK
  <2> QED
    BY <2>1, <2>2 DEF PayoutBooksInv, PostedLines, UnpaidStatuses
<1>4. /\ line'[p][v] = "paid" /\ posted'[p][v] = 1
      /\ \A q \in Periods, u \in Vendors :
           q # p \/ u # v => line'[q][u] = line[q][u] /\ posted'[q][u] = posted[q][u]
  BY <1>1 DEF PayoutBooksInv, TypeOK
<1>5. PostedLines'
  <2>1. /\ \A u \in Vendors : ~(marking'[p][u] > 0)
        /\ \A q \in Periods \ {p} : marking'[q] = marking[q]
    <3>1. \A u \in Vendors : marking'[p][u] = 0
      BY <1>1, UnlockFacts DEF PayoutBooksInv
    <3>2. \A q \in Periods \ {p} : marking'[q] = marking[q]
      BY <1>1, UnlockFacts DEF PayoutBooksInv
    <3>3. \A u \in Vendors : ~(marking'[p][u] > 0)
      BY <3>1
    <3> QED
      BY <3>2, <3>3
  <2> QED
    BY <1>4, <2>1 DEF PayoutBooksInv, PostedLines
<1>6. ASSUME NEW u \in Vendors \ {v}
      PROVE  VendorBook(u)'
  <2>1. \A q \in Periods :
          /\ posted'[q][u] * gross'[q][u] = posted[q][u] * gross[q][u]
          /\ line'[q][u] \in UnpaidStatuses =>
               line[q][u] \in UnpaidStatuses /\ gross'[q][u] = gross[q][u]
    BY <1>1, <1>4
  <2>2. earned \subseteq earned' /\ overlap \subseteq overlap'
    BY <1>1 DEF moneyVars
  <2> QED
    BY <1>2, <2>1, <2>2, VendorKeeps
<1>7. VendorBook(v)'
  <2> SUFFICES ASSUME v \notin overlap'
               PROVE  VendorBook(v)'
    BY DEF VendorBook
  <2>1. VendorBook(v) /\ v \notin overlap
    BY <1>1 DEF PayoutBooksInv
  <2>2. /\ PaidTo(v) + gross[p][v] <= ShareOf(earned, v)
        /\ \A q \in Periods : line[q][v] \in UnpaidStatuses => q = p
    BY <1>3, <2>1 DEF VendorBook
  <2>3. \A q \in Periods : line'[q][v] \notin UnpaidStatuses
    BY <1>4, <2>2 DEF UnpaidStatuses
  <2>4. PaidTo(v)' = PaidTo(v) + gross[p][v]
    <3> DEFINE f == [q \in Periods |-> posted[q][v] * gross[q][v]]
               g == [q \in Periods |-> posted'[q][v] * gross'[q][v]]
    <3>1. PaidTo(v) = SumFunctionOnSet(f, Periods)
          /\ PaidTo(v)' = SumFunctionOnSet(g, Periods)
      BY DEF PaidTo
    <3>2. ASSUME NEW q \in Periods
          PROVE  f[q] \in Int /\ g[q] \in Int
      <4>1. f[q] \in Nat
        BY Settled DEF PayoutBooksInv
      <4>2. posted'[q][v] \in {0, 1} /\ gross'[q][v] \in Nat
        BY <1>2 DEF TypeOK
      <4>3. CASE posted'[q][v] = 0
        BY <4>1, <4>2, <4>3
      <4>4. CASE posted'[q][v] = 1
        BY <4>1, <4>2, <4>4
      <4> QED
        BY <4>2, <4>3, <4>4
    <3>3. \A q \in Periods \ {p} : g[q] = f[q]
      BY <1>1, <1>4
    <3>4. f[p] = 0
      BY <1>3, Settled DEF PayoutBooksInv
    <3>5. g[p] = gross[p][v] /\ gross[p][v] \in Nat
      <4>1. gross'[p][v] = gross[p][v] /\ gross[p][v] \in Nat
        BY <1>1 DEF PayoutBooksInv, TypeOK
      <4> QED
        BY <1>4, <4>1
    <3> HIDE DEF f, g
    <3>6. SumFunctionOnSet(g, Periods) = SumFunctionOnSet(f, Periods) - f[p] + g[p]
      BY <3>2, <3>3, SumChange, PayoutsAssumption DEF PayoutsAssumption
    <3>7. PaidTo(v) \in Nat
      BY PaidToType DEF PayoutBooksInv
    <3> QED
      BY <3>1, <3>4, <3>5, <3>6, <3>7
  <2>5. ShareOf(earned, v)' = ShareOf(earned, v)
    BY <1>1 DEF ShareOf, moneyVars
  <2> QED
    BY <2>2, <2>3, <2>4, <2>5 DEF VendorBook
<1> QED
  BY <1>2, <1>5, <1>6, <1>7 DEF PayoutBooksInv

LEMMA BooksStep == PayoutBooksInv /\ [Next]_vars => PayoutBooksInv'
<1> SUFFICES ASSUME PayoutBooksInv, [Next]_vars
             PROVE  PayoutBooksInv'
  OBVIOUS
<1>1. PayoutInv'
  BY StepKeeps DEF PayoutBooksInv
<1>2. CASE MoneyStep \/ UNCHANGED vars
  BY <1>1, <1>2, MoneyKeepsBooks
<1>3. ASSUME NEW p \in Periods, BatchStep(p)
      PROVE  PayoutBooksInv'
  BY <1>1, <1>3, BatchKeepsBooks, BuildFailsKeepsBooks DEF BatchStep
<1>4. ASSUME NEW p \in Periods, NEW v \in Vendors, LineStep(p, v)
      PROVE  PayoutBooksInv'
  BY <1>1, <1>4, BuildLineKeepsBooks, BatchKeepsBooks, PayingKeepsBooks, FailsKeepBooks
  DEF LineStep
<1> QED
  BY <1>2, <1>3, <1>4 DEF Next

\* A vendor of whom at most one line was unpaid at a time is never paid more than it
\* earned (ledger/service.py vendor_payable, payouts.py build_batch and mark_paid),
\* whatever is earned, returned, held, built, failed and paid meanwhile.
THEOREM PayoutBooksHold == Spec => []PayoutBooks
<1>1. Init => PayoutBooksInv
  BY BooksInit
<1>2. PayoutBooksInv /\ [Next]_vars => PayoutBooksInv'
  BY BooksStep
<1>3. PayoutBooksInv => PayoutBooks
  BY DEF PayoutBooksInv, PayoutBooks, PaidIsEarned, VendorBook
<1> QED
  BY <1>1, <1>2, <1>3, PTL DEF Spec
=============================================================================
