------------------------------- MODULE Vendors -------------------------------
(* Vendors of a tenant: signup with invitations, documents, and the lifecycle   *)
(* whose every transition leaves an event.  A request is a transaction of a     *)
(* clerk (a vendor's owner or the tenant's staff).                              *)
EXTENDS Integers, Sequences, FiniteSets

CONSTANTS
    Clerks,      \* requests open at the same time
    Shops,       \* who may apply
    Papers,      \* documents a shop can upload, all of the one required type
    MaxUses,     \* of the invitation
    PlanLimit,      \* vendors the plan allows
    MaxEvents    \* length of each shop's history

ASSUME VendorsAssumption == {MaxUses, PlanLimit} \subseteq Nat /\ MaxEvents \in [Shops -> Nat]

VARIABLES
    status,    \* vendors.status, "none" before the signup
    events,    \* vendor_events of a shop
    paper,     \* vendor_documents.status
    vetted,    \* shops that have had an approved document at some time
    used,      \* vendor_invite_codes.used_count
    guests,    \* shops that signed up with the invitation
    deed        \* the open transaction of a clerk

shopRows == <<status, events>>
invitation == <<used, guests>>
vendorsVars == <<shopRows, paper, vetted, invitation, deed>>

Off == [op |-> "off"]
VendorStatus == {"registered", "documents_submitted", "under_review", "changes_requested",
                 "approved", "rejected", "suspended", "closed"}

\* TRANSITIONS: the statuses from which staff may move a vendor.
AllowedFrom(to) ==
    CASE to = "documents_submitted" -> {"registered", "changes_requested"}
      [] to = "under_review"        -> {"documents_submitted"}
      [] to = "changes_requested"   -> {"under_review"}
      [] to = "approved"            -> {"under_review", "suspended"}
      [] to = "rejected"            -> {"under_review", "documents_submitted"}
      [] to = "suspended"           -> {"approved"}
      [] to = "closed"              -> {"approved", "suspended", "rejected", "registered",
                                        "changes_requested"}
StaffMoves == VendorStatus \ {"registered", "documents_submitted", "under_review"}

HasPaper(v, S) == \E k \in Papers : paper[v][k] \in S

-----------------------------------------------------------------------------
VendorsInit ==
    /\ status = [v \in Shops |-> "none"]
    /\ events = [v \in Shops |-> <<>>]
    /\ paper = [v \in Shops |-> [k \in Papers |-> "none"]]
    /\ vetted = {}
    /\ used = 0
    /\ guests = {}
    /\ deed = [c \in Clerks |-> Off]

\* vendor_signup(): the invitation is locked and checked, the plan's places are counted.
InviteLocked(c) == \E d \in Clerks \ {c} : deed[d].op = "signup" /\ deed[d].invited
SignupReads(c, v, invited) ==
    /\ deed[c] = Off
    /\ status[v] = "none"
    /\ invited => ~InviteLocked(c) /\ used < MaxUses
    /\ Cardinality({x \in Shops : status[x] \notin {"none", "closed", "rejected"}}) < PlanLimit
    /\ deed' = [deed EXCEPT ![c] = [op |-> "signup", shop |-> v, invited |-> invited]]
    /\ UNCHANGED <<shopRows, paper, vetted, invitation>>

\* The slug is unique: a second signup of the same shop is refused.
SignupCommits(c) ==
    LET x == deed[c] IN
    /\ x.op = "signup"
    /\ status[x.shop] = "none"
    /\ status' = [status EXCEPT ![x.shop] = "registered"]
    /\ used' = IF x.invited THEN used + 1 ELSE used
    /\ guests' = IF x.invited THEN guests \cup {x.shop} ELSE guests
    /\ deed' = [deed EXCEPT ![c] = Off]
    /\ UNCHANGED <<events, paper, vetted>>

\* register_document() reads the vendor's status without a lock.
DocumentReads(c, v) ==
    /\ deed[c] = Off
    /\ status[v] \in {"registered", "changes_requested", "approved"}
    /\ deed' = [deed EXCEPT ![c] = [op |-> "upload", shop |-> v]]
    /\ UNCHANGED <<shopRows, paper, vetted, invitation>>

DocumentCommits(c, k) ==
    LET x == deed[c] IN
    /\ x.op = "upload"
    /\ paper[x.shop][k] = "none"
    /\ paper' = [paper EXCEPT ![x.shop] = [@ EXCEPT ![k] = "pending"]]
    /\ deed' = [deed EXCEPT ![c] = Off]
    /\ UNCHANGED <<shopRows, vetted, invitation>>

\* review_document(): one UPDATE, whatever the document's status was.
ReviewDocument(v, k, to) ==
    /\ paper[v][k] # "none" /\ paper[v][k] # to
    /\ paper' = [paper EXCEPT ![v] = [@ EXCEPT ![k] = to]]
    /\ vetted' = IF to = "approved" THEN vetted \cup {v} ELSE vetted
    /\ UNCHANGED <<shopRows, invitation, deed>>

\* Mutant: documents are there, but nobody looks whether they are approved.
MayApprove_present(v) == HasPaper(v, {"pending", "approved"}) \/ status[v] = "suspended"

\* submit_onboarding() and transition_vendor() look first, without a lock: all
\* documents there, and for an approval all of them approved unless suspended.
CanSubmit(v) ==
    /\ status[v] \in {"registered", "changes_requested"}
    /\ HasPaper(v, {"pending", "approved"})
MayApprove(v) == HasPaper(v, {"approved"}) \/ status[v] = "suspended"

MoveChecks(c, v, to) ==
    /\ deed[c] = Off
    /\ status[v] # "none"
    /\ to = "documents_submitted" => CanSubmit(v)
    /\ to = "approved" => MayApprove(v)
    /\ deed' = [deed EXCEPT ![c] = [op |-> "move", shop |-> v, to |-> to]]
    /\ UNCHANGED <<shopRows, paper, vetted, invitation>>

\* transition(): SELECT ... FOR UPDATE, and the decision on what it read.
VendorLocked(v) == \E d \in Clerks : deed[d].op = "locked" /\ deed[d].shop = v
MoveLocks(c) ==
    LET x == deed[c] IN
    /\ x.op = "move"
    /\ ~VendorLocked(x.shop)
    /\ status[x.shop] \in AllowedFrom(x.to)
    /\ deed' = [deed EXCEPT ![c] =
           [op |-> "locked", shop |-> x.shop, to |-> x.to, from |-> status[x.shop]]]
    /\ UNCHANGED <<shopRows, paper, vetted, invitation>>

\* A submission goes on to under_review in the same transaction.
Steps(x) ==
    IF x.to = "documents_submitted"
    THEN <<[from |-> x.from, to |-> x.to], [from |-> x.to, to |-> "under_review"]>>
    ELSE <<[from |-> x.from, to |-> x.to]>>
MoveCommits(c) ==
    LET x == deed[c] IN
    /\ x.op = "locked"
    /\ Len(events[x.shop] \o Steps(x)) <= MaxEvents[x.shop]
    /\ status' = [status EXCEPT ![x.shop] = Steps(x)[Len(Steps(x))].to]
    /\ events' = [events EXCEPT ![x.shop] = @ \o Steps(x)]
    /\ deed' = [deed EXCEPT ![c] = Off]
    /\ UNCHANGED <<paper, vetted, invitation>>

\* A conflict, a constraint or a crash ends the request and undoes it.
ClerkFails(c) ==
    /\ deed[c] # Off
    /\ deed' = [deed EXCEPT ![c] = Off]
    /\ UNCHANGED <<shopRows, paper, vetted, invitation>>

VendorsNext ==
    \/ \E c \in Clerks :
         \/ SignupCommits(c) \/ MoveLocks(c) \/ MoveCommits(c) \/ ClerkFails(c)
         \/ \E k \in Papers : DocumentCommits(c, k)
         \/ \E v \in Shops :
              \/ \E invited \in BOOLEAN : SignupReads(c, v, invited)
              \/ DocumentReads(c, v)
              \/ \E to \in StaffMoves \cup {"documents_submitted"} : MoveChecks(c, v, to)
    \/ \E v \in Shops, k \in Papers, to \in {"approved", "rejected"} : ReviewDocument(v, k, to)

VendorsSpec == VendorsInit /\ [][VendorsNext]_vendorsVars

-----------------------------------------------------------------------------
Event == [from : VendorStatus, to : VendorStatus]

\* The types of the rows and of the open requests.
VendorsTypeOK ==
    /\ status \in [Shops -> VendorStatus \cup {"none"}]
    /\ events \in [Shops -> Seq(Event)]
    /\ paper \in [Shops -> [Papers -> {"none", "pending", "approved", "rejected"}]]
    /\ vetted \subseteq Shops /\ guests \subseteq Shops /\ used \in Nat
    /\ deed \in [Clerks ->
         {Off} \cup [op : {"signup"}, shop : Shops, invited : BOOLEAN]
         \cup [op : {"upload"}, shop : Shops] \cup [op : {"move"}, shop : Shops, to : VendorStatus]
         \cup [op : {"locked"}, shop : Shops, to : VendorStatus, from : VendorStatus]]

\* The events of a vendor tell its whole history, however many requests moved it at
\* the same time: each starts where the one before ended, and the last one ends at
\* the vendor's status.
TrailExplains ==
    \A v \in Shops :
        LET e == events[v] IN
        /\ \A i \in 1 .. Len(e) :
             /\ e[i].from \in AllowedFrom(e[i].to)
             /\ e[i].from = IF i = 1 THEN "registered" ELSE e[i - 1].to
        /\ status[v] # "none" => status[v] = IF e = <<>> THEN "registered" ELSE e[Len(e)].to

\* No shop trades unseen: one that is or was approved has had a required document
\* approved, although documents change while an approval is under way, and although
\* a suspended vendor is approved again without them.
ApprovedWasVetted ==
    \A v \in Shops : status[v] \in {"approved", "suspended"} => v \in vetted

\* An invitation lets in as many shops as it has uses, however many apply at once.
InvitationHolds == used = Cardinality(guests) /\ used <= MaxUses

\* What onboarding keeps in every state (vendors/lifecycle.py, onboarding.py): rows of
\* their types, a trail that explains the status, no approval of documents nobody
\* vetted, and invitations that hold.
VendorsSafe == VendorsTypeOK /\ TrailExplains /\ ApprovedWasVetted /\ InvitationHolds
=============================================================================
