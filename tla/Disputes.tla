------------------------------ MODULE Disputes -------------------------------
(* Disputes about sub-orders of one vendor and the payout holds they bring      *)
(* (modules/trust): the buyer opens, all sides write, staff decide, and a sweep *)
(* escalates what nobody answers.                                               *)
EXTENDS Integers, FiniteSets

CONSTANTS
    Agents,      \* requests open at the same time
    Parcels,     \* delivered sub-orders
    Cases,       \* disputes that may be opened
    MaxWords     \* messages written in total

ASSUME DisputesAssumption == MaxWords \in Nat

VARIABLES
    case,      \* disputes
    frozen,    \* the cases whose payout_holds row is not released
    job,       \* the open request of an agent
    words

disputesVars == <<case, frozen, job, words>>

Closed == {"resolved_buyer", "resolved_vendor"}
CaseStatus == {"open", "needs_vendor", "under_review"} \cup Closed
Fresh == [status |-> "none"]
Jobless == [op |-> "jobless"]
Opened(c) == case[c].status # "none"
Unsettled(c) == Opened(c) /\ case[c].status \notin Closed

DisputesInit ==
    /\ case = [c \in Cases |-> Fresh]
    /\ frozen = {}
    /\ job = [a \in Agents |-> Jobless]
    /\ words = 0

\* open_dispute() looks for an open one without a lock, ...
OpenReads(a, p) ==
    /\ job[a] = Jobless
    /\ \A c \in Cases : Unsettled(c) => case[c].parcel # p
    /\ job' = [job EXCEPT ![a] = [op |-> "open", parcel |-> p]]
    /\ UNCHANGED <<case, frozen, words>>

\* ... and uq_dispute_open_per_shipment refuses the second.  The hold is part of it.
FirstFor(p, c) == \A d \in Cases \ {c} : Unsettled(d) => case[d].parcel # p
OpenCommits(a, c) ==
    LET x == job[a] IN
    /\ x.op = "open"
    /\ ~Opened(c) /\ FirstFor(x.parcel, c)
    /\ case' = [case EXCEPT ![c] = [status |-> "open", parcel |-> x.parcel, due |-> FALSE]]
    /\ frozen' = frozen \cup {c}
    /\ job' = [job EXCEPT ![a] = Jobless]
    /\ UNCHANGED words

\* add_dispute_message(): the case was not closed when it was loaded; the status is
\* written whatever it is by then.
NextStatus == [buyer |-> "needs_vendor", vendor |-> "under_review", staff |-> "under_review"]
MessageReads(a, c, author) ==
    /\ job[a] = Jobless
    /\ Unsettled(c) /\ words < MaxWords
    /\ words' = words + 1
    /\ job' = [job EXCEPT ![a] = [op |-> "message", case |-> c, to |-> NextStatus[author]]]
    /\ UNCHANGED <<case, frozen>>

MessageCommits(a) ==
    LET x == job[a] IN
    /\ x.op = "message"
    /\ FirstFor(case[x.case].parcel, x.case)
    /\ case' = [case EXCEPT ![x.case] = [@ EXCEPT !.status = x.to]]
    /\ job' = [job EXCEPT ![a] = Jobless]
    /\ UNCHANGED <<frozen, words>>

\* Mutant: the hold stays.
Release_kept(c) == frozen

\* resolve_dispute(): whoever wins, the hold comes off.
ResolveReads(a, c, to) ==
    /\ job[a] = Jobless
    /\ Unsettled(c)
    /\ job' = [job EXCEPT ![a] = [op |-> "resolve", case |-> c, to |-> to]]
    /\ UNCHANGED <<case, frozen, words>>

Release(c) == frozen \ {c}
ResolveCommits(a) ==
    LET x == job[a] IN
    /\ x.op = "resolve"
    /\ case' = [case EXCEPT ![x.case] = [@ EXCEPT !.status = x.to]]
    /\ frozen' = Release(x.case)
    /\ job' = [job EXCEPT ![a] = Jobless]
    /\ UNCHANGED words

\* release_hold(), by staff with the right to approve payouts.
HoldReleased(c) ==
    /\ c \in frozen
    /\ frozen' = Release(c)
    /\ UNCHANGED <<case, job, words>>

\* A constraint or a crash ends a request and undoes it.
Dropped(a) ==
    /\ job[a] # Jobless
    /\ job' = [job EXCEPT ![a] = Jobless]
    /\ UNCHANGED <<case, frozen, words>>

\* dispute_response_hours run out.
ComesDue(c) ==
    /\ Opened(c) /\ ~case[c].due
    /\ case' = [case EXCEPT ![c] = [@ EXCEPT !.due = TRUE]]
    /\ UNCHANGED <<frozen, job, words>>

\* escalate_overdue_disputes(): one UPDATE of all that wait and are overdue.
Waits(c) == case[c].status \in {"open", "needs_vendor"}
\* Overlooked_opened is a mutant: only cases nobody has written in are overdue.
Overlooked_opened == {c \in Cases : case[c].status = "open" /\ case[c].due}
Overlooked == {c \in Cases : Waits(c) /\ case[c].due}
Sweep ==
    /\ Overlooked # {}
    /\ case' = [c \in Cases |->
           IF c \in Overlooked THEN [case[c] EXCEPT !.status = "under_review"] ELSE case[c]]
    /\ UNCHANGED <<frozen, job, words>>

DisputesNext ==
    \/ Sweep
    \/ \E a \in Agents :
         \/ MessageCommits(a) \/ ResolveCommits(a) \/ Dropped(a)
         \/ \E p \in Parcels : OpenReads(a, p)
         \/ \E c \in Cases :
              \/ OpenCommits(a, c)
              \/ \E author \in DOMAIN NextStatus : MessageReads(a, c, author)
              \/ \E to \in Closed : ResolveReads(a, c, to)
    \/ \E c \in Cases : HoldReleased(c) \/ ComesDue(c)

\* Time passes, and trust_sweep comes again and again: it does so to a tenant that stays
\* on trial or active.  The disputes of another wait.
DisputesFairness == WF_disputesVars(Sweep) /\ \A c \in Cases : WF_disputesVars(ComesDue(c))
DisputesSpec == DisputesInit /\ [][DisputesNext]_disputesVars
FairDisputesSpec == DisputesSpec /\ DisputesFairness

-----------------------------------------------------------------------------
\* The types of the cases and of the open requests.
DisputesTypeOK ==
    /\ case \in [Cases -> {Fresh} \cup [status : CaseStatus, parcel : Parcels, due : BOOLEAN]]
    /\ frozen \subseteq Cases /\ words \in 0 .. MaxWords
    /\ job \in [Agents ->
         {Jobless} \cup [op : {"open"}, parcel : Parcels]
         \cup [op : {"message"}, case : Cases, to : CaseStatus \ Closed]
         \cup [op : {"resolve"}, case : Cases, to : Closed]]

\* A sub-order has at most one dispute that is not settled, whichever requests open
\* one, and whichever message reopens a settled one.
OneDispute ==
    \A c, d \in Cases : c # d /\ Unsettled(c) /\ Unsettled(d) => case[c].parcel # case[d].parcel

\* A settled dispute holds no payout: not even one that was settled twice, or that a
\* message reopened in between.
HoldComesOff == \A c \in frozen : Unsettled(c)

\* A dispute the vendor does not answer in time comes before staff or is settled, where
\* the sweep goes on visiting the tenant.
OverdueEscalates == \A c \in Cases : Waits(c) ~> ~Waits(c)

\* What disputes keep in every state (trust/service.py): rows of their types, one
\* unsettled dispute of a sub-order, and no payout held by a settled one.
DisputesSafe == DisputesTypeOK /\ OneDispute /\ HoldComesOff
=============================================================================
