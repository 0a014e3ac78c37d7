--------------------------------- MODULE Team ---------------------------------
(* Who works for a tenant and who for one of its vendors (identity/staff_router): *)
(* invitations, roles and access.  A handler looks at the member without a lock,  *)
(* and writes the columns it changes when it commits.                             *)
EXTENDS Integers, FiniteSets

CONSTANTS
    People,      \* users; Founder owns the shop and the vendor
    Founder,
    Seats,       \* staff the plan allows
    MaxActs      \* handlers begun

ASSUME TeamAssumption == Founder \in People /\ {Seats, MaxActs} \subseteq Nat

VARIABLES
    staff,       \* staff_members of the tenant
    crew,        \* vendor_users of the vendor
    act,         \* the open request of a person
    acts,
    raisedBy     \* ghost: the role of whoever gave a member of the crew its role

teamVars == <<staff, crew, act, acts, raisedBy>>

Nobody == [role |-> "none", status |-> "active"]
Boss == [role |-> "owner", status |-> "active"]
AtRest == [op |-> "rest"]
Serves(rows, p) == rows[p].role # "none" /\ rows[p].status = "active"
StaffRoles == {"support", "finance"}
CrewRoles == {"manager", "staff"}

TeamInit ==
    /\ staff = [p \in People |-> IF p = Founder THEN Boss ELSE Nobody]
    /\ crew = [p \in People |-> IF p = Founder THEN Boss ELSE Nobody]
    /\ act = [p \in People |-> AtRest]
    /\ acts = 0
    /\ raisedBy = [p \in People |-> IF p = Founder THEN "owner" ELSE "none"]

\* A request writes the columns that differ from what it loaded.
Column(new, loaded) == IF new = loaded THEN "kept" ELSE new
Written(column, now) == IF column = "kept" THEN now ELSE column
Patch(row, a) == [role |-> Written(a.role, row.role), status |-> Written(a.status, row.status)]
Patched(op, as, row, q, role, status) ==
    [op |-> op, as |-> as, who |-> q,
     role |-> Column(role, row.role), status |-> Column(status, row.status)]

Starts(p, a) ==
    /\ act[p] = AtRest /\ acts < MaxActs
    /\ act' = [act EXCEPT ![p] = a]
    /\ acts' = acts + 1
    /\ UNCHANGED <<staff, crew, raisedBy>>

\* invite_staff(): not as an owner, and while the plan has a seat.
InvitesStaff(p, q, role) ==
    /\ staff[p] = Boss
    /\ Cardinality({m \in People : Serves(staff, m)}) < Seats
    /\ Starts(p, [op |-> "invite", who |-> q, role |-> role])

\* UNIQUE (tenant_id, user_id)
InviteCommits(p) ==
    LET a == act[p] IN
    /\ a.op = "invite" /\ staff[a.who] = Nobody
    /\ staff' = [staff EXCEPT ![a.who] = [role |-> a.role, status |-> "active"]]
    /\ act' = [act EXCEPT ![p] = AtRest]
    /\ UNCHANGED <<crew, acts, raisedBy>>

\* update_staff(): neither the owner nor oneself.
StaffMayChange(p, q) == staff[q].role \notin {"none", "owner"} /\ q # p

UpdatesStaff(p, q, role, status) ==
    /\ staff[p] = Boss
    /\ StaffMayChange(p, q)
    /\ Starts(p, Patched("staff", staff[p].role, staff[q], q, role, status))

StaffCommits(p) ==
    LET a == act[p] IN
    /\ a.op = "staff"
    /\ staff' = [staff EXCEPT ![a.who] = Patch(@, a)]
    /\ act' = [act EXCEPT ![p] = AtRest]
    /\ UNCHANGED <<crew, acts, raisedBy>>

-----------------------------------------------------------------------------
\* current_vendor(): membership is looked up again on every request; only the owner
\* and managers manage the crew.
Manages(p) == Serves(crew, p) /\ crew[p].role \in {"owner", "manager"}

\* add_vendor_staff(): only the owner adds managers.
AddsCrew(p, q, role) ==
    /\ Manages(p)
    /\ crew[p].role = "manager" => role # "manager"
    /\ Starts(p, [op |-> "add", who |-> q, role |-> role, as |-> crew[p].role])

\* UNIQUE (tenant_id, vendor_id, user_id)
AddCommits(p) ==
    LET a == act[p] IN
    /\ a.op = "add" /\ crew[a.who] = Nobody
    /\ crew' = [crew EXCEPT ![a.who] = [role |-> a.role, status |-> "active"]]
    /\ raisedBy' = [raisedBy EXCEPT ![a.who] = a.as]
    /\ act' = [act EXCEPT ![p] = AtRest]
    /\ UNCHANGED <<staff, acts>>

CrewMayChange_role(p, q, role) ==
    /\ crew[q].role # "none" /\ crew[q].role # "owner" /\ q # p
    /\ crew[p].role = "manager" => crew[q].role # "manager"
\* update_vendor_staff(): not the owner, not oneself, and managers only by the owner.
CrewMayChange(p, q, role) ==
    /\ crew[q].role # "none" /\ crew[q].role # "owner" /\ q # p
    /\ crew[p].role = "manager" => crew[q].role # "manager" /\ role # "manager"

UpdatesCrew(p, q, role, status) ==
    /\ Manages(p)
    /\ CrewMayChange(p, q, role)
    /\ Starts(p, Patched("crew", crew[p].role, crew[q], q, role, status))

CrewCommits(p) ==
    LET a == act[p] IN
    /\ a.op = "crew"
    /\ crew' = [crew EXCEPT ![a.who] = Patch(@, a)]
    /\ raisedBy' = IF a.role = "kept" THEN raisedBy ELSE [raisedBy EXCEPT ![a.who] = a.as]
    /\ act' = [act EXCEPT ![p] = AtRest]
    /\ UNCHANGED <<staff, acts>>

\* The request fails.
Gives(p) ==
    /\ act[p] # AtRest
    /\ act' = [act EXCEPT ![p] = AtRest]
    /\ UNCHANGED <<staff, crew, acts, raisedBy>>

Access == {"active", "disabled"}
TeamNext ==
    \E p \in People :
        \/ InviteCommits(p) \/ StaffCommits(p) \/ AddCommits(p) \/ CrewCommits(p) \/ Gives(p)
        \/ \E q \in People :
             \/ \E role \in StaffRoles :
                  \/ InvitesStaff(p, q, role)
                  \/ \E status \in Access : UpdatesStaff(p, q, role, status)
             \/ \E role \in CrewRoles :
                  \/ AddsCrew(p, q, role)
                  \/ \E status \in Access : UpdatesCrew(p, q, role, status)

TeamSpec == TeamInit /\ [][TeamNext]_teamVars

-----------------------------------------------------------------------------
\* The types of the members and of the open requests.
TeamTypeOK ==
    /\ \A p \in People :
         /\ staff[p].role \in {"none", "owner"} \cup StaffRoles /\ staff[p].status \in Access
         /\ crew[p].role \in {"none", "owner"} \cup CrewRoles /\ crew[p].status \in Access
         /\ act[p].op \in {"rest", "invite", "staff", "add", "crew"}
    /\ acts \in 0 .. MaxActs

\* The shop and the vendor always have one owner, with access: whatever was begun.
OneOwner ==
    /\ staff[Founder] = Boss /\ crew[Founder] = Boss
    /\ \A p \in People \ {Founder} : staff[p].role # "owner" /\ crew[p].role # "owner"

\* A manager was made one by the owner, also when requests on a member cross.
ManagersByOwner == \A p \in People : crew[p].role = "manager" => raisedBy[p] = "owner"

\* What the staff and the crew keep in every state (identity/staff_router.py): rows of
\* their types, one owner of each, and managers the owner made.
TeamSafe == TeamTypeOK /\ OneOwner /\ ManagersByOwner
=============================================================================
