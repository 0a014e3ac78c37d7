------------------------------- MODULE Accounts -------------------------------
(* A tenant's customers: one-time codes, sign-in, refresh tokens and their       *)
(* families (modules/identity), and the deletion of an account on request        *)
(* (modules/mobile).  A request is a transaction: it looks and locks in one step *)
(* and commits in another.                                                       *)
EXTENDS Integers, FiniteSets

CONSTANTS
    Devices,     \* requests open at the same time
    Customers,   \* rows of users
    Handles,     \* phone numbers and e-mail addresses
    Families,    \* refresh_tokens.family_id
    Requests,    \* account_deletion_requests
    MaxCodes, MaxTries, MaxTokens

ASSUME AccountsAssumption == {MaxCodes, MaxTries} \subseteq Nat /\ MaxTokens \in Nat \ {0}

VARIABLES
    user,        \* users: status, and the handle it owns
    ordering,    \* the customers with a sub-order that is not closed
    code,        \* otp_challenges in the order of their creation
    quiet,       \* otp_resend_seconds have passed since the last one
    family,      \* the tokens of a family: how many, which are live, who and which code opened it
    erasure,     \* deletion requests
    call         \* the open request of a device

accountsVars == <<user, ordering, code, quiet, family, erasure, call>>

None == "none"
Hung == [op |-> None]
Unopened == [user |-> None]
Numbers == 1 .. MaxTokens

AccountsInit ==
    /\ user = [u \in Customers |-> [status |-> None, handle |-> None]]
    /\ ordering = {}
    /\ code = <<>>
    /\ quiet = TRUE
    /\ family = [f \in Families |-> Unopened]
    /\ erasure = [r \in Requests |-> [status |-> None]]
    /\ call = [d \in Devices |-> Hung]

Active(u) == user[u].status = "active"
Known(u) == user[u].status # None
Opened(f) == family[f] # Unopened
Places(d, c) == call[d] = Hung /\ call' = [call EXCEPT ![d] = c]
Ends(d) == call' = [call EXCEPT ![d] = Hung]

-----------------------------------------------------------------------------
\* create_otp(): not too soon after the last one it sees, ...
AsksForCode(d, h) ==
    /\ quiet
    /\ Places(d, [op |-> "ask", handle |-> h])
    /\ UNCHANGED <<user, ordering, code, quiet, family, erasure>>

\* ... which it then inserts and sends.
SendsCode(d) ==
    /\ call[d].op = "ask" /\ Cardinality(DOMAIN code) < MaxCodes
    /\ code' = [k \in DOMAIN code \cup {Cardinality(DOMAIN code) + 1} |->
           IF k \in DOMAIN code THEN code[k]
           ELSE [handle |-> call[d].handle, tries |-> 0, consumed |-> FALSE, expired |-> FALSE]]
    /\ quiet' = FALSE
    /\ Ends(d)
    /\ UNCHANGED <<user, ordering, family, erasure>>

\* Time: codes may be sent again, and expire.
Passes ==
    /\ quiet' = TRUE
    /\ \E old \in SUBSET DOMAIN code :
         code' = [k \in DOMAIN code |-> [code[k] EXCEPT !.expired = @ \/ k \in old]]
    /\ UNCHANGED <<user, ordering, family, erasure, call>>

\* The newest code of a handle that is not consumed; a verification locks it.
Newest(h) ==
    {k \in DOMAIN code : /\ code[k].handle = h /\ ~code[k].consumed
                         /\ \A j \in DOMAIN code : code[j].handle = h /\ ~code[j].consumed => j <= k}
CodeLocked(k) == \E d \in Devices : call[d].op = "verify" /\ call[d].code = k
Usable(k) == ~code[k].expired /\ code[k].tries < MaxTries

\* verify_otp() with a wrong code: the attempt is counted and committed.
WrongCode(h) ==
    /\ \E k \in Newest(h) :
         /\ ~CodeLocked(k) /\ Usable(k)
         /\ code' = [code EXCEPT ![k].tries = @ + 1]
    /\ UNCHANGED <<user, ordering, quiet, family, erasure, call>>

Owner(h) == {u \in Customers : user[u].handle = h}

\* verify_otp() with the right one, and buyer_by_phone(): the owner, or a new user.
RightCode(d, h) ==
    /\ \E k \in Newest(h), u \in Customers :
         /\ ~CodeLocked(k) /\ Usable(k)
         /\ IF Owner(h) = {} THEN ~Known(u) ELSE u \in Owner(h) /\ Active(u)
         /\ Places(d, [op |-> "verify", code |-> k, user |-> u, handle |-> h, new |-> Owner(h) = {}])
    /\ UNCHANGED <<user, ordering, code, quiet, family, erasure>>

\* register_buyer()
Registers(d, h) ==
    /\ \E u \in Customers :
         /\ ~Known(u)
         /\ Places(d, [op |-> "login", code |-> 0, user |-> u, handle |-> h, new |-> TRUE])
    /\ UNCHANGED <<user, ordering, code, quiet, family, erasure>>

\* authenticate_password()
LogsIn(d, h) ==
    /\ \E u \in Owner(h) :
         /\ Active(u)
         /\ Places(d, [op |-> "login", code |-> 0, user |-> u, handle |-> h, new |-> FALSE])
    /\ UNCHANGED <<user, ordering, code, quiet, family, erasure>>

\* uq_users_tenant_email, uq_users_tenant_phone
HandleFree(h, u) == Owner(h) = {} /\ ~Known(u)

\* issue_tokens() without a family: the first token of a new one.  The code, the user
\* and the token are one commit.
SignsIn(d, f) ==
    LET c == call[d] IN
    /\ c.op \in {"verify", "login"} /\ ~Opened(f)
    /\ c.new => HandleFree(c.handle, c.user)
    /\ user' = IF c.new THEN [user EXCEPT ![c.user] = [status |-> "active", handle |-> c.handle]] ELSE user
    /\ code' = IF c.op = "verify" THEN [code EXCEPT ![c.code].consumed = TRUE] ELSE code
    /\ family' = [family EXCEPT ![f] =
           [user |-> c.user, code |-> c.code, issued |-> 1, live |-> {1}, expired |-> FALSE]]
    /\ Ends(d)
    /\ UNCHANGED <<ordering, quiet, erasure>>

-----------------------------------------------------------------------------
\* rotate_refresh() locks the token a device brings.
Brings(f) == IF Opened(f) THEN 1 .. family[f].issued ELSE {}
TokenLocked_never(f, i) == FALSE
TokenLocked(f, i) ==
    \E d \in Devices : call[d].op = "rotate" /\ call[d].family = f /\ call[d].token = i

\* A live token of an active user: the next one is issued.
Rotates(d, f, i) ==
    /\ i \in Brings(f) /\ ~TokenLocked(f, i)
    /\ i \in family[f].live /\ ~family[f].expired /\ Active(family[f].user)
    /\ family[f].issued < MaxTokens
    /\ Places(d, [op |-> "rotate", family |-> f, token |-> i])
    /\ UNCHANGED <<user, ordering, code, quiet, family, erasure>>

Issued(f) == family[f].issued + 1
RotateCommits(d) ==
    LET f == call[d].family IN
    /\ call[d].op = "rotate"
    /\ family' = [family EXCEPT ![f].issued = Issued(f),
                                ![f].live = (@ \ {call[d].token}) \cup {Issued(f)}]
    /\ Ends(d)
    /\ UNCHANGED <<user, ordering, code, quiet, erasure>>

\* A token that was replaced or revoked comes again, or logout: revoke the family's
\* tokens the statement sees.
Revokes(d, f, i) ==
    /\ i \in Brings(f)
    /\ Places(d, [op |-> "revoke", family |-> f, seen |-> family[f].issued])
    /\ UNCHANGED <<user, ordering, code, quiet, family, erasure>>

\* The statement waits for the rows a rotation has locked.
Free(f, seen) == \A i \in 1 .. seen : ~TokenLocked(f, i)
RevokeCommits(d) ==
    LET f == call[d].family IN
    /\ call[d].op = "revoke"
    /\ Free(f, call[d].seen)
    /\ family' = [family EXCEPT ![f].live = @ \ 1 .. call[d].seen]
    /\ Ends(d)
    /\ UNCHANGED <<user, ordering, code, quiet, erasure>>

\* refresh_ttl_buyer_days run out.
FamilyExpires(f) ==
    /\ Opened(f) /\ ~family[f].expired
    /\ family' = [family EXCEPT ![f].expired = TRUE]
    /\ UNCHANGED <<user, ordering, code, quiet, erasure, call>>

-----------------------------------------------------------------------------
\* Orders of the customer, closed when they are delivered, cancelled or returned.
Orders(u) ==
    /\ Active(u)
    /\ ordering' = IF u \in ordering THEN ordering \ {u} ELSE ordering \cup {u}
    /\ UNCHANGED <<user, code, quiet, family, erasure, call>>

Pending(r) == erasure[r].status = "pending"
PendingOf(u) == {r \in Requests : Pending(r) /\ erasure[r].user = u}

\* request_deletion(): one pending request at most, and no open order.
RequestDeletion(u, r) ==
    /\ Active(u) /\ u \notin ordering
    /\ erasure[r].status = None /\ PendingOf(u) = {}
    /\ erasure' = [erasure EXCEPT ![r] = [status |-> "pending", user |-> u, due |-> FALSE]]
    /\ UNCHANGED <<user, ordering, code, quiet, family, call>>

\* anonymise_user() has locked the request.
ErasureLocked(r) == \E d \in Devices : call[d].op = "erase" /\ call[d].request = r

CancelDeletion(u) ==
    /\ \E r \in PendingOf(u) :
         /\ ~ErasureLocked(r)
         /\ erasure' = [erasure EXCEPT ![r].status = "cancelled"]
    /\ UNCHANGED <<user, ordering, code, quiet, family, call>>

GraceEnds(r) ==
    /\ Pending(r) /\ ~erasure[r].due
    /\ erasure' = [erasure EXCEPT ![r].due = TRUE]
    /\ UNCHANGED <<user, ordering, code, quiet, family, call>>

\* The families of a customer, and the tokens the statement that ends them sees.
SeenOf(u) == [f \in {g \in Families : Opened(g) /\ family[g].user = u} |-> family[f].issued]

\* run_due_deletions() takes a request that is due, complete_deletion() of the staff
\* any that is pending.
Erases(d, r, staff) ==
    /\ Pending(r) /\ (staff \/ erasure[r].due) /\ ~ErasureLocked(r)
    /\ Places(d, [op |-> "erase", request |-> r, seen |-> SeenOf(erasure[r].user)])
    /\ UNCHANGED <<user, ordering, code, quiet, family, erasure>>

Completed(r) == [erasure EXCEPT ![r].status = "completed"]

\* anonymise_user(): the person goes, the tokens it saw end, the request is complete.
EraseCommits(d) ==
    LET r == call[d].request
        u == erasure[r].user
        seen == call[d].seen IN
    /\ call[d].op = "erase"
    /\ \A f \in DOMAIN seen : Free(f, seen[f])
    /\ user' = [user EXCEPT ![u] = [status |-> "deleted", handle |-> None]]
    /\ family' = [f \in Families |->
           IF f \in DOMAIN seen THEN [family[f] EXCEPT !.live = @ \ 1 .. seen[f]] ELSE family[f]]
    /\ erasure' = Completed(r)
    /\ Ends(d)
    /\ UNCHANGED <<ordering, code, quiet>>

\* A request ends in an error or is cut off: nothing of it is kept.
HangsUp(d) ==
    /\ call[d] # Hung
    /\ Ends(d)
    /\ UNCHANGED <<user, ordering, code, quiet, family, erasure>>

DeviceActs(d) ==
    \/ \E h \in Handles : AsksForCode(d, h) \/ RightCode(d, h) \/ Registers(d, h) \/ LogsIn(d, h)
    \/ \E f \in Families : SignsIn(d, f) \/ \E i \in Numbers : Rotates(d, f, i) \/ Revokes(d, f, i)
    \/ SendsCode(d) \/ RotateCommits(d) \/ RevokeCommits(d) \/ EraseCommits(d) \/ HangsUp(d)
    \/ \E r \in Requests, staff \in BOOLEAN : Erases(d, r, staff)

AccountsNext ==
    \/ \E d \in Devices : DeviceActs(d)
    \/ \E h \in Handles : WrongCode(h)
    \/ \E u \in Customers : Orders(u) \/ CancelDeletion(u) \/ \E r \in Requests : RequestDeletion(u, r)
    \/ \E f \in Families : FamilyExpires(f)
    \/ \E r \in Requests : GraceEnds(r)
    \/ Passes

AccountsSpec == AccountsInit /\ [][AccountsNext]_accountsVars

-----------------------------------------------------------------------------
\* The types of the tables and of the open requests; a code is tried MaxTries times.
AccountsTypeOK ==
    /\ \A u \in Customers : user[u].status \in {None, "active", "deleted"} /\ user[u].handle \in Handles \cup {None}
    /\ ordering \subseteq Customers
    /\ \A k \in DOMAIN code : code[k].handle \in Handles /\ code[k].tries \in 0 .. MaxTries
    /\ \A f \in Families : Opened(f) => family[f].issued \in Numbers /\ family[f].live \subseteq Brings(f)
    /\ \A r \in Requests : erasure[r].status \in {None, "pending", "cancelled", "completed"}
    /\ \A d \in Devices : call[d].op \in {None, "ask", "verify", "login", "rotate", "revoke", "erase"}

\* A code opens one session at most, and so does every other: a phone number or an
\* e-mail address belongs to one account, whichever requests race to create it.
CodesWorkOnce ==
    /\ \A f, g \in Families :
         f # g /\ Opened(f) /\ Opened(g) /\ family[f].code # 0 => family[f].code # family[g].code
    /\ \A u, v \in Customers : u # v /\ user[u].handle = user[v].handle => user[u].handle = None

\* A session has one live token at most: of two requests with the same token one
\* gets the next, and the other ends the family.
OneLive == \A f \in Families : Opened(f) => Cardinality(family[f].live) <= 1

\* An account is deleted by one request that was carried out, and a request that was
\* cancelled is not.
DeletedOnRequest ==
    \A u \in Customers : user[u].status = "deleted" <=>
        \E r \in Requests : erasure[r].status = "completed" /\ erasure[r].user = u

\* What was decided of a deletion request stays.
DecidedStays ==
    [][\A r \in Requests : erasure[r].status \in {"cancelled", "completed"} =>
           erasure'[r].status = erasure[r].status]_accountsVars

\* What accounts keep (identity/service.py, mobile/service.py): rows of their types, a
\* code and a handle used once, one live token of a session, a deletion on request only,
\* and decisions that stay.
AccountsSafe ==
    /\ [](AccountsTypeOK /\ CodesWorkOnce /\ OneLive /\ DeletedOnRequest)
    /\ DecidedStays
=============================================================================
