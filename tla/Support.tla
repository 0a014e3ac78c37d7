------------------------------- MODULE Support -------------------------------
(* Support tickets of a store (modules/notifications/support.py): a thread of      *)
(* messages, whose status says who is waited for.  A request is a transaction; an  *)
(* UPDATE holds its row until the commit.                                          *)
EXTENDS Integers, FiniteSets

CONSTANTS
    Callers,     \* requests open at the same time
    Tickets,     \* tickets that are ever opened
    MaxPosts     \* messages and changes of status after those tickets are born with

ASSUME SupportAssumption == MaxPosts \in Nat /\ IsFiniteSet(Tickets)

VARIABLES
    nextNumber,  \* tenant_settings.next_ticket_number
    ticket,      \* number (0: no row), status, responded: first_response_at is set
    posted,      \* ticket_messages of a ticket: how many public ones of each kind
    lastWord,    \* ghost: who wrote its last public message that was committed
    byHand,      \* ghost: the status was last set by staff, not by a message
    caller,      \* the open request
    postsMade    \* messages and changes so far

ticketVars == <<nextNumber, ticket, posted, lastWord, byHand>>
supportVars == <<ticketVars, caller, postsMade>>

Kinds == {"customer", "staff"}
TicketStatus == {"open", "pending_customer", "pending_staff", "resolved", "closed"}
NoTicket == [number |-> 0, status |-> "open", responded |-> FALSE]
NoCall == [op |-> "none"]
Calls(c) == caller[c] # NoCall
HangUp(c) == caller' = [caller EXCEPT ![c] = NoCall]
Says(c, req) == caller' = [caller EXCEPT ![c] = req]
Exists(t) == ticket[t].number # 0

SupportInit ==
    /\ nextNumber = 1
    /\ ticket = [t \in Tickets |-> NoTicket]
    /\ posted = [t \in Tickets |-> [k \in Kinds |-> 0]]
    /\ lastWord = [t \in Tickets |-> "nobody"] /\ byHand = [t \in Tickets |-> FALSE]
    /\ caller = [c \in Callers |-> NoCall] /\ postsMade = 0

\* Mutant: the counter is read without its lock.
CounterHeld_never == FALSE

\* The UPDATE of next_ticket_number holds the tenant's settings.
CounterHeld == \E c \in Callers : Calls(c) /\ caller[c].op = "create"

\* create_ticket(): the number is taken, the ticket inserted with the message it is
\* born with.  A request that fails gives the number back.
OpensTicket(c, t) ==
    /\ ~Calls(c) /\ ~Exists(t) /\ ~CounterHeld
    /\ \A d \in Callers : Calls(d) => caller[d].about # t
    /\ Says(c, [op |-> "create", about |-> t, number |-> nextNumber])
    /\ UNCHANGED <<ticketVars, postsMade>>
TicketCommits(c) ==
    LET x == caller[c] IN
    /\ Calls(c) /\ x.op = "create"
    /\ nextNumber' = x.number + 1
    /\ ticket' = [ticket EXCEPT ![x.about].number = x.number]
    /\ posted' = [posted EXCEPT ![x.about]["customer"] = 1]
    /\ lastWord' = [lastWord EXCEPT ![x.about] = "customer"]
    /\ HangUp(c)
    /\ UNCHANGED <<byHand, postsMade>>

\* add_message(): the status is read without a lock, and a closed ticket refused.
WordReads(c, t) ==
    /\ ~Calls(c) /\ Exists(t) /\ ticket[t].status # "closed"
    /\ \E kind \in Kinds, internal \in BOOLEAN :
         /\ internal => kind = "staff"
         /\ Says(c, [op |-> "add", about |-> t, kind |-> kind, internal |-> internal,
                     responded |-> ticket[t].responded, written |-> FALSE])
    /\ UNCHANGED <<ticketVars, postsMade>>

TicketHeld(t) == \E d \in Callers : Calls(d) /\ caller[d].op = "add" /\ caller[d].about = t /\ caller[d].written

\* A note among the staff is inserted and nothing else.
Moves(x) == ~x.internal
WordWrites(c) ==
    LET x == caller[c] IN
    /\ Calls(c) /\ x.op = "add" /\ ~x.written /\ Moves(x) /\ ~TicketHeld(x.about)
    /\ Says(c, [x EXCEPT !.written = TRUE])
    /\ UNCHANGED <<ticketVars, postsMade>>

\* The row is judged as the UPDATE finds it.
Responded(x) == ticket[x.about].responded \/ x.kind = "staff"
Awaits(kind) == IF kind = "staff" THEN "pending_customer" ELSE "pending_staff"
WordCommits(c) ==
    LET x == caller[c] IN
    /\ Calls(c) /\ x.op = "add" /\ (x.written \/ ~Moves(x)) /\ postsMade < MaxPosts
    /\ IF Moves(x)
       THEN /\ ticket' = [ticket EXCEPT ![x.about].status = Awaits(x.kind),
                                        ![x.about].responded = Responded(x)]
            /\ byHand' = [byHand EXCEPT ![x.about] = FALSE]
       ELSE UNCHANGED <<ticket, byHand>>
    /\ IF x.internal
       THEN UNCHANGED <<posted, lastWord>>
       ELSE /\ posted' = [posted EXCEPT ![x.about][x.kind] = @ + 1]
            /\ lastWord' = [lastWord EXCEPT ![x.about] = x.kind]
    /\ HangUp(c) /\ postsMade' = postsMade + 1
    /\ UNCHANGED nextNumber

\* set_status(): any status after any other.
SetStatus(t) ==
    /\ Exists(t) /\ ~TicketHeld(t) /\ postsMade < MaxPosts
    /\ \E to \in TicketStatus : ticket' = [ticket EXCEPT ![t].status = to]
    /\ byHand' = [byHand EXCEPT ![t] = TRUE] /\ postsMade' = postsMade + 1
    /\ UNCHANGED <<nextNumber, posted, lastWord, caller>>

CallerFails(c) ==
    /\ Calls(c) /\ HangUp(c)
    /\ UNCHANGED <<ticketVars, postsMade>>

SupportNext ==
    \/ \E t \in Tickets : SetStatus(t)
    \/ \E c \in Callers :
         \/ TicketCommits(c) \/ WordWrites(c) \/ WordCommits(c) \/ CallerFails(c)
         \/ \E t \in Tickets : OpensTicket(c, t) \/ WordReads(c, t)

SupportSpec == SupportInit /\ [][SupportNext]_supportVars

-----------------------------------------------------------------------------
\* The types of the rows.
SupportTypeOK ==
    /\ nextNumber \in 1 .. Cardinality(Tickets) + 1
    /\ ticket \in [Tickets -> [number : 0 .. Cardinality(Tickets), status : TicketStatus, responded : BOOLEAN]]
    /\ posted \in [Tickets -> [Kinds -> Nat]]
    /\ lastWord \in [Tickets -> Kinds \cup {"nobody"}] /\ byHand \in [Tickets -> BOOLEAN]
    /\ postsMade \in 0 .. MaxPosts

\* The numbers of a store's tickets are 1, 2, ... without a gap or a second use, though
\* requests overlap and fail.
TicketNumbers ==
    LET Numbers == {ticket[t].number : t \in {u \in Tickets : Exists(u)}} IN
    /\ Numbers = 1 .. nextNumber - 1
    /\ Cardinality({t \in Tickets : Exists(t)}) = nextNumber - 1

\* The clock of the first response stopped when the customer could read an answer, and
\* only then: a note among the staff does not stop it, and an overlapping reply does not
\* start it again.
FirstResponse == \A t \in Tickets : ticket[t].responded <=> posted[t]["staff"] > 0

\* The status waits for whoever did not write last, unless staff set it by hand.
WaitsForTheOther ==
    \A t \in Tickets : ~byHand[t] =>
        \/ ticket[t].status = "open" /\ ~ticket[t].responded
        \/ ticket[t].status = Awaits(lastWord[t])

\* What support keeps in every state (notifications/support.py): rows of their types,
\* numbers without gaps, the first response, and a status that waits for the other.
SupportSafe == SupportTypeOK /\ TicketNumbers /\ FirstResponse /\ WaitsForTheOther
=============================================================================
