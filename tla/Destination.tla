----------------------------- MODULE Destination -----------------------------
(* Where a vendor's payouts go: the owner proves a one-time code, spends the    *)
(* token she got for it on one change, and payouts pause after the change.      *)
EXTENDS Integers, FiniteSets

CONSTANTS
    Tabs,         \* the owner's requests, open at the same time
    Tokens,       \* the re-authentications she makes
    Clock,        \* the last moment
    ReauthTtl, HoldTime,
    MaxChanges    \* destinations the vendor has over time

ASSUME DestinationAssumption == {Clock, ReauthTtl, HoldTime, MaxChanges} \subseteq Nat

VARIABLES
    clock,
    token,     \* when the token was issued, Never before
    key,       \* redis: until when the token is known to be used
    tab,       \* the request and its transaction
    dest,      \* the active vendor_payout_methods row, 0 for none
    spent,     \* the token each destination was set with
    hold,      \* payout_holds of each destination
    draft,     \* the payout batch being drafted: the destination it has read
    line       \* the destinations payout lines were drafted for

destinationVars == <<clock, token, key, tab, dest, spent, hold, draft, line>>

Never == -1
Resting == [step |-> "resting"]
NoHold == [until |-> Never, released |-> FALSE]
Destinations == 1 .. MaxChanges
Made == {n \in Destinations : spent[n] # {}}

DestinationInit ==
    /\ clock = 0
    /\ token = [t \in Tokens |-> Never]
    /\ key = [t \in Tokens |-> Never]
    /\ tab = [b \in Tabs |-> Resting]
    /\ dest = 0
    /\ spent = [n \in Destinations |-> {}]
    /\ hold = [n \in Destinations |-> NoHold]
    /\ draft = Never
    /\ line = {}

Tick == clock < Clock /\ clock' = clock + 1
        /\ UNCHANGED <<token, key, tab, dest, spent, hold, draft, line>>

\* reauth_verify(): the code was right.
Reauth(t) ==
    /\ token[t] = Never
    /\ token' = [token EXCEPT ![t] = clock]
    /\ UNCHANGED <<clock, key, tab, dest, spent, hold, draft, line>>

\* _consume_reauth(): a token that is not too old, and SET NX of the key of its use.
Expired(t) == clock >= token[t] + ReauthTtl
KeyFree(t) == key[t] <= clock
Consume(b, t) ==
    /\ tab[b] = Resting
    /\ token[t] # Never /\ ~Expired(t)
    /\ KeyFree(t)
    /\ key' = [key EXCEPT ![t] = clock + ReauthTtl]
    /\ tab' = [tab EXCEPT ![b] = [step |-> "granted", token |-> t]]
    /\ UNCHANGED <<clock, token, dest, spent, hold, draft, line>>

\* set_payout_method() locks the active row; one that was replaced while it waited
\* for the lock is gone, and the new one is not in its snapshot.
RowLocked == \E b \in Tabs : tab[b].step = "writing" /\ tab[b].previous = dest /\ dest # 0
LockRow(b) ==
    /\ tab[b].step = "granted"
    /\ \E previous \in (IF RowLocked THEN {0} ELSE {dest}) :
         tab' = [tab EXCEPT ![b] =
             [step |-> "writing", token |-> tab[b].token, previous |-> previous]]
    /\ UNCHANGED <<clock, token, key, dest, spent, hold, draft, line>>

\* uq_payout_method_active: no second active row.
OnlyActive(x) == dest = x.previous
SetMethod(b) ==
    LET x == tab[b] IN
    /\ x.step = "writing"
    /\ OnlyActive(x)
    /\ \E n \in Destinations \ Made :
         /\ 1 .. (n - 1) \subseteq Made
         /\ dest' = n
         /\ spent' = [spent EXCEPT ![n] = {x.token}]
         /\ hold' = IF x.previous = 0 THEN hold
                    ELSE [hold EXCEPT ![n] = [until |-> clock + HoldTime, released |-> FALSE]]
    /\ tab' = [tab EXCEPT ![b] = Resting]
    /\ UNCHANGED <<clock, token, key, draft, line>>

\* The request fails after it has used up its token.
TabFails(b) ==
    /\ tab[b] # Resting
    /\ tab' = [tab EXCEPT ![b] = Resting]
    /\ UNCHANGED <<clock, token, key, dest, spent, hold, draft, line>>

\* release_hold(), by staff.
ReleaseHold(n) ==
    /\ hold[n] # NoHold /\ ~hold[n].released
    /\ hold' = [hold EXCEPT ![n] = [@ EXCEPT !.released = TRUE]]
    /\ UNCHANGED <<clock, token, key, tab, dest, spent, draft, line>>

\* draft_batch() joins the destinations in one query, and asks for the holds of
\* each vendor in a later one.
DraftReads ==
    /\ draft = Never /\ dest # 0
    /\ draft' = dest
    /\ UNCHANGED <<clock, token, key, tab, dest, spent, hold, line>>

\* OnHold_never is a mutant: the holds are forgotten.
Holding(n) == hold[n] # NoHold /\ ~hold[n].released /\ hold[n].until > clock
OnHold_never == FALSE
OnHold == \E n \in Destinations : Holding(n)
DraftWrites ==
    /\ draft # Never
    /\ line' = IF OnHold THEN line ELSE line \cup {draft}
    /\ draft' = Never
    /\ UNCHANGED <<clock, token, key, tab, dest, spent, hold>>

DestinationNext ==
    \/ Tick \/ DraftReads \/ DraftWrites
    \/ \E t \in Tokens : Reauth(t)
    \/ \E b \in Tabs : LockRow(b) \/ SetMethod(b) \/ TabFails(b) \/ \E t \in Tokens : Consume(b, t)
    \/ \E n \in Destinations : ReleaseHold(n)

DestinationSpec == DestinationInit /\ [][DestinationNext]_destinationVars

-----------------------------------------------------------------------------
\* The types of the rows, of the keys and of the open requests.
DestinationTypeOK ==
    /\ clock \in 0 .. Clock
    /\ token \in [Tokens -> {Never} \cup 0 .. Clock]
    /\ key \in [Tokens -> {Never} \cup Nat]
    /\ tab \in [Tabs -> {Resting} \cup [step : {"granted"}, token : Tokens]
                        \cup [step : {"writing"}, token : Tokens, previous : 0 .. MaxChanges]]
    /\ dest \in 0 .. MaxChanges
    /\ spent \in [Destinations -> SUBSET Tokens]
    /\ hold \in [Destinations -> [until : {Never} \cup Nat, released : BOOLEAN]]
    /\ draft \in {Never} \cup Destinations /\ line \subseteq Destinations

\* One proof of the owner's phone changes the destination once, however many
\* requests present the token and although the key of its use expires.
OneChangePerProof == \A m, n \in Made : m # n => spent[m] \cap spent[n] = {}

\* Every destination that took the place of another brought its hold, also when two
\* changes race: nobody replaces a destination as if it were the first.
ReplacementIsHeld == \A n \in Made : n # 1 => hold[n] # NoHold

\* No payout is drafted for a destination that took the place of another, unless its
\* hold has run out or staff released it.
OnlySeasoned ==
    [][\A n \in line' \ line : ~Holding(n) /\ (n # 1 => hold[n] # NoHold)]_destinationVars

\* What protects a vendor's payout destination (vendors/onboarding.py, the payouts that
\* read it): rows of their types, one change for a proof of the phone, a hold on every
\* replacement, and no payout drafted for one that is still held.
DestinationSafe ==
    /\ [](DestinationTypeOK /\ OneChangePerProof /\ ReplacementIsHeld)
    /\ OnlySeasoned
=============================================================================
