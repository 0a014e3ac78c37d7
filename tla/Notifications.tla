----------------------------- MODULE Notifications -----------------------------
(* What a store tells its buyers: messages about their orders, marketing, and the *)
(* purchases it reports to analytics (modules/notifications).  A message is       *)
(* recorded and handed to its provider inside the transaction of what it is       *)
(* about; the unique index on dedupe_key makes a second one wait, and drops it.   *)
(* One channel stands for the four, one order for those of a buyer.               *)
EXTENDS Integers, FiniteSets

CONSTANTS
    Hands,       \* transactions open at the same time
    Buyers,
    MaxFacts,    \* facts of orders that happen
    MaxMoods,    \* changes of preferences, of templates and of the hour
    MaxLost      \* transactions that end without a commit

ASSUME NotificationsAssumption ==
    /\ {MaxFacts, MaxMoods, MaxLost} \subseteq Nat
    /\ IsFiniteSet(Buyers)

VARIABLES
    note,        \* notifications.status by dedupe key, no_device apart from suppressed
    sends,       \* messages a provider took, by dedupe key
    facts,       \* facts of orders that are committed
    silent,      \* ghost: those told to nobody: the worker has no app_state, or the template was off
    campaign,    \* one push_campaigns row: status, sent_count
    prefs,       \* notification_preferences
    night,       \* the tenant's quiet hours
    muted,       \* keys whose template the tenant has turned off
    destination, \* an analytics destination is set up
    event,       \* analytics_events.status of a buyer's purchase
    posts,       \* purchases posted
    hand,        \* the open transaction
    happened        \* facts, moods and lost commits so far

messages == <<note, sends, facts, silent, campaign>>
moods == <<prefs, night, muted>>
purchases == <<event, posts>>
notificationVars == <<messages, moods, destination, purchases, hand, happened>>

Placed == "order.placed"
Paid == "payment.paid"
Shipped == "shipment.shipped"
Delivered == "shipment.delivered"
Refunded == "refund.completed"
OrderKeys == {Placed, Paid, Shipped, Delivered, Refunded}
Nudge == "cart.abandoned"
Push == "campaign.push"
Texts == OrderKeys \cup {Nudge, Push}
Keys == Texts \X Buyers
Marketing(k) == k[1] \in {Nudge, Push}

NoRow == [row |-> FALSE, push |-> TRUE, quiet |-> FALSE]
Still == [op |-> "still"]
NothingYet == [x \in {} |-> "sent"]
Begun(op, about, todo) ==
    [op |-> op, phase |-> "next", about |-> about, todo |-> todo, mine |-> NothingYet,
     seen |-> {}, reports |-> NothingYet, quiet |-> todo = {}]

Works(h) == hand[h] # Still
Does(h, op) == hand[h].op = op
Spends(what) == happened' = [happened EXCEPT ![what] = @ + 1]

\* Orders may have been placed before, the campaign cancelled, and the bounds used up.
NotificationsInit ==
    /\ facts \in SUBSET ({Placed} \X Buyers) /\ silent = {}
    /\ note = [k \in Keys |-> IF k \in facts THEN "sent" ELSE "none"]
    /\ sends = [k \in Keys |-> IF k \in facts THEN 1 ELSE 0]
    /\ campaign \in [status : {"draft", "cancelled"}, sent : {0}]
    /\ prefs = [b \in Buyers |-> NoRow] /\ night \in BOOLEAN /\ muted \in SUBSET Texts
    /\ destination \in BOOLEAN
    /\ event = [b \in Buyers |-> "none"] /\ posts = [b \in Buyers |-> 0]
    /\ hand = [h \in Hands |-> Still]
    /\ happened \in [facts : 0 .. MaxFacts, moods : 0 .. MaxMoods, lost : {0}]

-----------------------------------------------------------------------------
\* A fact about an order: a transaction that also tells the buyer.  The row it is
\* about is locked, so that two of them are never about the same row.
Done(b, key) == <<key, b>> \in facts
AtWork(b, keys) == \E h \in Hands : Does(h, "fact") /\ hand[h].about \in keys \X {b}
Happens(h, b, key, todo) ==
    /\ ~Works(h) /\ happened.facts < MaxFacts
    /\ Spends("facts")
    /\ hand' = [hand EXCEPT ![h] = Begun("fact", <<key, b>>, todo)]
    /\ UNCHANGED <<messages, moods, destination, purchases>>

\* on_order_placed(): a placement that is replayed tells nothing.
OrderPlaced(h, b) ==
    /\ ~Done(b, Placed) /\ ~AtWork(b, {Placed})
    /\ Happens(h, b, Placed, {<<Placed, b>>})

\* on_payment_paid(): the worker's reconciliation settles without app_state.
PaymentPaid(h, b) ==
    /\ Done(b, Placed) /\ ~Done(b, Paid) /\ ~AtWork(b, {Paid})
    /\ \E todo \in {{}, {<<Paid, b>>}} : Happens(h, b, Paid, todo)

\* on_shipment_status(): several statuses of a shipment have the same key; the worker
\* polls couriers without app_state too.
ShipmentMoves(h, b) ==
    /\ Done(b, Placed) /\ ~Done(b, Delivered) /\ ~AtWork(b, {Shipped, Delivered})
    /\ \E key \in {Shipped, Delivered} :
         \E todo \in {{}, {<<key, b>>}} : Happens(h, b, key, todo)

\* on_refund_completed(); that a cash order was paid is told to nobody.
RefundCompleted(h, b) ==
    /\ Done(b, Placed) /\ ~Done(b, Refunded) /\ ~AtWork(b, {Refunded})
    /\ Happens(h, b, Refunded, {<<Refunded, b>>})

\* send_campaign(): the campaign is locked; the audience is what the segment selects.
Sendable == campaign.status = "draft"
CampaignLocked == \E h \in Hands : Does(h, "campaign")
SendCampaign(h) ==
    /\ ~Works(h) /\ Sendable /\ ~CampaignLocked
    /\ \E audience \in SUBSET Buyers :
         hand' = [hand EXCEPT ![h] = Begun("campaign", <<>>, {Push} \X audience)]
    /\ UNCHANGED <<messages, moods, destination, purchases, happened>>

CancelCampaign ==
    /\ campaign.status = "draft" /\ ~CampaignLocked
    /\ campaign' = [campaign EXCEPT !.status = "cancelled"]
    /\ UNCHANGED <<note, sends, facts, silent, moods, destination, purchases, hand, happened>>

\* marketing_sweep(): the nudges, then the purchases, in one transaction.
MarketingSweep(h) ==
    /\ ~Works(h)
    /\ \E carts \in SUBSET Buyers :
         hand' = [hand EXCEPT ![h] = Begun("sweep", <<>>, {Nudge} \X carts)]
    /\ UNCHANGED <<messages, moods, destination, purchases, happened>>

\* set_preferences(); a row without hours of its own has no quiet hours at all.
SetPreferences(b) ==
    /\ happened.moods < MaxMoods /\ Spends("moods")
    /\ \E push, quiet \in BOOLEAN :
         prefs' = [prefs EXCEPT ![b] = [row |-> TRUE, push |-> push, quiet |-> quiet]]
    /\ UNCHANGED <<messages, night, muted, destination, purchases, hand>>
TimeOfDay ==
    /\ happened.moods < MaxMoods /\ Spends("moods")
    /\ night' = ~night
    /\ UNCHANGED <<messages, prefs, muted, destination, purchases, hand>>

\* put_template(): a tenant turns a template off or on.
PutTemplate(key) ==
    /\ happened.moods < MaxMoods /\ Spends("moods")
    /\ \E enabled \in BOOLEAN : muted' = IF enabled THEN muted \ {key} ELSE muted \cup {key}
    /\ UNCHANGED <<messages, prefs, night, destination, purchases, hand>>

PutDestination ==
    /\ ~destination
    /\ destination' = TRUE
    /\ UNCHANGED <<messages, moods, purchases, hand, happened>>

-----------------------------------------------------------------------------
InQuietHours(b) == night /\ (prefs[b].row => prefs[b].quiet)
MarketingAllowed(k) == prefs[k[2]].push /\ ~InQuietHours(k[2])

\* Mutant: the second message is inserted as well.
Duplicate_never(k) == FALSE

\* uq_notification_dedupe: an insert waits for the one another transaction has open.
Duplicate(k) == note[k] # "none"
Inserting(k) == \E h \in Hands : Works(h) /\ k \in DOMAIN hand[h].mine
With(f, x, v) == [y \in DOMAIN f \cup {x} |-> IF y = x THEN v ELSE f[y]]

\* notify(): marketing to whoever does not take it.
Suppressed(k) == Marketing(k) /\ ~MarketingAllowed(k)

\* _template(): nothing to say where the tenant turned the template off.
Muted(k) == k[1] \in muted

\* notify(), one message of the loop: nothing is recorded, or it is a duplicate, suppressed,
\* or about to be delivered.
Notify(h) ==
    LET x == hand[h] IN
    /\ Works(h) /\ x.phase = "next"
    /\ \E k \in x.todo :
         /\ Muted(k) \/ ~Inserting(k)
         /\ hand' = [hand EXCEPT ![h] =
              IF Muted(k) THEN [x EXCEPT !.todo = @ \ {k}, !.quiet = TRUE]
              ELSE IF Duplicate(k) THEN [x EXCEPT !.todo = @ \ {k}]
              ELSE IF Suppressed(k)
              THEN [x EXCEPT !.todo = @ \ {k}, !.mine = With(@, k, "suppressed")]
              ELSE [x EXCEPT !.phase = "deliver", !.todo = @ \ {k}, !.mine = With(@, k, "queued")]]
    /\ UNCHANGED <<messages, moods, destination, purchases, happened>>

\* _deliver(): a failure is written down; the provider may have taken the message
\* nevertheless.  A buyer without a device gets none.
Deliver(h) ==
    LET x == hand[h] IN
    /\ Works(h) /\ x.phase = "deliver"
    /\ \E k \in DOMAIN x.mine, to \in {"sent", "failed", "no_device"} :
         /\ x.mine[k] = "queued"
         /\ \E n \in CASE to = "sent" -> {1} [] to = "failed" -> {0, 1} [] OTHER -> {0} :
              sends' = [sends EXCEPT ![k] = @ + n]
         /\ hand' = [hand EXCEPT ![h] = [x EXCEPT !.phase = "next", !.mine = With(@, k, to)]]
    /\ UNCHANGED <<note, facts, silent, campaign, moods, destination, purchases, happened>>

\* flush(): the queued events as the sweep sees them, without a lock.
FlushReads(h) ==
    LET x == hand[h] IN
    /\ Does(h, "sweep") /\ x.phase = "next" /\ x.todo = {}
    /\ hand' = [hand EXCEPT ![h] =
         [x EXCEPT !.phase = "flush", !.seen = {b \in Buyers : event[b] = "queued"}]]
    /\ UNCHANGED <<messages, moods, destination, purchases, happened>>

\* One event is posted, and its row is written whatever it is by then; the write waits
\* for another sweep's.  One that fails is not tried again, and the provider may have
\* taken it nevertheless.
Flushing(b) == \E h \in Hands : Works(h) /\ b \in DOMAIN hand[h].reports
FlushPosts(h, b) ==
    LET x == hand[h] IN
    /\ Does(h, "sweep") /\ x.phase = "flush" /\ b \in x.seen /\ ~Flushing(b)
    /\ \E to \in {"sent", "failed"} :
         /\ \E n \in IF to = "sent" THEN {1} ELSE {0, 1} : posts' = [posts EXCEPT ![b] = @ + n]
         /\ hand' = [hand EXCEPT ![h] = [x EXCEPT !.seen = @ \ {b}, !.reports = With(@, b, to)]]
    /\ UNCHANGED <<messages, moods, destination, event, happened>>

\* queue_purchase() of the capture, in its transaction and once for the order.
Queued(h) ==
    LET b == hand[h].about[2] IN
    IF Does(h, "fact") /\ hand[h].about[1] = Paid /\ destination /\ event[b] = "none"
    THEN [event EXCEPT ![b] = "queued"]
    ELSE [b2 \in Buyers |-> IF b2 \in DOMAIN hand[h].reports THEN hand[h].reports[b2] ELSE event[b2]]

HandCommits(h) ==
    LET x == hand[h] IN
    /\ Works(h) /\ x.todo = {}
    /\ IF x.op = "sweep" THEN x.phase = "flush" /\ x.seen = {} ELSE x.phase = "next"
    /\ note' = [k \in Keys |-> IF k \in DOMAIN x.mine THEN x.mine[k] ELSE note[k]]
    /\ facts' = IF x.op = "fact" THEN facts \cup {x.about} ELSE facts
    /\ silent' = IF x.op # "fact" THEN silent
                 ELSE IF x.quiet THEN silent \cup ({x.about} \ facts) ELSE silent \ {x.about}
    /\ campaign' = IF x.op = "campaign"
                   THEN [status |-> "sent", sent |-> Cardinality({k \in DOMAIN x.mine : x.mine[k] = "sent"})]
                   ELSE campaign
    /\ event' = Queued(h)
    /\ hand' = [hand EXCEPT ![h] = Still]
    /\ UNCHANGED <<sends, moods, destination, posts, happened>>

\* The transaction ends without a commit: what providers took is not undone.
HandFails(h) ==
    /\ Works(h) /\ happened.lost < MaxLost
    /\ Spends("lost")
    /\ hand' = [hand EXCEPT ![h] = Still]
    /\ UNCHANGED <<messages, moods, destination, purchases>>

HandStep(h) ==
    \/ Notify(h) \/ Deliver(h) \/ FlushReads(h) \/ HandCommits(h)
    \/ \E b \in Buyers : FlushPosts(h, b)

NotificationsNext ==
    \/ CancelCampaign \/ TimeOfDay \/ PutDestination
    \/ \E b \in Buyers : SetPreferences(b)
    \/ \E key \in Texts : PutTemplate(key)
    \/ \E h \in Hands :
         \/ HandStep(h) \/ HandFails(h) \/ SendCampaign(h) \/ MarketingSweep(h)
         \/ \E b \in Buyers :
              OrderPlaced(h, b) \/ PaymentPaid(h, b) \/ ShipmentMoves(h, b) \/ RefundCompleted(h, b)

NotificationsSpec == NotificationsInit /\ [][NotificationsNext]_notificationVars

-----------------------------------------------------------------------------
NoteStatus == {"none", "sent", "failed", "suppressed", "no_device"}
EventStatus == {"none", "queued", "sent", "failed"}

\* The types of the rows and of the open transactions.
NotificationsTypeOK ==
    /\ note \in [Keys -> NoteStatus] /\ sends \in [Keys -> Nat]
    /\ silent \subseteq facts /\ facts \subseteq OrderKeys \X Buyers
    /\ campaign.status \in {"draft", "sent", "cancelled"} /\ campaign.sent \in 0 .. Cardinality(Buyers)
    /\ prefs \in [Buyers -> [row : BOOLEAN, push : BOOLEAN, quiet : BOOLEAN]]
    /\ night \in BOOLEAN /\ muted \subseteq Texts /\ destination \in BOOLEAN
    /\ event \in [Buyers -> EventStatus] /\ posts \in [Buyers -> Nat]
    /\ \A h \in Hands : Works(h) =>
         /\ hand[h].op \in {"fact", "campaign", "sweep"} /\ hand[h].phase \in {"next", "deliver", "flush"}
         /\ \A k \in DOMAIN hand[h].mine : hand[h].mine[k] \in (NoteStatus \cup {"queued"}) \ {"none"}

\* A provider takes a message twice only when a commit was lost after the first time,
\* however often the fact is reported and the sweeps overlap.
SentOnce == \A k \in Keys : sends[k] <= 1 + happened.lost

\* What happened to an order in a request is on record as told or as undeliverable,
\* whatever the buyer's preferences are, unless the tenant had turned that message off
\* by then.  (What the worker settles is not told.)
FactsAreNoted == \A k \in facts \ silent : note[k] \in {"sent", "failed", "no_device"}

\* A campaign that is cancelled has told nobody, and one that is sent counts whom it
\* told, unless a commit was lost.
CampaignTold ==
    LET Heard(b) == note[<<Push, b>>] = "sent" IN
    /\ campaign.status = "cancelled" /\ happened.lost = 0 => \A b \in Buyers : sends[<<Push, b>>] = 0
    /\ campaign.status = "sent" => campaign.sent = Cardinality({b \in Buyers : Heard(b)})

\* What the docstring of flush() promises, "A provider outage leaves the row queued, not
\* lost": a purchase no provider has taken is still queued.
OutageKeepsQueued == \A b \in Buyers : event[b] # "none" /\ posts[b] = 0 => event[b] = "queued"

\* What notifications keep in every state (notifications/service.py, campaigns.py):
\* rows of their types, a message sent once, facts on record, and a campaign that
\* counts whom it told.
NotificationsSafe == NotificationsTypeOK /\ SentOnce /\ FactsAreNoted /\ CampaignTold
=============================================================================
