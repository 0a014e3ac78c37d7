# Formal model of the marketplace

TLA+ modules, TLC runs and TLAPS proofs for the multi-tenant marketplace of this
repository: a FastAPI service (`apps/api`) over PostgreSQL and Redis, an ARQ
worker, a Next.js storefront and two Flutter apps. The service keeps all the
state; the clients only call it. Paths below are relative to the repository.

## The system

Every request, webhook and job is one PostgreSQL transaction under READ
COMMITTED, scoped to one tenant by row level security. An exception rolls the
whole transaction back. So what can interleave is: transactions as wholes,
statements of two transactions where a row is read without `FOR UPDATE`, and the
stretch of a transaction that waits for a lock or for a gateway or courier.

| component | state | operations | talks to | what is hard | what makes it correct |
|---|---|---|---|---|---|
| checkout | orders, sub-orders, stock reservations, coupons, campaigns | `build_quote`, `place_order`, `release_order`, `expire_unpaid` | payments, credit, stock | last unit, coupon limits under races, expiry racing payment | counters equal live orders; stock never promised twice; an order resolves once |
| payments | payments, payment_events, cod_receivables, gateway sessions at bKash and SSLCommerz | `start_payment`, `settle`, `record_event`, `reconcile_pending`, `collect_cod` | gateways (verify), ledger, notifications | two live sessions, late and crossed IPNs, a crash after the charge | one paid row, paid means captured, confirmed means paid |
| fulfilment | shipments, shipment_events, settlements | `book_shipment`, `cancel_shipment`, `apply_event`, `poll_open_shipments`, `import_settlement` | couriers, stock, payments, ledger | events out of order and lost, double booking, statements before events | shipments move forward, goods and cash booked once |
| store credit | accounts, transactions | `grant`, `spend` | checkout, returns | concurrent spending | balance equals movements, never negative |
| stock | variants, inventory movements | `adjust_stock`, reserve, consume, restock | checkout, payments, fulfilment, returns | many writers | on hand and reserved equal the movements and reservations |
| returns | return_requests, refunds, credit notes | `create_request`, `decide`, `mark`, cancel, `qc`, `refund`, `complete_manual_refund` | gateways, couriers, credit, ledger | inspections and completions without locks | refund once, restock once |
| ledger, payouts | ledger_entries, payout batches and lines | `post_*`, `build_batch`, `approve`, `export`, `mark_paid` | every money event | overlapping periods, maker and checker | balanced groups, one posting per event, nothing paid twice |
| billing | subscriptions, usage, platform_invoices, tenant status | `generate_invoice`, `mark_paid`, `reconcile_status`, `run_billing_cycle` | tenancy | two cycles, cycles racing payments and operators | nothing billed twice, nobody suspended early, statuses follow the invoices |
| trust | reviews, votes, disputes, payout holds, conversations | `open_dispute`, `resolve_dispute`, `escalate_overdue_disputes`, `moderate_review`, `send_message` | payouts | unlocked state checks, ratings recomputed from a snapshot | one open dispute, hold released with it; stars only of what was shown |
| vendors | vendors, documents, invites, payout methods | `vendor_signup`, `transition`, `register_document`, `set_payout_method` | payouts | a document replaced during review, two changes of the payout destination | approved only after documents were; a replaced destination is held |
| mobile | app_builds, releases, deletion requests | `request_build`, `claim_next`, `report`, `anonymise_user` | build runners | two runners, late reports | a build goes to one runner, numbers differ; deletion only on request |
| notifications | notifications, campaigns, analytics outbox, tickets | `notify`, `send_campaign`, `flush`, `create_ticket`, `add_message` | push, mail, SMS, analytics | a message handed over before the commit, overlapping sweeps | one message per key, a campaign counts whom it told |
| identity | accounts, refresh token families, otp codes, staff and vendor crews | `rotate_refresh`, `create_otp`, `verify_otp`, `update_staff`, `update_vendor_staff` | all | reuse of a rotated token, a code tried twice at once | one live token per family, one session per code, one owner |
| catalog | products, variants, import jobs, media assets | `update_variant`, `adjust_stock`, `update_product`, `moderate`, `run_import`, `process_asset` | worker, storefront cache | roll-ups over rows others change, jobs retried half way, a page cached before the commit | stock explained by its movements, a row imported whole and once, no first listing on sale that moderation must see and never approved |
| theme | draft, theme versions, cache, vendor shop themes | `save_draft`, `publish`, `restore`, `published_document` | storefront | stale cache, drafts written while published | only legible versions are served, the cache catches up |
| domains, platform | domains, tenants, host cache | `verify_domain`, `make_primary`, `recheck_active_domains`, `resolve_tenant` | DNS | a cache filled with what was true before a commit | one primary host, nobody served unproved, a suspension bites |
| reporting | roll-ups | `rollup_day`, `export_csv` | reads the others | none of its own | recomputed from its sources |
| worker | cron jobs | sweeps of the components above | all | a failing tenant stops the sweep | sweeps are repeated |

`hazards` in PROJECT.json lists, line by line, the forty things that can most
easily go wrong in the modelled parts and which property watches each. The
further ones are under "Other behaviour" below.

## Modules

| module | what it is |
|---|---|
| `OrderPayment` | checkout and payment of a tenant's orders |
| `OrderPromise` | the abstract promise that checkout and payment implement |
| `Shipment` | parcels, courier events, goods and cash on delivery |
| `Returns` | return requests, inspections and refunds, with the gateway's truth |
| `Payouts` | vendor balances, holds, payout batches and the payment of their lines |
| `Billing` | subscription, usage, invoices and dunning of one tenant |
| `Domains` | hosts, their DNS, the scheduled recheck and the host cache |
| `AppBuilds` | the queue of app builds, its runners and the update gate |
| `Disputes` | disputes about sub-orders and the payout holds they bring |
| `Catalog` | one product: variants, stock ledger, roll-up, moderation, cached page |
| `Notifications` | messages, marketing sweeps and the analytics outbox |
| `Theme` | draft, versions and cache of a store's look, one vendor's accent |
| `Vendors` | signup, documents and lifecycle of vendors |
| `Destination` | a vendor's payout destination behind re-authentication and holds |
| `Intake` | photo uploads and CSV imports through the queue |
| `Accounts` | codes, sessions and deletion of customers' accounts |
| `Reviews` | reviews, stars, votes, answers and a conversation |
| `Support` | support tickets |
| `Team` | the staff of a tenant and the crew of a vendor |
| `Sums_proofs` | lemmas on sums over finite sets, which the books are stated with |
| `OrderPayment_proofs` | theorems of `OrderPayment`, and that it implements `OrderPromise` |
| `Shipment_proofs`, `Returns_proofs`, `Payouts_proofs` | theorems of these three |
| `Jobs_proofs` | theorems of `Billing`, `Domains` and `AppBuilds` |
| `Market_proofs` | theorems of `Theme`, `Disputes`, `Catalog` and `Notifications` |
| `People_proofs` | theorems of `Vendors`, `Destination`, `Team`, `Support`, `Reviews`, `Intake` and `Accounts` |
| `MC_*` | instances for TLC; `MC_Jobs`, `MC_Market` and `MC_People` each hold several components; `MC_Carts` adds the choice of a cart to `MC_OrderPayment` |

A definition `Name_slip` next to `Name` is a plausible mistake in the code that
`Name` models. Substituted for `Name`, it makes TLC find the property of
`mutants` in PROJECT.json violated: that is how we know the property looks at
the code. Variables that say "ghost" are not in the database; they remember
something a property needs.

In the modules from `Billing` on, a handler that reads without a lock is two
steps, what it reads and what it commits, and the record of its open transaction
says what it read. A handler that locks first is one step where nothing else can
see a difference, or waits for its lock in its guard. An index that makes a
second insert wait and fail is a guard too (`FirstFor`, `PendingOf`,
`NumberIsFree`, `ChecksumFree`, `HandleFree`).

### OrderPayment

An order is an Idempotency-Key; it carries the status its sub-orders have in
common (`place_order`, `release_order` and `confirm_paid_order` write all of
them), its reservations, its due date and its coupon, campaign and credit use.
Payment rows are numbered per order, and so are the sessions the gateway opened
for them. `page` is the provider's truth about a session; `payRef` says which
session a row verifies, because an SSLCommerz IPN may attach the session of an
older attempt to the newer row. A settle transaction is two steps: `BeginSettle`
locks the row and gets the provider's answer, `SettleUnpaid`, `SettleDuplicate`
or `SettlePaid` commits, `SettleRollsBack` is the deadlock victim or the crash.
`start_payment` and a placement with a coupon are two steps as well.

| action | code |
|---|---|
| `QuoteWithCoupon`, `PlaceOrder`, `PlaceFails` | `checkout/service.py` `build_quote` under lock, `place_order` |
| `WindowCloses`, `ExpireUnpaid` | time, `expire_unpaid` with `release_order` |
| `StartPayment`, `StartCommits`, `StartFails` | `payments/service.py` `start_payment`, `GatewayError` |
| `BuyerActs` | the provider's page (external) |
| `Confirm`, `Reconcile`, `WebhookSettles` | return page, `reconcile_pending`, `provider_webhook`, up to the provider's answer |
| `WebhookStores`, `WebhookReplay` | a webhook that settles nothing; a duplicate that still rewrites a reference |
| `SettleUnpaid`, `SettleDuplicate`, `SettlePaid`, `SettleRollsBack` | `settle`, `confirm_paid_order`, `consume_reservations`, `post_capture` |
| `CodPickedUp`, `CodDelivered` | what `apply_event` does to a cash order; `Shipment` has the detail |
| `AdjustStock` | `catalog/products.py` `adjust_stock` |

Abstractions: money is a small number; one event id per session, so a provider
that uses several ids for one session is a replay; provider "cancelled" and
"failed" are one status; cart contents are fixed per key, and a second key for
the same cart is another order; the sweep is a sequence of per-order steps
instead of one transaction. Locks are modelled where a transaction stays open:
`placing`, `starting`, `superseded`, `settling`.

### Shipment

One consignment id is one parcel. `parcel` and `reached` are the courier's truth,
`ship` is our row, `of` the sub-order it was booked for. Booking and cancelling
read without a lock, call the courier and write: two steps. `ApplyEvent` is the
whole of `apply_event`: stale check, shipment, sub-order, reservations of the
*whole* order, receivable, cod payment, ledger, restocking. A webhook may say
anything the parcel has been through, in any order, any number of times or
never. `missed` keeps the events answered "unknown consignment": the courier
repeats them under the same id and they are dropped as duplicates. For a known
consignment a repeated event needs no record, it is stale anyway.

Bounds and assumptions about the outside: the goods of a sub-order are one unit
and are with one parcel at a time; while a booking waits for its commit the
parcel is at most collected or dropped; a courier accepts a cancellation of any
parcel it has not finished, and drops or turns back the parcel; it remits cash
only for parcels it handed over. A second delivery attempt goes straight to
delivered or returning. The `needs_attention` flag, courier selection and
credentials are left out. An import is the sequence of its lines.

### Returns

The handlers of `apps/api/app/modules/returns` take no row locks: they load the
return, check the transition, and later write it with an unconditional UPDATE.
So every handler is an open and a commit, `txn` holds the open transactions, and
any two may cross. That includes a cancellation by staff
(`POST /admin/returns/{id}/cancel`): it is checked against the status it read and
written over the one it finds, be it received, passed or refunded, and it frees the
sub-order for another return. Only two things serialise: the partial unique index
`uq_refund_open_per_return`, at which a second insert waits (`MayInsert`), and
the idempotent `ledger.post`.

| action | code |
|---|---|
| `OpenRequest`, `CommitRequest` | `create_request` |
| `Open`, `CommitMove` | `decide`, `book_reverse_pickup`, `mark` as picked up, received or, by the admin's cancel route, cancelled |
| `Open`, `CommitQc` | `qc` |
| `OpenRefund`, `InsertRefund`, `CommitRefund`, `CommitPending` | `refund`: checks and rail, insert and gateway call, completion, or a pending manual refund |
| `OpenComplete`, `CommitComplete` | `complete_manual_refund` |
| `Rollback` | an exception, a refusal, a duplicate insert, a lost connection |

`paidBack` is what the gateway executed and `lost` the refund transactions that
were lost after it did; neither is in our database. `received` and `inspected`
remember what a return has been through, because crossing writes can take its
status back. The constants `Wish` and `AutoApproved` say what the buyer asks for
and which reasons the tenant approves at once.

`Inspected` allows what the code does and its docstrings exclude
(`returns/service.py` 10 and 483: "a fail never does"): the results sent with a
failing verdict may restock a line. `NeverOverstated` is one sided: two refunds of
one order that cross lose one of the two from `refunded_amount`, and the property
says that the sum is never too large.

Abstractions and bounds: a return is one unit of money and one line; an order
has one capture; the QC deadline and its escalation decide nothing else and are
left out; the reverse parcel is a status; `MaxLost` bounds refunds lost after
the gateway executed them (each may be tried again, so the real number has no
bound).

### Payouts

The reserve of a tenant is a window after capture or delivery (`recent`). The
ledger is a set of events per sub-order and one posted group per paid line; a
vendor's statement (`Payable`, `Reserve`, `Available`) is computed from it as the
code does. `build_batch` is one transaction that reads one vendor after another,
so `BuildBatch`, a `BuildLine` per vendor and `BuildCommits` (or `BuildFails`)
may cross with money, holds and payments. `MarkPaid` takes the lock of the line
and of its batch, reads both statuses and counts what is pending;
`MarkPaidCommits` writes. `Approve` and `Export` wait for the batch's lock,
`MarkFailed` only for the line's. `overlap` remembers the vendors a line was
built for while an older one was still unpaid.

Abstractions and bounds: the percentage reserve, tax deducted at source and the
adjustments of a line are left out, so its net is its gross; a refund reverses a
whole sub-order; `Disputed` says which vendors ever meet a hold; `MaxClicks`
bounds the payments of one line open together.

### Billing

One tenant, its subscription, its invoices by the day their period starts, the
days that have GMV, and the transactions of two workers. `CycleVisits` is
`generate_invoice` under the lock of the subscription (`SubLocked`) with what
`reconcile_status` reads; `CycleCommits` writes both. A cycle may be started by
hand for another day (`CycleDays`). `PayReads`, `PayCommits` are `mark_paid`,
`PatchTenant` and `PatchPlan` the operator's routes, `Rollback` a job that dies.
Left out: the catalogue of plans, amounts (a line is in an invoice or not), tax
and the plans of vendors.

### Domains

A host's row, whether its DNS proves it (`dns`, and `proved` for all time), the
redis entry, and a request between its query and its SET (`Misses`, `Fills`).
`StatusFlushes` clears the cache and `StatusCommits` commits: the order of the
code. A lookup may time out (`Answers`), which the code reads as no record. The
ORM writes only columns that differ from what it loaded; `writes` and `demotes`
say which. `Admits` is what the gate of `core/deps.py` lets a request do.

### AppBuilds

`RequestBuild` sees no build in flight and numbers the next one,
`RequestCommits` meets the unique index. A claim locks rows with SKIP LOCKED
(`Unlocked`), commits, and its answer may be lost. What a runner reports is
taken from `infra/ci/mobile-release.yml`; `RunEnds` is a run that ends without a
report. `PutRelease` and `UpdateState` are the update gate, with versions
compared by three parts as the code does.

### Disputes

`OpenReads` checks, `OpenCommits` inserts at the partial unique index
(`FirstFor`) and places the hold. Messages and resolutions load without a lock
and write their column at the commit, so a message may reopen a dispute that was
settled in between. `Sweep` is the escalation that runs twice a day, `ComesDue` the clock.

### Catalog

One product of two variants. A handler changes its rows, counts the roll-up with
the snapshot of one statement (`Counts`, which sees what others have committed),
tells the storefront (`Tells`) and only then commits (`Commits`) or fails
(`Aborts`). Stock changes lock their variant (`StockLocked`) and write a movement
with the balance. `Verdict` is `_needs_moderation` on an edit. `seen` is a ghost:
whether a moderator ever approved the product, and whether live content was changed
since. `ModeratedFirst` asks for the first where a vendor's first listing is
moderated and for both where everything is; content that is changed while the
product is a draft or archived goes live unseen, and the property says so. `Render`
is the storefront caching the page of what is committed.

### Notifications

A message is its dedupe key: buyer and fact, or buyer and campaign. `Notify` is
template, preferences, quiet hours, dedupe and row, `Deliver` hands it to the
provider before the transaction commits, `HandFails` loses the commit. A second
insert of a key waits (`Inserting`) and drops its message. A template that the
tenant has turned off (`PutTemplate`, `muted`) writes no row and tells nobody; the
template is read in the step that writes the row. A sweep posts the queued
purchases in one transaction (`FlushReads`, `FlushPosts`). Facts the worker
settles reach nobody, because `_announce_paid_order` has no `app_state` there;
`silent` remembers these and the ones whose template was off. One channel stands for push, SMS, mail and in-app, one
order for those of a buyer.

### Theme

A document is its palette, legible or not. `PublishReads`, `PublishWrites`,
`PublishCommits` are the three statements of `publish`: the number it computes,
the version it inserts at the unique index, and the row with the cache entry
deleted. `RestoreWrites` and `RestoreCommits` likewise; a reader that misses
(`Miss`) may fill later (`Fills`). A vendor's accent must be readable on the
palette that is served when it is saved and again when it is published.

### Vendors and Destination

`Vendors`: signup with an invitation whose row is locked, documents inserted by a
request that read the status before, a lifecycle step that looks first
(`MoveChecks`), locks (`MoveLocks`) and writes its event (`MoveCommits`). One
document stands for the required ones.

`Destination`: `Reauth` gives a token of limited age, `Consume` is SET NX of its
use in redis with the token's remaining life, then the vendor's row is locked
and the active method replaced with a hold. A batch is drafted from a destination
it read before (`DraftReads`, `DraftWrites`).

### Intake

Uploads and imports through a queue that is either inline (the request's own
transaction) or the worker's: it may be told before the row is committed, it
delivers again after a crash, and its job takes the row under a lock.
`Renders` puts renditions before the row says so. An import's transaction runs
row by row, each in a savepoint (`Undone`), and sees what is committed and what
it wrote itself (`SeenBy`).

### Accounts

Codes are rows in the order they are made. `RightCode` registers the customer at
the unique handle when there is none and opens a family of refresh tokens;
`Rotates` marks the token used under its lock and issues the next, a second use
revokes the family. Deletion requests wait for their grace, `Erases` reads what
it will anonymise and `EraseCommits` writes it. One device holds one request
open; a customer, a handle and a family are interchangeable.

### Reviews, Support, Team

`Reviews`: `refresh_ratings` counts what its statement's snapshot shows, which is
written at the commit; votes are one atomic statement; the unread counter of a
conversation is reset to what the reader was shown. `Support`: the tenant's
counter row is locked from the insert to the commit (`CounterHeld`), a reply
reads the ticket first and updates status and first response in one statement.
`Team`: a request reads the member without a lock, checks the rank of who asks,
and writes only the columns it changes, so requests on two columns merge.

## Runs

Properties of the later modules come as one conjunction per component, so that a
run states one thing of each; the parts have names, comments and meanings of
their own and are listed here.

| run | instance | shows |
|---|---|---|
| `carts` | one of two carts. Redirect: one SSLCommerz order, three attempts, part paid by credit, staff recounts. Promotions: a bKash, an SSLCommerz and a COD order of two buyers, tried once each, two shelves with one and two units, one coupon use, one campaign unit, one wallet | `OnePaidAttempt`, `PaidIsCaptured`, `ConfirmedIsPaid`, `Finality`, `Books` (types, `StockBooks`, `PromoBooks`, `CreditBooks`), `KeepsPromise` |
| `liveness` | one bKash order with a coupon, two attempts, worker fairness | `HeldStockResolves`, `AuthorisedIsExecuted` |
| `parcels` | a COD order of two vendors, two consignments, symmetric | `GoodsMove`, `ParcelBooks` (types, `CashBooks`), `ForwardOnly` |
| `refunds` | one bKash order of two shipments, one refunded by the gateway or by hand, one by wallet; two returns, of one shipment or of each, cancelled or not; two transactions open together, one lost commit per return | `Inspected`, `RefundBooked`, `GatewayOnce`, `ReturnBooks` (types, `NeverOverstated`) |
| `batches` | two vendors with a sub-order each, prepaid and cash; two periods, two people in finance, maker and checker on | `PayoutBooks` (types, `PaidIsEarned`), `FourEyes`, `BatchCloses` |
| `scheduled` | `Billing`, `Domains`, `AppBuilds`, and `Shipment` with one COD parcel; two workers, four days, two hosts, two builds and two runners | `BillingSafe` (`BilledOnce`), `Dunned` (`NeverSuspendedEarly`, `StatusFollowsInvoices`), `DomainsSafe` (`OwnedHosts`), `HostsFollow` (`SuspensionBites`, `LostDnsDeactivates`), `BuildsSafe` (`OneRunner`, `NumbersDiffer`, `LatestIsFine`), `QueueEmpties`, `ReturnArrives` |
| `commerce` | `Disputes`, `Catalog`, `Notifications`, `Theme`; two requests at a time, two parcels and disputes, two variants and prices, one buyer and two facts, three palettes and two versions | `DisputesSafe` (`OneDispute`, `HoldComesOff`), `OverdueEscalates`, `CatalogSafe` (`LedgerExplains`, `CardPrice`), `ModeratedFirst`, `TakenDownLeaves`, `NotificationsSafe` (`SentOnce`, `FactsAreNoted`, `CampaignTold`), `ThemeSafe` (`LegibleServed`, `AccentReads`), `CacheCatchesUp` |
| `access` | `Vendors`, `Destination`, `Intake`, `Accounts`, `Reviews`, `Support`, `Team`; two requests at a time, two shops, two photos of one picture and a broken one, two files that meet the same variants in both orders, one crash | `VendorsSafe` (`TrailExplains`, `ApprovedWasVetted`, `InvitationHolds`), `DestinationSafe` (`OneChangePerProof`, `ReplacementIsHeld`, `OnlySeasoned`), `IntakeSafe` (`PhotosAreServed`, `RowsAreWhole`, `ImportedOnce`, `HeldIsThere`), `AccountsSafe` (`CodesWorkOnce`, `OneLive`, `DeletedOnRequest`, `DecidedStays`), `ReviewsSafe` (`StarsWereShown`, `VotesCount`, `UnreadIsThere`), `SupportSafe` (`TicketNumbers`, `FirstResponse`, `WaitsForTheOther`), `TeamSafe` (`OneOwner`, `ManagersByOwner`) |

The last three runs search several components that share no variable. `focus`
picks one at the start and the others stay in their first state: every behaviour
of each is searched, without the product of states that have nothing to do with
each other. Fairness of all of them is assumed at once; a fair action of a
component at rest is disabled in its first state, so it demands nothing. `access`
uses the symmetry of devices, customers and sessions and states no liveness. In
`carts` the two carts share no order, shelf, wallet or buyer, and `MC_Carts` lets one
be bought while the other stays where it is; its bound `CartBounds` tries a
promoted order once and lets no recount raise a shelf above what it held at the start.

Bounds. Two attempts are enough for a superseded session to be paid, three for a
reference to move past a middle attempt. One unit and two orders make every race
for stock; a third order is needed for a wallet shared by orders whose coupon
and campaign rows collide with another buyer's. Two consignments show both the
double booking of one sub-order and two sub-orders whose order shares
reservations and payment. Two returns of one order are enough for concurrent
requests, inspections and refunds of one shipment, and for two refunds that
write one payment. Two periods are enough for a line to be carried into the next
batch; two vendors for a batch whose lines are paid at the same time. Two
requests open together show every race of two handlers; no handler waits for
two others. Four days with a trial of one and a month of one give three periods,
one of them overdue long enough to suspend. `MaxChanges`, `MaxPatches`,
`MaxHandled`, `MaxWords`, `MaxFacts`, `MaxMoods`, `MaxDrafts`, `MaxEdits`,
`MaxLetters`, `MaxPosts`, `MaxEvents`, `MaxCodes`, `MaxTries`, `MaxTokens`,
`MaxActs`, `MaxReady`, `MaxVersions`, `MaxLost`, `MaxCrashes` count what people,
providers and failures may do in one behaviour; each is in the guard of the
action it bounds and large enough for the action to follow on its own effect.

The violation runs each check one sentence of the documentation and produce the
behaviour of the code that contradicts it; `findings` quotes both:
`paid_has_stock`, `delivery_arrives`, `paid_once`, `outage`.

Every configuration switches deadlock checking off: the
system stops when every order is resolved and no attempt, consignment, return,
day or allowance of the bounds is left to use, which is a regular end.

Fairness. Time passes; the worker runs its cron table (`workers/settings.py`)
again and again: `expire_unpaid`, `reconcile_pending`, `courier_sweep`,
`billing_cycle`, `recheck_domains`, `trust_sweep`; the release
workflow runs every half hour; a transaction that is open ends; redis and the
storefront drop entries that are too old. Strong fairness is assumed where a step
is enabled again and again but can be blocked by a lock or undone in between
(`ExpireUnpaid`, `Reconcile`, `SettleCommits`, the billing cycle, the recheck).
Buyers, providers' callbacks, couriers, runners' reports, vendors and staff owe
nothing. `trust_sweep` visits only tenants on trial or active
(`workers/settings.py` 308), 500 at most and in no order: `OverdueEscalates` is about
a tenant it goes on visiting, and a dispute of a suspended one waits. What fairness
hides: a sweep is one transaction per tenant (or for all
tenants), so an order whose release always raises would stop the others.

## Other behaviour

What the code does, the modules show, and no run states as a property.

Checkout, payments and parcels:

- two placements with one coupon may pass its limit per buyer, which is read
  unlocked; the totals are locked (`PromoBooks`);
- a superseded session stays payable at the provider; when both are paid the
  second capture is closed as `cancelled` and nothing refunds it;
- confirming a superseded attempt writes the provider's pending over
  `cancelled`, and the next IPN then breaks the unique reference;
- an SSLCommerz charge whose IPN is lost is never found: `verify` has no val_id;
- store credit of an order that expires stays spent;
- `settle` locks payment then order, `start_payment` order then payments:
  PostgreSQL aborts one of them, which is `SettleRollsBack`;
- a courier's `cancelled` counts as past pick-up and consumes the reservations
  of the whole cash order;
- a statement imported before the delivery event settles a receivable that was
  never collected, and the later event posts no `cod_delivery`;
- when the last open shipment of a cash order is returned after the others were
  collected, its payment stays pending;
- two overlapping bookings of one sub-order both commit, where ADR 0007 gives a
  sub-order one shipment;
- a partly delivered parcel that comes back is restocked whole.

Returns and payouts:

- two concurrent return requests for one shipment are both created;
- a cancellation that read its return before the goods came is written over
  received, passed or refunded; the refund stays booked, the sub-order is free for a
  second return, and that one may be refunded too;
- two concurrent inspections restock twice, and a late failing one overwrites a
  return that was refunded; a failing inspection whose line says `restock`
  restocks, where the docstrings at `returns/service.py` 10 and 483 exclude it;
- a return may be moved by two transactions that both read its old status;
- two refunds of one order that cross lose one of the two in `refunded_amount`;
- a return that was approved automatically has no QC deadline and never
  escalates;
- a hold placed after a line was built does not stop its payment, and a failed
  line may be paid after the next batch has carried its amount;
- a batch without lines cannot be approved and keeps its period;
- a refund that finance pays by hand is posted when it is completed, and
  goodwill credit is never posted, so `reconcile` reports a drift until then.

Billing and domains:

- a suspension by an operator is undone by the next nightly cycle, and a cycle
  that has read the tenant overwrites a cancellation (`billing/service.py` 287
  says "Never touches cancelled tenants");
- a switch between yearly and monthly charges the price of the new interval for
  the old period; usage recorded late for a closed period is never billed;
  `record_usage` has no caller;
- a payment that races a cycle or another payment may leave a paid tenant
  suspended until the next cycle;
- a DNS timeout counts as a failure and deactivates the host; `make_primary`
  racing the recheck can leave an inactive primary; the recheck clears no cache
  (it is passed no redis), so only the entry's lifetime ends what it serves;
- host cache, page cache, search synonyms and theme cache are cleared before the
  commit, and a reader in between caches the old state for a lifetime;
- quotas (hosts, products, staff, vendors) are counted unlocked and two requests
  pass at the last place.

Mobile, identity and vendors:

- a claim whose answer is lost, or a run that fails before its build step,
  leaves the build `building` for ever, and no other can be requested;
  `report` accepts any status at any time; versions of four parts are accepted
  and compared by three; build numbers restart with each version;
- builds may finish in another order than they were queued;
- a rotation racing a revocation leaves the new token alive; a session opened
  while its account is deleted lives until it must be renewed;
- the resend interval of codes is read unlocked, two codes may be sent;
- an account is anonymised although an order was opened after the request, and
  addresses added while it runs stay;
- a document may be added to an application that was submitted meanwhile;
- the token of a change of payout destination is spent by a request that fails;
- a member who is promoted meanwhile can still be disabled by a manager; of the
  seeded roles only the owner may manage staff.

Trust, catalog, notifications, theme, support:

- a message that races a resolution reopens a dispute whose hold is released
  (`trust/service.py` 266 expects one open dispute to hold); two members of staff
  may resolve it differently and the last write stays;
- two refreshes of ratings leave a rejected review in the stars or a published
  one out until the next review; a vendor may answer one review twice;
- a letter that arrives between list and reset is counted as read; conversations
  without a sub-order are not unique and a block does not reach the other one; a
  letter that read an open conversation is sent after the block;
- two edits of two variants leave the card's lowest price stale; cards are not
  told when checkout sells the last unit; with moderation of everything, content
  edited in a draft goes live unseen; a rejected product is approved on its next
  save when only first listings are moderated; the moderator approves whatever
  the content is by then; detaching the last photo leaves the product active;
- the queue may be told of a photo or a file before its row is committed: the
  worker finds nothing and the row stays `processing` (`media.py` 292); two
  copies of one picture rendered at once end in an error that is not tried again;
  rows of two imports may deadlock and fail. The ARQ queues are never wired, so
  today everything is inline (`main.py` 80 to 86);
- two overlapping sweeps post an event twice and a late failure overwrites `sent`
  (that a failed post is not tried again is the finding of `outage`); `flush` is not
  called for a tenant that is neither on trial nor active;
- a message whose template is off leaves no row, so that it is not told later either;
- SMS and push are handed over before the commit, so a lost commit sends again or
  tells of something that did not happen; the sweeps that settle payments and
  parcels pass no `app_state` and tell nobody; a preferences row without hours
  loses the tenant's quiet hours; a message that was suppressed blocks its key;
- a preset writes back the whole draft it read; the first two requests of a store
  race to create its theme and one fails; of two publishes at once one fails; a
  restore checks neither contrast nor features again;
- a reply that read a ticket before it was closed reopens it, one to a resolved
  ticket leaves `resolved_at`.

## Proofs

TLAPS proves, for all values of the constants that satisfy the modules'
assumptions (`ConstantsAssumption` of `OrderPayment`: a finite set of orders,
natural quantities and totals):

- `TypeCorrect`: `Spec => []TypeOK`.
- `SafetyHolds`: `Spec => []SafetyInv`. The four properties below are not
  inductive: that the second capture cannot be paid depends on what open
  transactions hold. `SafetyInv` adds, per order: what placement leaves behind
  (`Placement`), that attempts are numbered without gaps (`Numbered`), that a
  row asks for exactly what is owed (`Owed`), what open transactions exclude
  (`Transactions`), that a row that was verified refers to a captured session
  (`Verified`), and that status, reservations and ledger of an order move
  together (`Settled`). The proof has one lemma per action and a generic lemma
  for the orders an action does not touch.
- `OnePaidHolds`, `PaidIsCapturedHolds`, `ConfirmedIsPaidHolds`,
  `FinalityHolds` follow from it.
- `ShelfHolds`: no unit is promised twice, and what a placement that waits for
  its coupon has checked is still there. It needs that two open placements share
  no variant.
- `KeepsPromiseHolds`: `Spec => KeepsPromise`, every transaction is a step of
  `OrderPromise` or a stutter.
- `BooksHold`: the counters of shelf, coupon, campaign and wallets are the sums of
  what orders hold. `BooksInv` writes each counter as a sum over the set of orders
  in the state that moved it; a step changes one summand or moves one order from
  one set to another, and `SafetyInv` says which. The bound `reserved <= onHand`
  comes from `ShelfInv`.
- `GoodsMoveHolds`, `ParcelBooksHolds`, `ForwardOnlyHolds` (`Shipment`), from
  `ShipmentHolds`. `ShipmentInv` adds what a row, its open booking or
  cancellation and the courier's parcel have in common (`RowMatchesParcel`), and
  that a parcel whose cancellation was accepted is on its way back
  (`WayBack`): without it a cancellation could overwrite a delivery.
- `InspectedHolds`, `RefundBookedHolds`, `GatewayOnceHolds` (`Returns`), from
  `ReturnsHold`. The handlers lock nothing, so `ReturnsInv` says what each open
  transaction may still rely on (`StillHolds`), that the unique index lets one
  refund wait at a time (`OneInsert`), and that without a refund the gateway has
  executed only what was lost (`HistoryOf`). A cancellation that commits late
  changes the status and nothing else, so none of this may rest on the status alone:
  what was received and inspected, and the refund row, carry it.
- `ReturnBooksHold` (`Returns`). Refunds read the sum on the payment, call the
  gateway and write the sum back, so one can overwrite another's. The invariant is
  that no open refund has read more than the gateway executed apart from it
  (`ReadIsCovered`): a sum that is written may be too small, never too large.
- `FourEyesHolds`, `BatchClosesHolds` (`Payouts`), from `PayoutsHold`. What a
  payment counted under the batch's lock still decides correctly when it
  commits, although `MarkFailed` does not wait for that lock (`Locked`).
- `PayoutBooksHold` (`Payouts`). For a vendor that never had two unpaid lines at
  once, what was paid and the line that may still be paid are together within what
  was earned (`VendorBook`); the line was built from what was payable then, and
  earnings only grow. A line is posted when and only when it is paid
  (`PostedLines`).
- `BillingSafeHolds`, `NobodySuspendedEarly` (`Billing`), from `BillingInv`. One
  cycle at a time holds the subscription, and what it is about to write fits what
  is there: it bills the period the subscription is in, which starts where the
  last invoice ended (`CycleSound`). A target of "suspended" was computed from an
  invoice that was overdue by then and, as invoices keep their due day, still is
  (`OverdueBy`).
- `DomainsSafeHolds` (`Domains`). That a host is served only if it was proved has
  to hold on the whole way from the rows through the readers into the cache, and
  for what a verification is about to write (`ProvedRows`, `ProvedReaders`,
  `ProvedCache`, `ProvedVerifies`); nothing takes a proof back.
- `BuildsSafeHolds` (`AppBuilds`). Numbers of a version have no gaps, so a number
  that was read is the next one or has been taken, and then the unique index
  refuses it (`AskSound`). A claim holds rows that are queued and a runner rows that
  no longer are (`Hands`).
- `DisputesSafeHolds`, from `DisputesHold`. `OneDispute` and `HoldComesOff` need
  that an open message or resolution is about a case that was opened
  (`Grounded`), which no commit takes back; a message may only be written from
  an unsettled case, but commits on whatever the case is by then, so the index
  is what keeps the sub-order to one.
- `ThemeSafeHolds`, from `ThemeHolds`. `ThemeInv` says of each open transaction
  what its version and its palette are (`DesignersFit`), that at most one holds
  the theme's row, that every version was checked when inserted (`RowsFit`), and
  that a vendor's published accent fits the version it was read on (`ShopFits`);
  versions are append-only, so what was read stays true.
- `CatalogSafeHolds`, `ModeratedFirstHolds` (`Catalog`). A row that an editor will write is the row under
  its lock plus its movement (`VariantSound`); the price an editor counted is the
  lowest of what it sees until somebody else's change of another variant is counted
  too, which `raced` remembers (`RaceKnown`). The lowest price of a set exists
  because the natural numbers are well founded. Where a vendor is moderated, an open
  update approves only what was approved already (`ProductSound`), and it holds the
  product, so that no decision of a moderator comes in between (`SentBack`).
- `NotificationsSafeHolds` (`Notifications`). A key is inserted by one open
  transaction at a time (`OneInserts`), and a message went once for its row or for
  the open transaction that delivered it, and once more for each commit that was
  lost (`SentBound`). A campaign is locked by whoever sends it (`OneCampaign`), so
  its count is of the rows written with it. An open fact is still to be told, is told,
  or is silent because its template was off (`HandSound`).
- `TeamSafeHolds`, from `TeamHolds`. `TeamInv` says that the columns an open
  request will write pass the rank of who asked (`Sound`); a request that makes a
  manager was the owner's when it was checked, and the owner never changes.
- `VendorsSafeHolds`, from `VendorsHold`. `VendorsInv` says that a shop's events
  are a path through the table of transitions that ends at its status
  (`Histories`), that a shop approved without a lock was vetted when it was
  looked at and stays so (`Relies`), and that one request holds the lock of a
  shop's row and one that of the invitation (`Alone`).
- `DestinationSafeHolds`, from `DestinationHolds`. The key that marks a token as
  used outlives the token, and whoever writes a destination has used one that
  nobody else has (`TokensUsed`); destinations follow one another and a batch is
  drafted for one that was made (`InOrder`).
- `SupportSafeHolds` (`Support`). Whoever opens a ticket holds the counter and is
  alone with that ticket; a message is about a ticket that is there (`CallSound`).
- `ReviewsSafeHolds` (`Reviews`). What an open refresh has counted was published
  before, or is the review it publishes itself (`DeskSound`).
- `IntakeSafeHolds` (`Intake`), of photos and files apart. A photo at work is not
  ready and has put its rendition before it becomes so; a file at work has written
  whole rows of its own, over the pieces that are held, and one file at a time has
  written a variant (`BatchSound`, `OneWriter`). A crash undoes what is open and
  nothing else.
- `AccountsSafeHolds` (`Accounts`), with the action property `DecidedStays`. Of a
  session only the last token can be live (`LiveIsLast`), and an open rotation has
  locked it; an open verification has a code nobody used, an open deletion an
  undecided request (`DeviceSound`), and no two requests hold the same row
  (`Apart`).

Each invariant `XInv` is inductive: the proof has a lemma for the first state, one
per action or commit, and one that `XInv` implies what the run checks. What makes
the properties alone not inductive is nearly always the same: an open transaction
acts on what it read, so the invariant must say what of that is still true, and
why nobody else took it back - a lock, an index, or rows that only grow.

The books are sums over sets. The library's induction theorems take an operator as
a parameter, which the provers cannot instantiate; `Sums_proofs` proves its lemmas
by a smallest counterexample (`SmallestSubset`): of the subsets of a finite set that
violate a lemma one includes no other, and one element less is a contradiction.

The named assumptions of the modules are what the proofs use: bounds are natural
numbers, "none" is not the name of a sub-order, the scheduler is not a member of
finance, a session may have a token, and the rows that are counted or summed
(orders, sub-orders, returns, periods, builds, tickets, buyers) are finitely
many.

Only model-checked: liveness, because this TLAPS proves nothing of ENABLED and so of
fairness: `HeldStockResolves`, `AuthorisedIsExecuted`, `StatusFollowsInvoices`,
`HostsFollow`, `QueueEmpties`, `ReturnArrives`, `OverdueEscalates`,
`TakenDownLeaves` and `CacheCatchesUp`; and the four runs that
expect a violation. Every other property of the runs, state or action, is a
theorem.

## Not modelled

- Arithmetic of quotes (`checkout/pricing.py`), proration of refunds, amounts of
  the lines of a ledger group, the percentage reserve and tax documents: money is
  a small number, and what is proved is when and how often it moves.
- Configuration that only validates its input: plans, attributes, categories,
  shipping zones, sections of a theme, templates, app profiles, permissions of
  roles.
- Reporting: roll-ups recomputed from other components' rows.
- `core`: row level security and sessions appear as the shape of the modules, one
  tenant and one transaction at a time.
- The clients (`apps/web`, the Flutter apps): callers without state the service
  relies on; the generated API contract under `packages`.

What a further extension would take first: an abstract `VendorAccount` that
`Payouts` implements when its periods do not overlap, with a proof of the
refinement; the percentage reserve; proration as functions against a reference.
