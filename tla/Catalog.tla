------------------------------- MODULE Catalog -------------------------------
(* One product of a vendor: its variants and their stock ledger, the rollup of   *)
(* prices its cards show, moderation, photos, and the storefront's cached page.  *)
(* A handler is a transaction: it locks and reads, counts the rollup with the    *)
(* snapshot of one statement, tells the storefront, and only then commits.       *)
EXTENDS Integers, FiniteSets

CONSTANTS
    Editors,     \* requests of the vendor open at the same time
    Variants,
    Prices,
    MaxStock,
    MaxHandled     \* handlers begun, and decisions of the moderators

ASSUME CatalogAssumption == Prices \subseteq Nat \ {0} /\ {MaxStock, MaxHandled} \subseteq Nat

VARIABLES
    store,       \* tenant_settings.moderation_mode; whether the vendor has other approved products
    variant,     \* product_variants, price 0 where there is none
    moves,       \* inventory_movements of a variant: the sum, and the last balance
    product,     \* products: status, moderation, photos, min_price
    edit,        \* the open transaction of an editor
    handled,
    page,        \* whether the storefront has the product's page cached
    raced,       \* ghost: two rollups were counted while both had a variant to commit
    seen         \* ghost: whether a moderator ever approved the product, and live content changed since

stock == <<variant, moves>>
ghosts == <<raced, seen>>
catalogVars == <<store, stock, product, edit, handled, page, ghosts>>

Modes == {"none", "first_listing", "all"}
Rest == [phase |-> "idle"]
NoVariant == [price |-> 0, active |-> FALSE, onhand |-> 0, reserved |-> 0]

Writing(e) == edit[e].phase # "idle"
Changes(e, v) == Writing(e) /\ edit[e].tx.op = "variant" /\ edit[e].tx.variant = v
VariantLocked(v) == \E e \in Editors : Changes(e, v)

\* FOR UPDATE of the product at the start, or its row written by the rollup.
ProductLocked(e) ==
    \E f \in Editors \ {e} : Writing(f) /\ (edit[f].tx.locks \/ edit[f].phase = "told")

Selling(rows) == {v \in Variants : rows[v].active}
MinPrice(rows) ==
    IF Selling(rows) = {} THEN 0
    ELSE CHOOSE p \in Prices :
        /\ \E v \in Selling(rows) : rows[v].price = p
        /\ \A v \in Selling(rows) : p <= rows[v].price

\* VISIBLE, for a vendor that is approved.
Visible == product.status = "active" /\ product.verdict = "approved"

-----------------------------------------------------------------------------
CatalogInit ==
    /\ store \in [mode : Modes, trusted : {FALSE}] \cup [mode : {"first_listing"}, trusted : {TRUE}]
    /\ variant = [v \in Variants |-> NoVariant]
    /\ moves = [v \in Variants |-> [sum |-> 0, last |-> 0]]
    /\ product = [status |-> "none", verdict |-> "pending", photos |-> 0, min |-> 0]
    /\ edit = [e \in Editors |-> Rest]
    /\ handled = 0
    /\ page = FALSE
    /\ raced = FALSE /\ seen = "never"

\* create_product() with one variant; nobody else sees its rows before the commit.
CreateProduct(v, p, n) ==
    /\ product.status = "none"
    /\ variant' = [variant EXCEPT ![v] =
           [price |-> p, active |-> TRUE, onhand |-> n, reserved |-> 0]]
    /\ moves' = [moves EXCEPT ![v] = [sum |-> n, last |-> n]]
    /\ product' = [product EXCEPT !.status = "draft", !.min = p]
    /\ UNCHANGED <<store, edit, handled, page, ghosts>>

Begin(e, tx) ==
    /\ ~Writing(e) /\ product.status # "none" /\ handled < MaxHandled
    /\ handled' = handled + 1
    /\ edit' = [edit EXCEPT ![e] = [phase |-> "changed", tx |-> tx, min |-> 0]]
    /\ UNCHANGED <<store, stock, product, page, ghosts>>

OfVariant(v, row, delta, locks) ==
    [op |-> "variant", variant |-> v, row |-> row, delta |-> delta, locks |-> locks]

\* Mutant: stock is changed without a lock.
StockLocked_never(v) == FALSE

\* update_variant(): price and is_active, with the variant's row locked.
UpdateVariant(e, v) ==
    /\ variant[v].price # 0 /\ ~VariantLocked(v)
    /\ \E p \in Prices, act \in BOOLEAN :
         Begin(e, OfVariant(v, [variant[v] EXCEPT !.price = p, !.active = act], 0, FALSE))

\* change_stock(), adjust_stock(): not below what is reserved.
StockLocked(v) == VariantLocked(v)
ChangeStock(e, v, delta) ==
    LET new == variant[v].onhand + delta IN
    /\ variant[v].price # 0 /\ ~StockLocked(v)
    /\ variant[v].reserved <= new /\ new <= MaxStock
    /\ Begin(e, OfVariant(v, [variant[v] EXCEPT !.onhand = new], delta, FALSE))

\* add_variant() locks the product; the sku and the options are unique.
AddVariant(e, v, p, n) ==
    /\ variant[v].price = 0 /\ ~VariantLocked(v) /\ ~ProductLocked(e)
    /\ Begin(e, OfVariant(v, [price |-> p, active |-> TRUE, onhand |-> n, reserved |-> 0], n, TRUE))

\* Mutant: a product that was rejected counts as one that was listed.
NeedsModeration_listed ==
    \/ store.mode = "all"
    \/ store.mode = "first_listing" /\ ~store.trusted /\ product.verdict = "pending"

\* _needs_moderation()
NeedsModeration ==
    \/ store.mode = "all"
    \/ store.mode = "first_listing" /\ ~store.trusted /\ product.verdict # "approved"

\* The moderation_status an update leaves.
Verdict(to, content) ==
    IF to = "active" /\ (product.verdict # "approved" \/ (content /\ store.mode = "all"))
    THEN IF NeedsModeration THEN "pending" ELSE "approved"
    ELSE product.verdict

\* update_product(): locks the product; publishing needs a photo.
UpdateProduct(e, to, content) ==
    /\ ~ProductLocked(e)
    /\ to = "active" => product.photos > 0
    /\ Begin(e, [op |-> "product", status |-> to, verdict |-> Verdict(to, content),
                 content |-> content, locks |-> TRUE])

-----------------------------------------------------------------------------
\* The variants as a transaction sees them: what is committed, and its own row.
Sees(e) ==
    LET x == edit[e].tx IN
    IF x.op = "variant" THEN [variant EXCEPT ![x.variant] = x.row] ELSE variant

\* _refresh_rollups() counts with the snapshot of its statement; if the product's row
\* is taken it waits, with what it counted.
Counts(e) ==
    /\ edit[e].phase = "changed"
    /\ edit' = [edit EXCEPT ![e] = [@ EXCEPT !.phase = "counted", !.min = MinPrice(Sees(e))]]
    /\ raced' = (raced \/ (edit[e].tx.op = "variant" /\ \E f \in Editors :
           edit[f].phase \in {"counted", "told"} /\ edit[f].tx.op = "variant"))
    /\ UNCHANGED <<store, stock, product, handled, page, seen>>

\* The product's row is written, and the storefront is told to drop the page, if the
\* call reaches it.
Tells(e) ==
    /\ edit[e].phase = "counted"
    /\ ~ProductLocked(e)
    /\ edit' = [edit EXCEPT ![e] = [@ EXCEPT !.phase = "told"]]
    /\ page' \in {FALSE, page}
    /\ UNCHANGED <<store, stock, product, handled, ghosts>>

Commits(e) ==
    LET x == edit[e].tx IN
    /\ edit[e].phase = "told"
    /\ variant' = Sees(e)
    /\ moves' = IF x.op = "variant" /\ x.delta # 0
                THEN [moves EXCEPT ![x.variant] = [sum |-> @.sum + x.delta, last |-> x.row.onhand]]
                ELSE moves
    /\ product' = IF x.op = "product"
                  THEN [product EXCEPT !.status = x.status, !.verdict = x.verdict,
                                       !.min = edit[e].min]
                  ELSE [product EXCEPT !.min = edit[e].min]
    /\ seen' = IF x.op = "product" /\ x.content /\ x.status = "active" /\ seen = "current"
               THEN "changed" ELSE seen
    /\ edit' = [edit EXCEPT ![e] = Rest]
    /\ UNCHANGED <<store, handled, page, raced>>

Aborts(e) ==
    /\ Writing(e)
    /\ edit' = [edit EXCEPT ![e] = Rest]
    /\ UNCHANGED <<store, stock, product, handled, page, ghosts>>

\* moderate(): one UPDATE that waits for the row, whatever the product is by then.
ModerateProduct(to) ==
    /\ product.status # "none" /\ handled < MaxHandled
    /\ \A e \in Editors : ~(Writing(e) /\ (edit[e].tx.locks \/ edit[e].phase = "told"))
    /\ handled' = handled + 1
    /\ product' = [product EXCEPT !.verdict = to]
    /\ seen' = IF to = "approved" THEN "current" ELSE seen
    /\ page' \in {FALSE, page}
    /\ UNCHANGED <<store, stock, edit, raced>>

\* attach_media() and detach_media(): detaching the last photo takes nothing off sale.
AttachMedia ==
    /\ product.status # "none" /\ product.photos = 0
    /\ \A e \in Editors : ~(Writing(e) /\ (edit[e].tx.locks \/ edit[e].phase = "told"))
    /\ product' = [product EXCEPT !.photos = 1]
    /\ page' \in {FALSE, page}
    /\ UNCHANGED <<store, stock, edit, handled, ghosts>>
DetachMedia ==
    /\ product.photos = 1
    /\ product' = [product EXCEPT !.photos = 0]
    /\ page' \in {FALSE, page}
    /\ UNCHANGED <<store, stock, edit, handled, ghosts>>

\* Checkout reserves and releases under the variant's lock, and refreshes no rollup.
ReserveStock(v) ==
    /\ Visible /\ variant[v].active /\ ~VariantLocked(v)
    /\ variant[v].reserved < variant[v].onhand
    /\ variant' = [variant EXCEPT ![v].reserved = @ + 1]
    /\ UNCHANGED <<store, moves, product, edit, handled, page, ghosts>>
ReleaseStock(v) ==
    /\ variant[v].reserved > 0 /\ ~VariantLocked(v)
    /\ variant' = [variant EXCEPT ![v].reserved = @ - 1]
    /\ UNCHANGED <<store, moves, product, edit, handled, page, ghosts>>

\* Mutant: the page has no lifetime.
PageExpires_never == FALSE /\ UNCHANGED catalogVars

\* The storefront renders product_detail() and keeps the page until it is too old.
Render ==
    /\ ~page /\ Visible
    /\ page' = TRUE
    /\ UNCHANGED <<store, stock, product, edit, handled, ghosts>>
PageExpires ==
    /\ page
    /\ page' = FALSE
    /\ UNCHANGED <<store, stock, product, edit, handled, ghosts>>

-----------------------------------------------------------------------------
EditorStep(e) ==
    \/ Counts(e) \/ Tells(e) \/ Commits(e) \/ Aborts(e)
    \/ \E to \in {"draft", "active", "archived"}, content \in BOOLEAN : UpdateProduct(e, to, content)
    \/ \E v \in Variants :
         \/ UpdateVariant(e, v)
         \/ \E delta \in {-1, 1} : ChangeStock(e, v, delta)
         \/ \E p \in Prices, n \in 0 .. 1 : AddVariant(e, v, p, n)

CatalogNext ==
    \/ \E e \in Editors : EditorStep(e)
    \/ \E v \in Variants : ReserveStock(v) \/ ReleaseStock(v)
    \/ \E v \in Variants, p \in Prices, n \in 0 .. 1 : CreateProduct(v, p, n)
    \/ \E to \in {"approved", "rejected"} : ModerateProduct(to)
    \/ AttachMedia \/ DetachMedia \/ Render \/ PageExpires

CatalogSpec == CatalogInit /\ [][CatalogNext]_catalogVars
\* The storefront keeps no page for ever.
CatalogFairness == WF_catalogVars(PageExpires)
FairCatalogSpec == CatalogSpec /\ CatalogFairness

-----------------------------------------------------------------------------
VariantRow == [price : {0} \cup Prices, active : BOOLEAN, onhand : Nat, reserved : Nat]
Verdicts == {"pending", "approved", "rejected"}
ProductStatus == {"draft", "active", "archived"}
Sights == {"never", "current", "changed"}

\* The types of the rows and of the open transactions.
CatalogTypeOK ==
    /\ store \in [mode : Modes, trusted : BOOLEAN]
    /\ variant \in [Variants -> VariantRow]
    /\ moves \in [Variants -> [sum : Nat, last : Nat]]
    /\ product \in [status : ProductStatus \cup {"none"}, verdict : Verdicts,
                    photos : 0 .. 1, min : {0} \cup Prices]
    /\ edit \in [Editors -> {Rest} \cup
         [phase : {"changed", "counted", "told"}, min : {0} \cup Prices,
          tx : [op : {"variant"}, variant : Variants, row : VariantRow, delta : Int, locks : BOOLEAN]
               \cup [op : {"product"}, status : ProductStatus, verdict : Verdicts,
                     content : BOOLEAN, locks : {TRUE}]]]
    /\ handled \in 0 .. MaxHandled
    /\ page \in BOOLEAN /\ raced \in BOOLEAN /\ seen \in Sights

\* The movements of a variant explain its stock, and what is reserved is there,
\* however many adjustments and reservations meet.
LedgerExplains ==
    \A v \in Variants :
        /\ moves[v].sum = variant[v].onhand /\ moves[v].last = variant[v].onhand
        /\ variant[v].reserved <= variant[v].onhand

\* The card's price is the lowest the product sells at, unless two changes of two of
\* its variants were counted at the same time.
CardPrice == product.status # "none" /\ ~raced => product.min = MinPrice(variant)

\* However edits, drafts, re-saves and decisions follow each other, a vendor's first
\* listing is never for sale where it must be moderated and no moderator ever approved
\* it; and where everything is moderated, live content that was changed is not for sale
\* until a moderator approves it again.  (What is changed while the product is a draft or
\* archived is not followed: a product that was approved before goes live with it unseen.)
ModeratedFirst ==
    Visible => /\ store.mode = "first_listing" /\ ~store.trusted => seen # "never"
               /\ store.mode = "all" => seen = "current"

\* A product that is taken off sale leaves the storefront, although the storefront is
\* told before the commit and may not be reached at all.
TakenDownLeaves == <>[](~Visible) => <>[](~page)

\* What the catalog keeps in every state (catalog/products.py): rows of their types,
\* stock its movements explain and a piece for every reservation, and the card's lowest
\* price.
CatalogSafe == CatalogTypeOK /\ LedgerExplains /\ CardPrice
=============================================================================
