------------------------------- MODULE Theme -------------------------------
(* A store's look: its draft, the versions that are published and the one that is *)
(* live, the cache in front of it, and the page of one vendor, whose accent must  *)
(* stay readable on the live palette (modules/theme).                             *)
EXTENDS Integers, Sequences

CONSTANTS
    Designers,   \* transactions open at the same time
    Palettes,    \* what is kept of a theme's document
    Legible,     \* the palettes whose own text is readable: check_tokens() has no issue
    Presets,     \* the palettes that come with the program
    Minimal,     \* the one a new store starts with
    Accents,
    Readable,    \* <<accent, palette>> that can be read together
    MaxVersions, \* versions that are ever inserted
    MaxDrafts    \* drafts that are ever written

ASSUME ThemeAssumption ==
    /\ Minimal \in Presets /\ Presets \subseteq Legible /\ Legible \subseteq Palettes
    /\ Readable \subseteq Accents \X Palettes
    /\ {MaxVersions, MaxDrafts} \subseteq Nat

Nothing == "nothing"

VARIABLES
    themed,      \* the tenant_themes row exists
    draftDoc,    \* its draft_document
    versions,    \* theme_versions, append-only, in the order of their numbers
    live,        \* published_version_id, as an index of versions; 0 for NULL
    cached,      \* the version in the cache entry theme:published; 0 for none
    shopfront,   \* vendor_store_themes of one vendor: draft, published
    readOn,      \* ghost: the version the published accent was last checked on
    designer,    \* the open transaction
    drafts       \* drafts written so far

lookVars == <<themed, draftDoc, versions, live>>
shopVars == <<shopfront, readOn>>
themeVars == <<lookVars, cached, shopVars, designer, drafts>>

Away == [op |-> "away"]
Working(d) == designer[d] # Away
At(d, op, phase) == Working(d) /\ designer[d].op = op /\ designer[d].phase = phase
Opens(d, op, x, n) ==
    designer' = [designer EXCEPT ![d] = [op |-> op, phase |-> "read", x |-> x, n |-> n]]
Leaves(d) == designer' = [designer EXCEPT ![d] = Away]
Moves(d, phase) == designer' = [designer EXCEPT ![d].phase = phase]

\* The update of the tenant_themes row holds it until the commit.
RowHeld == \E d \in Designers : Working(d) /\ designer[d].phase = "written"

ThemeInit ==
    /\ themed = FALSE /\ draftDoc = Minimal /\ versions = <<>> /\ live = 0
    /\ cached = 0
    /\ shopfront = [draft |-> Nothing, published |-> Nothing] /\ readOn = 0
    /\ designer = [d \in Designers |-> Away] /\ drafts = 0

\* ensure_theme(): the first request of a store inserts the row with the preset and
\* its first version.  Another one that started without the row waits and fails.
EnsureTheme ==
    /\ ~themed
    /\ themed' = TRUE /\ draftDoc' = Minimal
    /\ versions' = <<Minimal>> /\ live' = 1
    /\ UNCHANGED <<cached, shopVars, designer, drafts>>

\* save_draft(): the whole document, over whatever is there.
SaveDraft ==
    /\ themed /\ ~RowHeld /\ drafts < MaxDrafts
    /\ draftDoc' \in Palettes /\ drafts' = drafts + 1
    /\ UNCHANGED <<themed, versions, live, cached, shopVars, designer>>

\* apply_preset(): the draft with the palette of a preset.  (The rest of the document,
\* read before it is written back, is not modelled.)
ApplyPreset ==
    /\ themed /\ ~RowHeld /\ drafts < MaxDrafts
    /\ draftDoc' \in Presets /\ drafts' = drafts + 1
    /\ UNCHANGED <<themed, versions, live, cached, shopVars, designer>>

\* publish(): the draft is read and its contrast checked; max(number) + 1 is read.
PublishReads(d) ==
    /\ ~Working(d) /\ themed /\ Len(versions) < MaxVersions
    /\ draftDoc \in Legible
    /\ Opens(d, "publish", draftDoc, Len(versions) + 1)
    /\ UNCHANGED <<lookVars, cached, shopVars, drafts>>

\* UNIQUE (tenant_id, number): the insert waits for another of the same number, and
\* fails when that one is committed.
NumberIsFree(d) == designer[d].n = Len(versions) + 1

\* The version, the pointer, and the cache entry deleted before the commit.
PublishWrites(d) ==
    /\ At(d, "publish", "read") /\ ~RowHeld /\ NumberIsFree(d)
    /\ Moves(d, "written") /\ cached' = 0
    /\ UNCHANGED <<lookVars, shopVars, drafts>>
PublishFails(d) ==
    /\ At(d, "publish", "read") /\ ~RowHeld /\ ~NumberIsFree(d)
    /\ Leaves(d)
    /\ UNCHANGED <<lookVars, cached, shopVars, drafts>>

\* Mutant: what is published is the draft as it is by then.
Published_late(d) == draftDoc

\* The document that is inserted is the one that was checked.
Published(d) == designer[d].x
PublishCommits(d) ==
    /\ At(d, "publish", "written")
    /\ versions' = Append(versions, Published(d)) /\ live' = designer[d].n
    /\ Leaves(d)
    /\ UNCHANGED <<themed, draftDoc, cached, shopVars, drafts>>

\* restore(): the pointer goes back to a version, and the draft follows.
RestoreWrites(d) ==
    /\ ~Working(d) /\ themed /\ ~RowHeld /\ drafts < MaxDrafts
    /\ \E v \in DOMAIN versions :
         designer' = [designer EXCEPT ![d] = [op |-> "restore", phase |-> "written", x |-> Nothing, n |-> v]]
    /\ cached' = 0 /\ drafts' = drafts + 1
    /\ UNCHANGED <<lookVars, shopVars>>
RestoreCommits(d) ==
    /\ At(d, "restore", "written")
    /\ live' = designer[d].n /\ draftDoc' = versions[designer[d].n]
    /\ Leaves(d)
    /\ UNCHANGED <<themed, versions, cached, shopVars, drafts>>

-----------------------------------------------------------------------------
\* published_document(): the cache entry, or else the live version, which is then
\* cached.  Between its reads and its write a version may be published.
Miss(d) ==
    /\ ~Working(d) /\ themed /\ cached = 0
    /\ Opens(d, "serve", Nothing, live)
    /\ UNCHANGED <<lookVars, cached, shopVars, drafts>>
Fills(d) ==
    /\ At(d, "serve", "read")
    /\ cached' = designer[d].n
    /\ Leaves(d)
    /\ UNCHANGED <<lookVars, shopVars, drafts>>

\* Mutant: the entry has no lifetime.
CacheExpires_never == FALSE /\ UNCHANGED themeVars

\* PUBLISHED_TTL.
CacheExpires ==
    /\ cached # 0 /\ cached' = 0
    /\ UNCHANGED <<lookVars, shopVars, designer, drafts>>

\* _validate() of a vendor's accent, on the document that published_document() gives;
\* the fill of the cache that may be part of it is Miss and Fills.
Serves == IF cached # 0 THEN cached ELSE live
ReadableOn(accent, v) == <<accent, versions[v]>> \in Readable

\* The vendor's publish reads the row FOR UPDATE.
ShopLocked == \E d \in Designers : At(d, "shop publish", "read")

\* put_draft() of the vendor's page, in two steps; it waits for a publish in progress.
ShopDraftReads(d) ==
    /\ ~Working(d) /\ themed /\ drafts < MaxDrafts
    /\ \E a \in Accents : ReadableOn(a, Serves) /\ Opens(d, "shop draft", a, Serves)
    /\ UNCHANGED <<lookVars, cached, shopVars, drafts>>
ShopDraftCommits(d) ==
    /\ At(d, "shop draft", "read") /\ ~ShopLocked /\ drafts < MaxDrafts
    /\ shopfront' = [shopfront EXCEPT !.draft = designer[d].x] /\ drafts' = drafts + 1
    /\ Leaves(d)
    /\ UNCHANGED <<lookVars, cached, readOn>>

\* publish() of the vendor's page: the row is locked, its draft checked on the palette
\* that is served, and published = draft.
ShopPublishReads(d) ==
    /\ ~Working(d) /\ themed /\ ~ShopLocked
    /\ shopfront.draft # Nothing /\ ReadableOn(shopfront.draft, Serves)
    /\ Opens(d, "shop publish", Nothing, Serves)
    /\ UNCHANGED <<lookVars, cached, shopVars, drafts>>
ShopPublishCommits(d) ==
    /\ At(d, "shop publish", "read")
    /\ shopfront' = [shopfront EXCEPT !.published = shopfront.draft] /\ readOn' = designer[d].n
    /\ Leaves(d)
    /\ UNCHANGED <<lookVars, cached, drafts>>

\* A request that fails before its commit; the cache keeps what was deleted or filled.
DesignerFails(d) ==
    /\ Working(d) /\ Leaves(d)
    /\ UNCHANGED <<lookVars, cached, shopVars, drafts>>

DesignerStep(d) ==
    \/ PublishWrites(d) \/ PublishFails(d) \/ PublishCommits(d) \/ RestoreCommits(d)
    \/ Fills(d) \/ ShopDraftCommits(d) \/ ShopPublishCommits(d)

ThemeNext ==
    \/ EnsureTheme \/ SaveDraft \/ ApplyPreset \/ CacheExpires
    \/ \E d \in Designers :
         \/ DesignerStep(d) \/ DesignerFails(d)
         \/ PublishReads(d) \/ RestoreWrites(d) \/ Miss(d)
         \/ ShopDraftReads(d) \/ ShopPublishReads(d)

ThemeSpec == ThemeInit /\ [][ThemeNext]_themeVars

\* Some request goes on, and a cache entry expires.
ThemeFairness ==
    /\ WF_themeVars(\E d \in Designers : DesignerStep(d) \/ DesignerFails(d))
    /\ WF_themeVars(CacheExpires)

-----------------------------------------------------------------------------
\* The types of the rows; what is live or cached is a version that is committed.
ThemeTypeOK ==
    /\ themed \in BOOLEAN /\ draftDoc \in Palettes /\ versions \in Seq(Palettes)
    /\ live \in DOMAIN versions \cup {0} /\ (themed <=> live # 0)
    /\ cached \in DOMAIN versions \cup {0}
    /\ shopfront \in [draft : Accents \cup {Nothing}, published : Accents \cup {Nothing}]
    /\ readOn \in DOMAIN versions \cup {0} /\ drafts \in 0 .. MaxDrafts

\* What shoppers are served passed the contrast check, whoever writes the draft while
\* it is published and whichever version is restored.
LegibleServed ==
    /\ cached # 0 => versions[cached] \in Legible
    /\ live # 0 => versions[live] \in Legible

\* A vendor's published accent was readable on the version it was published on, though
\* its draft may have been saved on an older one.
AccentReads == shopfront.published # Nothing => ReadableOn(shopfront.published, readOn)

\* Once the last version is published or restored, the cache comes to hold the live
\* version or none, although an entry may have been written after it was deleted.
CacheCatchesUp == <>[](cached \in {0, live})

\* What the looks of a store and of its vendors keep in every state (theme/service.py,
\* vendor_store.py): rows of their types, and nothing published that cannot be read.
ThemeSafe == ThemeTypeOK /\ LegibleServed /\ AccentReads
=============================================================================
