---------------------------- MODULE Market_proofs -----------------------------
(***************************************************************************)
(* What the components of a store at work keep in every state, for every   *)
(* number of requests, editors and buyers: its look, the disputes about    *)
(* its orders, its products, and what its buyers are told.                 *)
(***************************************************************************)
EXTENDS Disputes, Catalog, Notifications, Theme,
        SequenceTheorems, FiniteSetTheorems, WellFoundedInduction, TLAPS

-----------------------------------------------------------------------------
(* Theme: the inductive invariant *)

\* Every version there is passed the contrast check, and what points at a version
\* points at one that is committed.
RowsFit ==
  /\ themed \in BOOLEAN /\ draftDoc \in Palettes /\ drafts \in 0 .. MaxDrafts
  /\ versions \in Seq(Legible)
  /\ live \in 0 .. Len(versions) /\ (themed <=> live # 0)
  /\ cached \in 0 .. Len(versions)
  /\ ~themed => versions = <<>>

\* The published accent can be read on the version it was checked on.
ShopFits ==
  /\ shopfront \in [draft : Accents \cup {Nothing}, published : Accents \cup {Nothing}]
  /\ readOn \in 0 .. Len(versions)
  /\ shopfront.published # Nothing =>
       readOn # 0 /\ <<shopfront.published, versions[readOn]>> \in Readable

\* What an open transaction relies on without a lock, or under the one it holds: the
\* document it checked, the version it read, the number it inserts, and the accent
\* that nobody replaces while the row is locked.
Fits(a, vs, accent) ==
  a # Away =>
    /\ a \in [op : {"publish", "restore", "serve", "shop draft", "shop publish"},
              phase : {"read", "written"}, x : Palettes \cup Accents \cup {Nothing}, n : Nat]
    /\ a.op = "publish" => a.x \in Legible
    /\ a.op = "publish" /\ a.phase = "written" => a.n = Len(vs) + 1
    /\ a.op \in {"restore", "serve", "shop publish"} => a.n \in 1 .. Len(vs)
    /\ a.op = "shop draft" => a.x \in Accents
    /\ a.op = "shop publish" => a.phase = "read" /\ accent # Nothing /\ <<accent, vs[a.n]>> \in Readable

Holds(d) == Working(d) /\ designer[d].phase = "written"

DesignersFit ==
  /\ DOMAIN designer = Designers
  /\ \A d \in Designers : Fits(designer[d], versions, shopfront.draft)
  /\ \A d, e \in Designers : Holds(d) /\ Holds(e) => d = e
  /\ ~themed => \A d \in Designers : ~Working(d)

ThemeInv == RowsFit /\ ShopFits /\ DesignersFit

-----------------------------------------------------------------------------
(* Theme: open transactions *)

LEMMA Longer == \A m, n \in Nat : m <= n => \A i \in 1 .. m : i \in 1 .. n
  OBVIOUS

LEMMA FromOne == \A n \in Nat : \A i \in 1 .. n : i \in 0 .. n /\ i # 0
  OBVIOUS

LEMMA OneMore == \A m \in Nat : \A n \in 0 .. m : n < m => n + 1 \in 0 .. m
  OBVIOUS

\* A transaction is not disturbed by another version, unless it inserts one itself,
\* nor by another accent, unless it has locked the row.
LEMMA StillFits ==
  ASSUME NEW a, NEW vs \in Seq(Legible), NEW ws \in Seq(Legible), NEW before, NEW after,
         Fits(a, vs, before),
         Len(vs) <= Len(ws), \A v \in 1 .. Len(vs) : ws[v] = vs[v],
         Len(vs) = Len(ws) \/ a.phase # "written" \/ a = Away,
         after = before \/ a.op # "shop publish" \/ a = Away
  PROVE  Fits(a, ws, after)
<1> SUFFICES ASSUME a # Away
             PROVE  Fits(a, ws, after)
  BY DEF Fits
<1>1. Len(vs) \in Nat /\ Len(ws) \in Nat
  BY LenProperties
<1>2. a.op \in {"restore", "serve", "shop publish"} => a.n \in 1 .. Len(ws) /\ ws[a.n] = vs[a.n]
  <2> SUFFICES ASSUME a.op \in {"restore", "serve", "shop publish"}
               PROVE  a.n \in 1 .. Len(ws) /\ ws[a.n] = vs[a.n]
    OBVIOUS
  <2>1. a.n \in 1 .. Len(vs)
    BY DEF Fits
  <2>3. a.n \in 1 .. Len(ws)
    BY <1>1, <2>1, Longer
  <2> QED
    BY <2>1, <2>3
<1>3. a.op = "shop publish" => after # Nothing /\ <<after, ws[a.n]>> \in Readable
  BY <1>2 DEF Fits
<1> QED
  BY <1>2, <1>3 DEF Fits

\* Nobody else writes while one transaction opens, goes on or ends, and the rows the
\* others rely on are theirs.
LEMMA OneMoves ==
  ASSUME ThemeInv, NEW d \in Designers, NEW a,
         designer' = [designer EXCEPT ![d] = a],
         Fits(a, versions', shopfront'.draft),
         themed' = themed, themed \/ a = Away,
         versions' \in Seq(Legible), Len(versions) <= Len(versions'),
         \A v \in 1 .. Len(versions) : versions'[v] = versions[v],
         Len(versions) = Len(versions') \/ \A e \in Designers \ {d} : ~Holds(e),
         shopfront'.draft = shopfront.draft \/ ~ShopLocked,
         a # Away /\ a.phase = "written" => \A e \in Designers \ {d} : ~Holds(e)
  PROVE  DesignersFit'
<1>1. \A e \in Designers : designer'[e] = IF e = d THEN a ELSE designer[e]
  BY DEF ThemeInv, DesignersFit
<1>2. DOMAIN designer' = Designers
  BY DEF ThemeInv, DesignersFit
<1>3. ASSUME NEW e \in Designers
      PROVE  Fits(designer'[e], versions', shopfront'.draft)
  <2>1. CASE e = d
    BY <1>1, <2>1
  <2>2. CASE e # d
    <3>1. designer'[e] = designer[e]
      BY <1>1, <2>2
    <3>2. Fits(designer[e], versions, shopfront.draft) /\ versions \in Seq(Legible)
      BY DEF ThemeInv, DesignersFit, RowsFit
    <3>3. Len(versions) = Len(versions') \/ designer[e].phase # "written" \/ designer[e] = Away
      BY <2>2 DEF Holds, Working
    <3>4. shopfront'.draft = shopfront.draft \/ designer[e].op # "shop publish" \/ designer[e] = Away
      <4>1. CASE ~ShopLocked /\ designer[e].op = "shop publish" /\ designer[e] # Away
        <5>1. designer[e].phase = "read"
          BY <4>1, <3>2 DEF Fits
        <5> QED
          BY <4>1, <5>1 DEF ShopLocked, At, Working
      <4> QED
        BY <4>1
    <3> QED
      BY <3>1, <3>2, <3>3, <3>4, StillFits
  <2> QED
    BY <2>1, <2>2
<1>4. ASSUME NEW e \in Designers, NEW g \in Designers, Holds(e)', Holds(g)'
      PROVE  e = g
  <2>1. \A c \in Designers \ {d} : Holds(c)' => Holds(c)
    BY <1>1 DEF Holds, Working
  <2>2. Holds(d)' => a # Away /\ a.phase = "written"
    BY <1>1 DEF Holds, Working
  <2> QED
    BY <1>4, <2>1, <2>2 DEF ThemeInv, DesignersFit
<1>5. ~themed' => \A e \in Designers : ~Working(e)'
  BY <1>1 DEF ThemeInv, DesignersFit, Working
<1> QED
  BY <1>2, <1>3, <1>4, <1>5 DEF DesignersFit

\* The same when no version is inserted.
LEMMA OneMovesOn ==
  ASSUME ThemeInv, NEW d \in Designers, NEW a,
         designer' = [designer EXCEPT ![d] = a],
         versions' = versions, themed' = themed, themed \/ a = Away,
         Fits(a, versions, shopfront'.draft),
         shopfront'.draft = shopfront.draft \/ ~ShopLocked,
         a # Away /\ a.phase = "written" => \A e \in Designers \ {d} : ~Holds(e)
  PROVE  DesignersFit'
<1>1. versions \in Seq(Legible)
  BY DEF ThemeInv, RowsFit
<1>2. Len(versions) \in Nat
  BY <1>1, LenProperties
<1>3. Fits(a, versions', shopfront'.draft)
  OBVIOUS
<1>4. versions' \in Seq(Legible) /\ Len(versions) = Len(versions') /\ Len(versions) <= Len(versions')
      /\ \A v \in 1 .. Len(versions) : versions'[v] = versions[v]
  BY <1>1, <1>2
<1> QED
  BY <1>3, <1>4, OneMoves

\* A transaction that ends leaves the others alone.
LEMMA OneLeaves ==
  ASSUME ThemeInv, NEW d \in Designers, designer' = [designer EXCEPT ![d] = Away],
         versions' = versions, themed' = themed,
         shopfront'.draft = shopfront.draft \/ ~ShopLocked
  PROVE  DesignersFit'
<1>1. Fits(Away, versions, shopfront'.draft)
  BY DEF Fits
<1> QED
  BY <1>1, OneMovesOn

\* Without a version, an accent and a transaction that change, the transactions fit.
LEMMA NobodyMoves ==
  ASSUME ThemeInv, UNCHANGED <<themed, versions, shopfront, designer>>
  PROVE  DesignersFit'
BY DEF ThemeInv, DesignersFit, Holds, Working

\* The shop's page fits as long as neither it nor the versions change.
LEMMA ShopStays ==
  ASSUME ThemeInv, UNCHANGED <<shopVars, versions>>
  PROVE  ShopFits'
BY DEF ThemeInv, ShopFits, shopVars

-----------------------------------------------------------------------------
(* Theme: the steps *)

LEMMA EnsureKeeps ==
  ASSUME ThemeInv, EnsureTheme
  PROVE  ThemeInv'
<1>1. /\ ~themed /\ themed' = TRUE /\ draftDoc' = Minimal
      /\ versions' = <<Minimal>> /\ live' = 1
      /\ cached' = cached /\ shopfront' = shopfront /\ readOn' = readOn
      /\ designer' = designer /\ drafts' = drafts
  BY DEF EnsureTheme, shopVars
<1>2. versions = <<>> /\ Len(versions) = 0
  BY <1>1 DEF ThemeInv, RowsFit
<1>3. cached = 0 /\ readOn = 0 /\ shopfront.published = Nothing
  BY <1>2 DEF ThemeInv, RowsFit, ShopFits
<1>4. Minimal \in Legible /\ Minimal \in Palettes
  BY ThemeAssumption DEF ThemeAssumption
<1>5. versions' \in Seq(Legible) /\ Len(versions') = 1
  BY <1>1, <1>4
<1>6. RowsFit'
  BY <1>1, <1>3, <1>4, <1>5 DEF ThemeInv, RowsFit
<1>7. ShopFits'
  BY <1>1, <1>3, <1>5 DEF ThemeInv, ShopFits
<1>8. \A d \in Designers : designer[d] = Away
  BY <1>1 DEF ThemeInv, DesignersFit, Working
<1>9. DesignersFit'
  BY <1>1, <1>8 DEF ThemeInv, DesignersFit, Fits, Holds, Working
<1> QED
  BY <1>6, <1>7, <1>9 DEF ThemeInv

LEMMA DraftKeeps ==
  ASSUME ThemeInv, SaveDraft \/ ApplyPreset
  PROVE  ThemeInv'
<1>1. /\ draftDoc' \in Palettes /\ drafts < MaxDrafts /\ drafts' = drafts + 1
      /\ UNCHANGED <<themed, versions, live, cached, shopVars, designer>>
  BY ThemeAssumption DEF SaveDraft, ApplyPreset, ThemeAssumption
<1>2. RowsFit'
  BY <1>1, ThemeAssumption DEF ThemeInv, RowsFit, ThemeAssumption
<1>3. ShopFits'
  BY <1>1, ShopStays
<1>4. DesignersFit'
  BY <1>1, NobodyMoves DEF shopVars
<1> QED
  BY <1>2, <1>3, <1>4 DEF ThemeInv

LEMMA ExpiryKeeps ==
  ASSUME ThemeInv, CacheExpires
  PROVE  ThemeInv'
<1>1. cached' = 0 /\ UNCHANGED <<lookVars, shopVars, designer, drafts>>
  BY DEF CacheExpires
<1>2. versions \in Seq(Legible)
  BY DEF ThemeInv, RowsFit
<1>3. Len(versions) \in Nat
  BY <1>2, LenProperties
<1>4. RowsFit'
  BY <1>1, <1>3 DEF ThemeInv, RowsFit, lookVars
<1>5. ShopFits'
  BY <1>1, ShopStays DEF lookVars
<1>6. DesignersFit'
  BY <1>1, NobodyMoves DEF shopVars, lookVars
<1> QED
  BY <1>4, <1>5, <1>6 DEF ThemeInv

\* Steps that change nothing but one transaction and perhaps empty the cache.
LEMMA RowsStay ==
  ASSUME ThemeInv, UNCHANGED lookVars, UNCHANGED shopVars,
         cached' = cached \/ cached' = 0, drafts' \in 0 .. MaxDrafts
  PROVE  RowsFit' /\ ShopFits'
<1>1. versions \in Seq(Legible)
  BY DEF ThemeInv, RowsFit
<1>2. Len(versions) \in Nat
  BY <1>1, LenProperties
<1>3. RowsFit'
  BY <1>2, ThemeAssumption DEF ThemeInv, RowsFit, lookVars, ThemeAssumption
<1> QED
  BY <1>3, ShopStays DEF lookVars

LEMMA PublishReadKeeps ==
  ASSUME ThemeInv, NEW d \in Designers, PublishReads(d)
  PROVE  ThemeInv'
<1> DEFINE a == [op |-> "publish", phase |-> "read", x |-> draftDoc, n |-> Len(versions) + 1]
<1>1. /\ themed /\ draftDoc \in Legible /\ designer' = [designer EXCEPT ![d] = a]
      /\ UNCHANGED lookVars /\ UNCHANGED shopVars /\ cached' = cached /\ drafts' = drafts
  BY DEF PublishReads, Opens
<1>2. RowsFit' /\ ShopFits'
  <2>1. drafts' \in 0 .. MaxDrafts
    BY <1>1 DEF ThemeInv, RowsFit
  <2> QED
    BY <1>1, <2>1, RowsStay
<1>3. versions \in Seq(Legible)
  BY DEF ThemeInv, RowsFit
<1>4. Len(versions) + 1 \in Nat
  BY <1>3, LenProperties
<1>5. Fits(a, versions, shopfront'.draft)
  BY <1>1, <1>4, ThemeAssumption DEF Fits, ThemeAssumption
<1>6. a.phase # "written"
  OBVIOUS
<1> HIDE DEF a
<1>7. DesignersFit'
  BY <1>1, <1>5, <1>6, OneMovesOn DEF lookVars, shopVars
<1> QED
  BY <1>2, <1>7 DEF ThemeInv

LEMMA PublishWriteKeeps ==
  ASSUME ThemeInv, NEW d \in Designers, PublishWrites(d)
  PROVE  ThemeInv'
<1> DEFINE a == [designer[d] EXCEPT !.phase = "written"]
<1>1. /\ designer[d] # Away /\ designer[d].op = "publish" /\ designer[d].phase = "read"
      /\ ~RowHeld /\ designer[d].n = Len(versions) + 1
      /\ designer' = [designer EXCEPT ![d].phase = "written"] /\ cached' = 0
      /\ UNCHANGED lookVars /\ UNCHANGED shopVars /\ drafts' = drafts
  BY DEF PublishWrites, At, Working, NumberIsFree, Moves
<1>2. RowsFit' /\ ShopFits'
  <2>1. drafts' \in 0 .. MaxDrafts
    BY <1>1 DEF ThemeInv, RowsFit
  <2> QED
    BY <1>1, <2>1, RowsStay
<1>3. Fits(designer[d], versions, shopfront.draft) /\ themed
  BY <1>1 DEF ThemeInv, DesignersFit, Working
<1>4. /\ a.op = "publish" /\ a.phase = "written" /\ a.x = designer[d].x /\ a.n = designer[d].n
      /\ a \in [op : {"publish", "restore", "serve", "shop draft", "shop publish"},
                phase : {"read", "written"}, x : Palettes \cup Accents \cup {Nothing}, n : Nat]
  <2>1. designer[d] \in [op : {"publish", "restore", "serve", "shop draft", "shop publish"},
                          phase : {"read", "written"}, x : Palettes \cup Accents \cup {Nothing}, n : Nat]
    BY <1>1, <1>3 DEF Fits
  <2> QED
    BY <1>1, <2>1
<1>5. Fits(a, versions, shopfront'.draft)
  <2>1. /\ designer[d].x \in Palettes \cup Accents \cup {Nothing} /\ designer[d].n \in Nat
        /\ designer[d].x \in Legible
    BY <1>1, <1>3 DEF Fits
  <2> HIDE DEF a
  <2> QED
    BY <1>1, <1>4, <2>1 DEF Fits
<1>6. designer' = [designer EXCEPT ![d] = a]
  BY <1>1
<1>7. \A e \in Designers : ~Holds(e)
  BY <1>1 DEF RowHeld, Holds
<1> HIDE DEF a
<1>8. DesignersFit'
  BY <1>1, <1>3, <1>5, <1>6, <1>7, OneMovesOn DEF lookVars, shopVars
<1> QED
  BY <1>2, <1>8 DEF ThemeInv

LEMMA FailureKeeps ==
  ASSUME ThemeInv, NEW d \in Designers, PublishFails(d) \/ DesignerFails(d)
  PROVE  ThemeInv'
<1>1. /\ designer' = [designer EXCEPT ![d] = Away]
      /\ UNCHANGED lookVars /\ UNCHANGED shopVars /\ cached' = cached /\ drafts' = drafts
  BY DEF PublishFails, DesignerFails, Leaves
<1>2. RowsFit' /\ ShopFits'
  <2>1. drafts' \in 0 .. MaxDrafts
    BY <1>1 DEF ThemeInv, RowsFit
  <2> QED
    BY <1>1, <2>1, RowsStay
<1>3. DesignersFit'
  BY <1>1, OneLeaves DEF lookVars, shopVars
<1> QED
  BY <1>2, <1>3 DEF ThemeInv

LEMMA PublishCommitKeeps ==
  ASSUME ThemeInv, NEW d \in Designers, PublishCommits(d)
  PROVE  ThemeInv'
<1> DEFINE doc == designer[d].x
<1>1. /\ designer[d] # Away /\ designer[d].op = "publish" /\ designer[d].phase = "written"
      /\ versions' = Append(versions, doc) /\ live' = designer[d].n
      /\ designer' = [designer EXCEPT ![d] = Away]
      /\ UNCHANGED <<themed, draftDoc, cached, shopVars, drafts>>
  BY DEF PublishCommits, At, Working, Published, Leaves
<1>2. Fits(designer[d], versions, shopfront.draft) /\ themed
  BY <1>1 DEF ThemeInv, DesignersFit, Working
<1>3. doc \in Legible /\ live' = Len(versions) + 1
  BY <1>1, <1>2 DEF Fits
<1>4. versions \in Seq(Legible)
  BY DEF ThemeInv, RowsFit
<1> HIDE DEF doc
<1>5. Len(versions) \in Nat
  BY <1>4, LenProperties
<1>6. /\ versions' \in Seq(Legible) /\ Len(versions') = Len(versions) + 1
      /\ \A v \in 1 .. Len(versions) : versions'[v] = versions[v]
  BY <1>1, <1>3, <1>4, AppendProperties
<1>7. RowsFit'
  <2>1. live' \in 0 .. Len(versions') /\ live' # 0
    BY <1>3, <1>5, <1>6
  <2>2. cached' \in 0 .. Len(versions')
    BY <1>1, <1>5, <1>6 DEF ThemeInv, RowsFit
  <2>3. /\ themed' \in BOOLEAN /\ themed' /\ draftDoc' \in Palettes /\ drafts' \in 0 .. MaxDrafts
    BY <1>1, <1>2 DEF ThemeInv, RowsFit
  <2> QED
    BY <1>6, <2>1, <2>2, <2>3 DEF RowsFit
<1>8. ShopFits'
  <2>1. shopfront' = shopfront /\ readOn' = readOn
    BY <1>1 DEF shopVars
  <2>2. readOn' \in 0 .. Len(versions')
    BY <1>5, <1>6, <2>1 DEF ThemeInv, ShopFits
  <2>3. shopfront.published # Nothing => readOn \in 1 .. Len(versions)
    BY <1>5 DEF ThemeInv, ShopFits
  <2>4. shopfront'.published # Nothing =>
          readOn' # 0 /\ <<shopfront'.published, versions'[readOn']>> \in Readable
    BY <1>6, <2>1, <2>3 DEF ThemeInv, ShopFits
  <2> QED
    BY <2>1, <2>2, <2>4 DEF ThemeInv, ShopFits
<1>9. \A e \in Designers \ {d} : ~Holds(e)
  BY <1>1 DEF ThemeInv, DesignersFit, Holds, Working
<1>10. Fits(Away, versions', shopfront'.draft)
  BY DEF Fits
<1>11. DesignersFit'
  <2>1. Len(versions) <= Len(versions')
    BY <1>5, <1>6
  <2>2. themed' = themed /\ shopfront'.draft = shopfront.draft
    BY <1>1 DEF shopVars
  <2> QED
    BY <1>1, <1>6, <1>9, <1>10, <2>1, <2>2, OneMoves
<1> QED
  BY <1>7, <1>8, <1>11 DEF ThemeInv
LEMMA RestoreWriteKeeps ==
  ASSUME ThemeInv, NEW d \in Designers, RestoreWrites(d)
  PROVE  ThemeInv'
<1>1. PICK v \in DOMAIN versions :
        designer' = [designer EXCEPT ![d] =
                       [op |-> "restore", phase |-> "written", x |-> Nothing, n |-> v]]
  BY DEF RestoreWrites
<1> DEFINE a == [op |-> "restore", phase |-> "written", x |-> Nothing, n |-> v]
<1>2. /\ themed /\ ~RowHeld /\ cached' = 0 /\ drafts < MaxDrafts /\ drafts' = drafts + 1
      /\ UNCHANGED lookVars /\ UNCHANGED shopVars
  BY DEF RestoreWrites
<1>3. drafts' \in 0 .. MaxDrafts
  BY <1>2, ThemeAssumption DEF ThemeInv, RowsFit, ThemeAssumption
<1>4. RowsFit' /\ ShopFits'
  BY <1>2, <1>3, RowsStay
<1>5. versions \in Seq(Legible)
  BY DEF ThemeInv, RowsFit
<1>6. v \in 1 .. Len(versions) /\ v \in Nat
  BY <1>5, LenProperties
<1>7. Fits(a, versions, shopfront'.draft)
  BY <1>6 DEF Fits
<1>8. \A e \in Designers : ~Holds(e)
  BY <1>2 DEF RowHeld, Holds
<1> HIDE DEF a
<1>9. DesignersFit'
  BY <1>1, <1>2, <1>7, <1>8, OneMovesOn DEF lookVars, shopVars, a
<1> QED
  BY <1>4, <1>9 DEF ThemeInv

LEMMA RestoreCommitKeeps ==
  ASSUME ThemeInv, NEW d \in Designers, RestoreCommits(d)
  PROVE  ThemeInv'
<1>1. /\ designer[d] # Away /\ designer[d].op = "restore"
      /\ live' = designer[d].n /\ draftDoc' = versions[designer[d].n]
      /\ designer' = [designer EXCEPT ![d] = Away]
      /\ UNCHANGED <<themed, versions, cached, shopVars, drafts>>
  BY DEF RestoreCommits, At, Working, Leaves
<1>2. Fits(designer[d], versions, shopfront.draft) /\ themed
  BY <1>1 DEF ThemeInv, DesignersFit, Working
<1>3. designer[d].n \in 1 .. Len(versions)
  BY <1>1, <1>2 DEF Fits
<1>4. versions \in Seq(Legible)
  BY DEF ThemeInv, RowsFit
<1>5. Len(versions) \in Nat /\ draftDoc' \in Legible
  <2>1. versions \in [1 .. Len(versions) -> Legible] /\ Len(versions) \in Nat
    BY <1>4, LenProperties
  <2> QED
    BY <1>1, <1>3, <2>1
<1>6. live' \in 0 .. Len(versions) /\ live' # 0
  BY <1>1, <1>3, <1>5
<1>7. RowsFit'
  BY <1>1, <1>2, <1>5, <1>6, ThemeAssumption DEF ThemeInv, RowsFit, ThemeAssumption
<1>8. ShopFits'
  BY <1>1, ShopStays
<1>9. DesignersFit'
  BY <1>1, OneLeaves DEF shopVars
<1> QED
  BY <1>7, <1>8, <1>9 DEF ThemeInv

LEMMA MissKeeps ==
  ASSUME ThemeInv, NEW d \in Designers, Miss(d)
  PROVE  ThemeInv'
<1> DEFINE a == [op |-> "serve", phase |-> "read", x |-> Nothing, n |-> live]
<1>1. /\ themed /\ designer' = [designer EXCEPT ![d] = a]
      /\ UNCHANGED lookVars /\ UNCHANGED shopVars /\ cached' = cached /\ drafts' = drafts
  BY DEF Miss, Opens
<1>2. RowsFit' /\ ShopFits'
  <2>1. drafts' \in 0 .. MaxDrafts
    BY <1>1 DEF ThemeInv, RowsFit
  <2> QED
    BY <1>1, <2>1, RowsStay
<1>3. versions \in Seq(Legible)
  BY DEF ThemeInv, RowsFit
<1>4. Len(versions) \in Nat
  BY <1>3, LenProperties
<1>5. live \in 1 .. Len(versions) /\ live \in Nat
  BY <1>1, <1>4 DEF ThemeInv, RowsFit
<1>6. Fits(a, versions, shopfront'.draft)
  BY <1>5 DEF Fits
<1>7. a.phase # "written"
  OBVIOUS
<1> HIDE DEF a
<1>8. DesignersFit'
  BY <1>1, <1>6, <1>7, OneMovesOn DEF lookVars, shopVars
<1> QED
  BY <1>2, <1>8 DEF ThemeInv

LEMMA FillKeeps ==
  ASSUME ThemeInv, NEW d \in Designers, Fills(d)
  PROVE  ThemeInv'
<1>1. /\ designer[d] # Away /\ designer[d].op = "serve" /\ cached' = designer[d].n
      /\ designer' = [designer EXCEPT ![d] = Away]
      /\ UNCHANGED lookVars /\ UNCHANGED shopVars /\ drafts' = drafts
  BY DEF Fills, At, Working, Leaves
<1>2. Fits(designer[d], versions, shopfront.draft)
  BY DEF ThemeInv, DesignersFit
<1>3. versions \in Seq(Legible)
  BY DEF ThemeInv, RowsFit
<1>4. Len(versions) \in Nat
  BY <1>3, LenProperties
<1>5. cached' \in 0 .. Len(versions)
  <2>1. designer[d].n \in 1 .. Len(versions)
    BY <1>1, <1>2 DEF Fits
  <2> QED
    BY <1>1, <1>4, <2>1
<1>6. RowsFit'
  BY <1>1, <1>5 DEF ThemeInv, RowsFit, lookVars
<1>7. ShopFits'
  BY <1>1, ShopStays DEF lookVars
<1>8. DesignersFit'
  BY <1>1, OneLeaves DEF lookVars, shopVars
<1> QED
  BY <1>6, <1>7, <1>8 DEF ThemeInv

\* What is served is a version that is committed.
LEMMA ServesVersion ==
  ASSUME ThemeInv, themed
  PROVE  Serves \in 1 .. Len(versions) /\ Serves \in Nat
<1>1. versions \in Seq(Legible)
  BY DEF ThemeInv, RowsFit
<1>2. Len(versions) \in Nat
  BY <1>1, LenProperties
<1> QED
  BY <1>2 DEF ThemeInv, RowsFit, Serves

LEMMA ShopDraftReadKeeps ==
  ASSUME ThemeInv, NEW d \in Designers, ShopDraftReads(d)
  PROVE  ThemeInv'
<1>1. PICK accent \in Accents : Opens(d, "shop draft", accent, Serves)
  BY DEF ShopDraftReads
<1> DEFINE a == [op |-> "shop draft", phase |-> "read", x |-> accent, n |-> Serves]
<1>2. /\ themed /\ designer' = [designer EXCEPT ![d] = a]
      /\ UNCHANGED lookVars /\ UNCHANGED shopVars /\ cached' = cached /\ drafts' = drafts
  BY <1>1 DEF ShopDraftReads, Opens
<1>3. RowsFit' /\ ShopFits'
  <2>1. drafts' \in 0 .. MaxDrafts
    BY <1>2 DEF ThemeInv, RowsFit
  <2> QED
    BY <1>2, <2>1, RowsStay
<1>4. Fits(a, versions, shopfront'.draft)
  BY <1>2, ServesVersion DEF Fits
<1>5. a.phase # "written"
  OBVIOUS
<1> HIDE DEF a
<1>6. DesignersFit'
  BY <1>2, <1>4, <1>5, OneMovesOn DEF lookVars, shopVars
<1> QED
  BY <1>3, <1>6 DEF ThemeInv

LEMMA ShopDraftCommitKeeps ==
  ASSUME ThemeInv, NEW d \in Designers, ShopDraftCommits(d)
  PROVE  ThemeInv'
<1>1. /\ designer[d] # Away /\ designer[d].op = "shop draft" /\ ~ShopLocked
      /\ shopfront' = [shopfront EXCEPT !.draft = designer[d].x]
      /\ drafts < MaxDrafts /\ drafts' = drafts + 1
      /\ designer' = [designer EXCEPT ![d] = Away]
      /\ UNCHANGED lookVars /\ cached' = cached /\ readOn' = readOn
  BY DEF ShopDraftCommits, At, Working, Leaves
<1>2. designer[d].x \in Accents
  BY <1>1 DEF ThemeInv, DesignersFit, Fits
<1>3. drafts' \in 0 .. MaxDrafts
  <2>1. MaxDrafts \in Nat /\ drafts \in 0 .. MaxDrafts
    BY ThemeAssumption DEF ThemeInv, RowsFit, ThemeAssumption
  <2> QED
    BY <1>1, <2>1, OneMore
<1>4. RowsFit'
  BY <1>1, <1>3 DEF ThemeInv, RowsFit, lookVars
<1>5. ShopFits'
  BY <1>1, <1>2 DEF ThemeInv, ShopFits, lookVars
<1>6. DesignersFit'
  BY <1>1, OneLeaves DEF lookVars
<1> QED
  BY <1>4, <1>5, <1>6 DEF ThemeInv

LEMMA ShopPublishReadKeeps ==
  ASSUME ThemeInv, NEW d \in Designers, ShopPublishReads(d)
  PROVE  ThemeInv'
<1> DEFINE a == [op |-> "shop publish", phase |-> "read", x |-> Nothing, n |-> Serves]
<1>1. /\ themed /\ designer' = [designer EXCEPT ![d] = a]
      /\ shopfront.draft # Nothing /\ <<shopfront.draft, versions[Serves]>> \in Readable
      /\ UNCHANGED lookVars /\ UNCHANGED shopVars /\ cached' = cached /\ drafts' = drafts
  BY DEF ShopPublishReads, Opens, ReadableOn
<1>2. RowsFit' /\ ShopFits'
  <2>1. drafts' \in 0 .. MaxDrafts
    BY <1>1 DEF ThemeInv, RowsFit
  <2> QED
    BY <1>1, <2>1, RowsStay
<1>3. shopfront' = shopfront
  BY <1>1 DEF shopVars
<1>4. Serves \in 1 .. Len(versions) /\ Serves \in Nat
  BY <1>1, ServesVersion
<1>5. Fits(a, versions, shopfront'.draft)
  BY <1>1, <1>3, <1>4 DEF Fits
<1>6. a.phase # "written"
  OBVIOUS
<1> HIDE DEF a
<1>7. DesignersFit'
  BY <1>1, <1>3, <1>5, <1>6, OneMovesOn DEF lookVars
<1> QED
  BY <1>2, <1>7 DEF ThemeInv

LEMMA ShopPublishCommitKeeps ==
  ASSUME ThemeInv, NEW d \in Designers, ShopPublishCommits(d)
  PROVE  ThemeInv'
<1>1. /\ designer[d] # Away /\ designer[d].op = "shop publish"
      /\ shopfront' = [shopfront EXCEPT !.published = shopfront.draft]
      /\ readOn' = designer[d].n
      /\ designer' = [designer EXCEPT ![d] = Away]
      /\ UNCHANGED lookVars /\ cached' = cached /\ drafts' = drafts
  BY DEF ShopPublishCommits, At, Working, Leaves
<1>2. /\ designer[d].n \in 1 .. Len(versions)
      /\ <<shopfront.draft, versions[designer[d].n]>> \in Readable
  BY <1>1 DEF ThemeInv, DesignersFit, Fits
<1>3. versions \in Seq(Legible)
  BY DEF ThemeInv, RowsFit
<1>4. Len(versions) \in Nat
  BY <1>3, LenProperties
<1>5. readOn' \in 0 .. Len(versions) /\ readOn' # 0
  BY <1>1, <1>2, <1>4, FromOne
<1>6. RowsFit'
  BY <1>1 DEF ThemeInv, RowsFit, lookVars
<1>7. ShopFits'
  BY <1>1, <1>2, <1>5 DEF ThemeInv, ShopFits, lookVars
<1>8. shopfront'.draft = shopfront.draft
  BY <1>1 DEF ThemeInv, ShopFits
<1>9. DesignersFit'
  BY <1>1, <1>8, OneLeaves DEF lookVars
<1> QED
  BY <1>6, <1>7, <1>9 DEF ThemeInv

-----------------------------------------------------------------------------
LEMMA ThemeInitHolds == ThemeInit => ThemeInv
<1> SUFFICES ASSUME ThemeInit
             PROVE  ThemeInv
  OBVIOUS
<1>1. versions = <<>> /\ Len(versions) = 0 /\ versions \in Seq(Legible)
  BY DEF ThemeInit
<1>2. RowsFit
  <2>1. MaxDrafts \in Nat /\ Minimal \in Palettes
    BY ThemeAssumption DEF ThemeAssumption
  <2>2. 0 \in 0 .. MaxDrafts /\ 0 \in 0 .. Len(versions)
    BY <1>1, <2>1
  <2> QED
    BY <1>1, <2>1, <2>2 DEF ThemeInit, RowsFit
<1>3. ShopFits
  BY <1>1 DEF ThemeInit, ShopFits
<1>4. DesignersFit
  BY DEF ThemeInit, DesignersFit, Fits, Holds, Working
<1> QED
  BY <1>2, <1>3, <1>4 DEF ThemeInv

LEMMA ThemeStepHolds == ThemeInv /\ [ThemeNext]_themeVars => ThemeInv'
<1> SUFFICES ASSUME ThemeInv, [ThemeNext]_themeVars
             PROVE  ThemeInv'
  OBVIOUS
<1>1. CASE UNCHANGED themeVars
  <2>1. UNCHANGED lookVars /\ UNCHANGED shopVars /\ cached' = cached /\ drafts' = drafts
        /\ designer' = designer
    BY <1>1 DEF themeVars
  <2>2. drafts' \in 0 .. MaxDrafts
    BY <2>1 DEF ThemeInv, RowsFit
  <2>3. RowsFit' /\ ShopFits'
    BY <2>1, <2>2, RowsStay
  <2>4. DesignersFit'
    BY <2>1, NobodyMoves DEF lookVars, shopVars
  <2> QED
    BY <2>3, <2>4 DEF ThemeInv
<1>2. CASE EnsureTheme \/ SaveDraft \/ ApplyPreset \/ CacheExpires
  BY <1>2, EnsureKeeps, DraftKeeps, ExpiryKeeps
<1>3. ASSUME NEW d \in Designers, DesignerStep(d) \/ DesignerFails(d)
      PROVE  ThemeInv'
  BY <1>3, PublishWriteKeeps, FailureKeeps, PublishCommitKeeps, RestoreCommitKeeps, FillKeeps,
     ShopDraftCommitKeeps, ShopPublishCommitKeeps DEF DesignerStep
<1>4. ASSUME NEW d \in Designers,
             \/ PublishReads(d) \/ RestoreWrites(d) \/ Miss(d)
             \/ ShopDraftReads(d) \/ ShopPublishReads(d)
      PROVE  ThemeInv'
  BY <1>4, PublishReadKeeps, RestoreWriteKeeps, MissKeeps, ShopDraftReadKeeps, ShopPublishReadKeeps
<1> QED
  BY <1>1, <1>2, <1>3, <1>4 DEF ThemeNext

\* The inductive invariant holds of every behaviour of the looks of a store and of its
\* vendors (theme/service.py, vendor_store.py), however requests overlap and fail.
THEOREM ThemeHolds == ThemeSpec => []ThemeInv
<1> QED
  BY ThemeInitHolds, ThemeStepHolds, PTL DEF ThemeSpec

\* Nothing is served that did not pass the contrast check, and no vendor's accent is
\* published that could not be read on the version it was checked on (theme/service.py
\* publish and restore, vendor_store.py publish), for any number of transactions.
THEOREM ThemeSafeHolds == ThemeSpec => []ThemeSafe
<1>1. ThemeInv => ThemeSafe
  <2> SUFFICES ASSUME ThemeInv
               PROVE  ThemeSafe
    OBVIOUS
  <2>1. versions \in Seq(Legible) /\ Legible \subseteq Palettes
    BY ThemeAssumption DEF ThemeInv, RowsFit, ThemeAssumption
  <2>2. /\ Len(versions) \in Nat /\ versions \in [1 .. Len(versions) -> Legible]
        /\ DOMAIN versions = 1 .. Len(versions)
    BY <2>1, LenProperties
  <2>3. versions \in Seq(Palettes)
    BY <2>1, SeqMonotonic
  <2>4. ThemeTypeOK
    BY <2>2, <2>3 DEF ThemeInv, RowsFit, ShopFits, ThemeTypeOK
  <2>5. LegibleServed
    BY <2>2 DEF ThemeInv, RowsFit, LegibleServed
  <2>6. AccentReads
    BY DEF ThemeInv, ShopFits, AccentReads, ReadableOn
  <2> QED
    BY <2>4, <2>5, <2>6 DEF ThemeSafe
<1> QED
  BY <1>1, ThemeHolds, PTL

-----------------------------------------------------------------------------
(* Disputes: the inductive invariant *)

CaseRow == [status : CaseStatus, parcel : Parcels, due : BOOLEAN]
OpenJob == [op : {"open"}, parcel : Parcels]
MessageJob == [op : {"message"}, case : Cases, to : CaseStatus \ Closed]
ResolveJob == [op : {"resolve"}, case : Cases, to : Closed]

\* A request that writes to a case has seen it opened, and cases stay opened.
Grounded(j) == j \in MessageJob \cup ResolveJob => Opened(j.case)

DisputesInv ==
  /\ case \in [Cases -> {Fresh} \cup CaseRow]
  /\ frozen \subseteq Cases
  /\ words \in 0 .. MaxWords
  /\ job \in [Agents -> {Jobless} \cup OpenJob \cup MessageJob \cup ResolveJob]
  /\ \A a \in Agents : Grounded(job[a])
  /\ OneDispute
  /\ HoldComesOff

-----------------------------------------------------------------------------
(* Disputes: rows and requests *)

\* One case gets a new row: there is no other unsettled one for its parcel, and it is
\* not frozen if that settles it.
LEMMA OneCaseMoves ==
  ASSUME DisputesInv, NEW c \in Cases, NEW new \in CaseRow,
         case' = [case EXCEPT ![c] = new],
         new.status \notin Closed => \A d \in Cases \ {c} : Unsettled(d) => case[d].parcel # new.parcel,
         frozen' \subseteq frozen \cup {c},
         c \in frozen' => new.status \notin Closed
  PROVE  /\ case' \in [Cases -> {Fresh} \cup CaseRow]
         /\ frozen' \subseteq Cases
         /\ \A d \in Cases : Opened(d) => Opened(d)'
         /\ OneDispute' /\ HoldComesOff'
<1>1. \A d \in Cases : case'[d] = IF d = c THEN new ELSE case[d]
  BY DEF DisputesInv
<1>2. case' \in [Cases -> {Fresh} \cup CaseRow]
  BY DEF DisputesInv
<1>3. frozen' \subseteq Cases
  BY DEF DisputesInv
<1>4. new.status # "none"
  BY DEF CaseRow, CaseStatus, Closed
<1>5. /\ \A d \in Cases \ {c} : Unsettled(d)' <=> Unsettled(d)
      /\ Unsettled(c)' <=> new.status \notin Closed
      /\ \A d \in Cases : Opened(d) => Opened(d)'
  BY <1>1, <1>4 DEF Unsettled, Opened
<1>6. OneDispute'
  BY <1>1, <1>5 DEF DisputesInv, OneDispute
<1>7. HoldComesOff'
  BY <1>3, <1>5 DEF DisputesInv, HoldComesOff
<1> QED
  BY <1>2, <1>3, <1>5, <1>6, <1>7

\* One request begins, goes on or ends; what the others saw opened stays opened.
LEMMA OneJobMoves ==
  ASSUME DisputesInv, NEW a \in Agents,
         NEW j \in {Jobless} \cup OpenJob \cup MessageJob \cup ResolveJob,
         job' = [job EXCEPT ![a] = j],
         \A d \in Cases : Opened(d) => Opened(d)',
         j \in MessageJob \cup ResolveJob => Opened(j.case)
  PROVE  /\ job' \in [Agents -> {Jobless} \cup OpenJob \cup MessageJob \cup ResolveJob]
         /\ \A b \in Agents : Grounded(job[b])'
<1>1. \A b \in Agents : job'[b] = IF b = a THEN j ELSE job[b]
  BY DEF DisputesInv
<1>2. job' \in [Agents -> {Jobless} \cup OpenJob \cup MessageJob \cup ResolveJob]
  BY DEF DisputesInv
<1>3. \A i \in MessageJob \cup ResolveJob : i.case \in Cases
  BY DEF MessageJob, ResolveJob
<1>4. ASSUME NEW b \in Agents
      PROVE  Grounded(job[b])'
  <2>1. job'[b] \in MessageJob \cup ResolveJob => Opened(job'[b].case)
    BY <1>1, <1>3 DEF DisputesInv, Grounded
  <2>2. job'[b] \in MessageJob \cup ResolveJob => job'[b].case \in Cases
    BY <1>3
  <2>3. job'[b] \in MessageJob \cup ResolveJob => case'[job'[b].case].status # "none"
    BY <2>1, <2>2 DEF Opened
  <2> QED
    BY <2>3 DEF Grounded, Opened
<1> QED
  BY <1>2, <1>4

\* The request that ended.
LEMMA JobEnds ==
  ASSUME DisputesInv, NEW a \in Agents, job' = [job EXCEPT ![a] = Jobless],
         \A d \in Cases : Opened(d) => Opened(d)'
  PROVE  /\ job' \in [Agents -> {Jobless} \cup OpenJob \cup MessageJob \cup ResolveJob]
         /\ \A b \in Agents : Grounded(job[b])'
<1>1. Jobless \notin MessageJob \cup ResolveJob
  BY DEF Jobless, MessageJob, ResolveJob
<1> QED
  BY <1>1, OneJobMoves

\* A request begins: the cases stay as they are.
LEMMA JobBegins ==
  ASSUME DisputesInv, NEW a \in Agents, NEW j \in OpenJob \cup MessageJob \cup ResolveJob,
         job' = [job EXCEPT ![a] = j], case' = case, frozen' = frozen, words' \in 0 .. MaxWords,
         j \in MessageJob \cup ResolveJob => Opened(j.case)
  PROVE  DisputesInv'
<1>1. \A d \in Cases : Opened(d) => Opened(d)'
  BY DEF Opened
<1>2. /\ job' \in [Agents -> {Jobless} \cup OpenJob \cup MessageJob \cup ResolveJob]
      /\ \A b \in Agents : Grounded(job[b])'
  BY <1>1, OneJobMoves
<1>3. OneDispute' /\ HoldComesOff'
  BY DEF DisputesInv, OneDispute, HoldComesOff, Unsettled, Opened
<1> QED
  BY <1>2, <1>3 DEF DisputesInv

-----------------------------------------------------------------------------
(* Disputes: the steps *)

LEMMA OpenReadKeeps ==
  ASSUME DisputesInv, NEW a \in Agents, NEW p \in Parcels, OpenReads(a, p)
  PROVE  DisputesInv'
<1> DEFINE j == [op |-> "open", parcel |-> p]
<1>1. job' = [job EXCEPT ![a] = j] /\ case' = case /\ frozen' = frozen /\ words' = words
  BY DEF OpenReads
<1>2. j \in OpenJob /\ j \notin MessageJob \cup ResolveJob
  BY DEF OpenJob, MessageJob, ResolveJob
<1>3. words' \in 0 .. MaxWords
  BY <1>1 DEF DisputesInv
<1> HIDE DEF j
<1> QED
  BY <1>1, <1>2, <1>3, JobBegins

LEMMA OpenCommitKeeps ==
  ASSUME DisputesInv, NEW a \in Agents, NEW c \in Cases, OpenCommits(a, c)
  PROVE  DisputesInv'
<1> DEFINE p == job[a].parcel
           new == [status |-> "open", parcel |-> p, due |-> FALSE]
<1>1. /\ job[a].op = "open" /\ FirstFor(p, c)
      /\ case' = [case EXCEPT ![c] = new] /\ frozen' = frozen \cup {c}
      /\ job' = [job EXCEPT ![a] = Jobless] /\ words' = words
  BY DEF OpenCommits
<1>2. job[a] \in OpenJob
  BY <1>1 DEF DisputesInv, Jobless, MessageJob, ResolveJob
<1>3. p \in Parcels
  BY <1>2 DEF OpenJob
<1>4. new \in CaseRow /\ new.status \notin Closed /\ new.parcel = p
  BY <1>3 DEF CaseRow, CaseStatus, Closed
<1> HIDE DEF new, p
<1>5. \A d \in Cases \ {c} : Unsettled(d) => case[d].parcel # new.parcel
  BY <1>1, <1>4 DEF FirstFor
<1>6. /\ case' \in [Cases -> {Fresh} \cup CaseRow]
      /\ frozen' \subseteq Cases
      /\ \A d \in Cases : Opened(d) => Opened(d)'
      /\ OneDispute' /\ HoldComesOff'
  BY <1>1, <1>4, <1>5, OneCaseMoves
<1>7. /\ job' \in [Agents -> {Jobless} \cup OpenJob \cup MessageJob \cup ResolveJob]
      /\ \A b \in Agents : Grounded(job[b])'
  BY <1>1, <1>6, JobEnds
<1> QED
  BY <1>1, <1>6, <1>7 DEF DisputesInv

LEMMA MessageReadKeeps ==
  ASSUME DisputesInv, NEW a \in Agents, NEW c \in Cases, NEW author \in DOMAIN NextStatus,
         MessageReads(a, c, author)
  PROVE  DisputesInv'
<1> DEFINE j == [op |-> "message", case |-> c, to |-> NextStatus[author]]
<1>1. /\ Opened(c) /\ words < MaxWords /\ words' = words + 1
      /\ job' = [job EXCEPT ![a] = j] /\ case' = case /\ frozen' = frozen
  BY DEF MessageReads, Unsettled
<1>2. NextStatus[author] \in CaseStatus \ Closed
  BY DEF NextStatus, CaseStatus, Closed
<1>3. j \in MessageJob /\ j.case = c
  BY <1>2 DEF MessageJob
<1>4. words' \in 0 .. MaxWords
  BY <1>1, DisputesAssumption DEF DisputesInv, DisputesAssumption
<1> HIDE DEF j
<1> QED
  BY <1>1, <1>3, <1>4, JobBegins

\* A row that changes its status only.
LEMMA StatusOf ==
  ASSUME NEW row \in CaseRow, NEW to \in CaseStatus
  PROVE  /\ [row EXCEPT !.status = to] \in CaseRow
         /\ [row EXCEPT !.status = to].status = to
         /\ [row EXCEPT !.status = to].parcel = row.parcel
  BY DEF CaseRow

LEMMA MessageCommitKeeps ==
  ASSUME DisputesInv, NEW a \in Agents, MessageCommits(a)
  PROVE  DisputesInv'
<1> DEFINE c == job[a].case
           to == job[a].to
           new == [case[c] EXCEPT !.status = to]
<1>1. /\ job[a].op = "message" /\ FirstFor(case[c].parcel, c)
      /\ case' = [case EXCEPT ![c] = new]
      /\ job' = [job EXCEPT ![a] = Jobless] /\ frozen' = frozen /\ words' = words
  BY DEF MessageCommits
<1>2. job[a] \in MessageJob
  BY <1>1 DEF DisputesInv, Jobless, OpenJob, ResolveJob
<1>3. c \in Cases /\ to \in CaseStatus /\ to \notin Closed
  BY <1>2 DEF MessageJob
<1>4. case[c] \in CaseRow
  BY <1>2, <1>3 DEF DisputesInv, Grounded, Opened, Fresh
<1>5. new \in CaseRow /\ new.status \notin Closed /\ new.parcel = case[c].parcel
  BY <1>3, <1>4, StatusOf
<1> HIDE DEF new, c, to
<1>6. \A d \in Cases \ {c} : Unsettled(d) => case[d].parcel # new.parcel
  BY <1>1, <1>5 DEF FirstFor
<1>7. /\ case' \in [Cases -> {Fresh} \cup CaseRow]
      /\ frozen' \subseteq Cases
      /\ \A d \in Cases : Opened(d) => Opened(d)'
      /\ OneDispute' /\ HoldComesOff'
  BY <1>1, <1>3, <1>5, <1>6, OneCaseMoves
<1>8. /\ job' \in [Agents -> {Jobless} \cup OpenJob \cup MessageJob \cup ResolveJob]
      /\ \A b \in Agents : Grounded(job[b])'
  BY <1>1, <1>7, JobEnds
<1> QED
  BY <1>1, <1>7, <1>8 DEF DisputesInv

LEMMA ResolveReadKeeps ==
  ASSUME DisputesInv, NEW a \in Agents, NEW c \in Cases, NEW to \in Closed, ResolveReads(a, c, to)
  PROVE  DisputesInv'
<1> DEFINE j == [op |-> "resolve", case |-> c, to |-> to]
<1>1. /\ Opened(c) /\ job' = [job EXCEPT ![a] = j]
      /\ case' = case /\ frozen' = frozen /\ words' = words
  BY DEF ResolveReads, Unsettled
<1>2. j \in ResolveJob /\ j.case = c
  BY DEF ResolveJob
<1>3. words' \in 0 .. MaxWords
  BY <1>1 DEF DisputesInv
<1> HIDE DEF j
<1> QED
  BY <1>1, <1>2, <1>3, JobBegins

LEMMA ResolveCommitKeeps ==
  ASSUME DisputesInv, NEW a \in Agents, ResolveCommits(a)
  PROVE  DisputesInv'
<1> DEFINE c == job[a].case
           to == job[a].to
           new == [case[c] EXCEPT !.status = to]
<1>1. /\ job[a].op = "resolve"
      /\ case' = [case EXCEPT ![c] = new] /\ frozen' = frozen \ {c}
      /\ job' = [job EXCEPT ![a] = Jobless] /\ words' = words
  BY DEF ResolveCommits, Release
<1>2. job[a] \in ResolveJob
  BY <1>1 DEF DisputesInv, Jobless, OpenJob, MessageJob
<1>3. c \in Cases /\ to \in Closed /\ to \in CaseStatus
  BY <1>2 DEF ResolveJob, CaseStatus
<1>4. case[c] \in CaseRow
  BY <1>2, <1>3 DEF DisputesInv, Grounded, Opened, Fresh
<1>5. new \in CaseRow /\ new.status \in Closed
  BY <1>3, <1>4, StatusOf
<1> HIDE DEF new, c, to
<1>6. /\ case' \in [Cases -> {Fresh} \cup CaseRow]
      /\ frozen' \subseteq Cases
      /\ \A d \in Cases : Opened(d) => Opened(d)'
      /\ OneDispute' /\ HoldComesOff'
  BY <1>1, <1>3, <1>5, OneCaseMoves
<1>7. /\ job' \in [Agents -> {Jobless} \cup OpenJob \cup MessageJob \cup ResolveJob]
      /\ \A b \in Agents : Grounded(job[b])'
  BY <1>1, <1>6, JobEnds
<1> QED
  BY <1>1, <1>6, <1>7 DEF DisputesInv

LEMMA ReleaseKeeps ==
  ASSUME DisputesInv, NEW c \in Cases, HoldReleased(c)
  PROVE  DisputesInv'
<1>1. frozen' = frozen \ {c} /\ case' = case /\ job' = job /\ words' = words
  BY DEF HoldReleased, Release
<1> QED
  BY <1>1 DEF DisputesInv, OneDispute, HoldComesOff, Unsettled, Opened, Grounded

LEMMA DropKeeps ==
  ASSUME DisputesInv, NEW a \in Agents, Dropped(a)
  PROVE  DisputesInv'
<1>1. job' = [job EXCEPT ![a] = Jobless] /\ case' = case /\ frozen' = frozen /\ words' = words
  BY DEF Dropped
<1>2. \A d \in Cases : Opened(d) => Opened(d)'
  BY <1>1 DEF Opened
<1>3. /\ job' \in [Agents -> {Jobless} \cup OpenJob \cup MessageJob \cup ResolveJob]
      /\ \A b \in Agents : Grounded(job[b])'
  BY <1>1, <1>2, JobEnds
<1> QED
  BY <1>1, <1>3 DEF DisputesInv, OneDispute, HoldComesOff, Unsettled, Opened

\* The clock and the sweep move rows of opened cases that stay unsettled if they were.
LEMMA RowsMove ==
  ASSUME DisputesInv, case' \in [Cases -> {Fresh} \cup CaseRow],
         \A d \in Cases : /\ Opened(d)' <=> Opened(d)
                          /\ Unsettled(d)' <=> Unsettled(d)
                          /\ Opened(d) => case'[d].parcel = case[d].parcel,
         UNCHANGED <<frozen, job, words>>
  PROVE  DisputesInv'
<1>1. OneDispute'
  BY DEF DisputesInv, OneDispute, Unsettled
<1>2. HoldComesOff'
  BY DEF DisputesInv, HoldComesOff
<1>3. \A i \in MessageJob \cup ResolveJob : i.case \in Cases
  BY DEF MessageJob, ResolveJob
<1>4. ASSUME NEW b \in Agents
      PROVE  Grounded(job[b])'
  <2>1. job[b] \in MessageJob \cup ResolveJob => job[b].case \in Cases /\ Opened(job[b].case)
    BY <1>3 DEF DisputesInv, Grounded
  <2>2. job[b] \in MessageJob \cup ResolveJob => case'[job[b].case].status # "none"
    BY <2>1 DEF Opened
  <2> QED
    BY <2>2 DEF Grounded, Opened
<1> QED
  BY <1>1, <1>2, <1>4 DEF DisputesInv

LEMMA DueKeeps ==
  ASSUME DisputesInv, NEW c \in Cases, ComesDue(c)
  PROVE  DisputesInv'
<1> DEFINE new == [case[c] EXCEPT !.due = TRUE]
<1>1. Opened(c) /\ case' = [case EXCEPT ![c] = new] /\ UNCHANGED <<frozen, job, words>>
  BY DEF ComesDue
<1>2. case[c] \in CaseRow
  BY <1>1 DEF DisputesInv, Opened, Fresh
<1>3. new \in CaseRow /\ new.status = case[c].status /\ new.parcel = case[c].parcel
  BY <1>2 DEF CaseRow
<1> HIDE DEF new
<1>4. \A d \in Cases : case'[d] = IF d = c THEN new ELSE case[d]
  BY <1>1 DEF DisputesInv
<1>5. case' \in [Cases -> {Fresh} \cup CaseRow]
  BY <1>1, <1>3 DEF DisputesInv
<1>6. \A d \in Cases : case'[d].status = case[d].status /\ case'[d].parcel = case[d].parcel
  BY <1>3, <1>4
<1>7. \A d \in Cases : /\ Opened(d)' <=> Opened(d)
                       /\ Unsettled(d)' <=> Unsettled(d)
                       /\ Opened(d) => case'[d].parcel = case[d].parcel
  BY <1>6 DEF Opened, Unsettled
<1> QED
  BY <1>1, <1>5, <1>7, RowsMove

LEMMA SweepKeeps ==
  ASSUME DisputesInv, Sweep
  PROVE  DisputesInv'
<1>1. /\ case' = [d \in Cases |->
           IF d \in Overlooked THEN [case[d] EXCEPT !.status = "under_review"] ELSE case[d]]
      /\ UNCHANGED <<frozen, job, words>>
  BY DEF Sweep
<1>2. ASSUME NEW d \in Cases
      PROVE  /\ case'[d] \in {Fresh} \cup CaseRow
             /\ Opened(d)' <=> Opened(d)
             /\ Unsettled(d)' <=> Unsettled(d)
             /\ Opened(d) => case'[d].parcel = case[d].parcel
  <2>1. CASE d \in Overlooked
    <3>1. case[d].status \in {"open", "needs_vendor"}
      BY <2>1 DEF Overlooked, Waits
    <3>2. case[d] \in CaseRow
      BY <3>1 DEF DisputesInv, Fresh
    <3>3. case'[d] = [case[d] EXCEPT !.status = "under_review"]
      BY <1>1, <2>1
    <3>4. case'[d] \in CaseRow /\ case'[d].status = "under_review" /\ case'[d].parcel = case[d].parcel
      BY <3>2, <3>3, StatusOf DEF CaseStatus
    <3> QED
      BY <3>1, <3>4 DEF Opened, Unsettled, Closed
  <2>2. CASE d \notin Overlooked
    <3>1. case'[d] = case[d]
      BY <1>1, <2>2
    <3> QED
      BY <3>1 DEF DisputesInv, Opened, Unsettled
  <2> QED
    BY <2>1, <2>2
<1>3. case' \in [Cases -> {Fresh} \cup CaseRow]
  BY <1>1, <1>2
<1> QED
  BY <1>1, <1>2, <1>3, RowsMove

-----------------------------------------------------------------------------
LEMMA DisputesInitHolds == DisputesInit => DisputesInv
<1> SUFFICES ASSUME DisputesInit
             PROVE  DisputesInv
  OBVIOUS
<1>1. Jobless \notin MessageJob \cup ResolveJob
  BY DEF Jobless, MessageJob, ResolveJob
<1>2. \A a \in Agents : Grounded(job[a])
  BY <1>1 DEF DisputesInit, Grounded
<1>3. OneDispute /\ HoldComesOff
  BY DEF DisputesInit, OneDispute, HoldComesOff, Unsettled, Opened, Fresh
<1>4. words \in 0 .. MaxWords
  BY DisputesAssumption DEF DisputesInit, DisputesAssumption
<1> QED
  BY <1>2, <1>3, <1>4 DEF DisputesInit, DisputesInv

LEMMA DisputesStepHolds == DisputesInv /\ [DisputesNext]_disputesVars => DisputesInv'
<1> SUFFICES ASSUME DisputesInv, [DisputesNext]_disputesVars
             PROVE  DisputesInv'
  OBVIOUS
<1>1. CASE UNCHANGED disputesVars
  <2>1. case' = case /\ UNCHANGED <<frozen, job, words>>
    BY <1>1 DEF disputesVars
  <2> QED
    BY <2>1, RowsMove DEF DisputesInv, Opened, Unsettled
<1>2. CASE Sweep
  BY <1>2, SweepKeeps
<1>3. ASSUME NEW a \in Agents,
             \/ MessageCommits(a) \/ ResolveCommits(a) \/ Dropped(a)
             \/ \E p \in Parcels : OpenReads(a, p)
      PROVE  DisputesInv'
  BY <1>3, MessageCommitKeeps, ResolveCommitKeeps, DropKeeps, OpenReadKeeps
<1>4. ASSUME NEW a \in Agents, NEW c \in Cases,
             \/ OpenCommits(a, c)
             \/ \E author \in DOMAIN NextStatus : MessageReads(a, c, author)
             \/ \E to \in Closed : ResolveReads(a, c, to)
      PROVE  DisputesInv'
  BY <1>4, OpenCommitKeeps, MessageReadKeeps, ResolveReadKeeps
<1>5. ASSUME NEW c \in Cases, HoldReleased(c) \/ ComesDue(c)
      PROVE  DisputesInv'
  BY <1>5, ReleaseKeeps, DueKeeps
<1> QED
  BY <1>1, <1>2, <1>3, <1>4, <1>5 DEF DisputesNext

\* The inductive invariant holds of every behaviour of the disputes (trust/service.py),
\* however requests overlap and fail.
THEOREM DisputesHold == DisputesSpec => []DisputesInv
<1> QED
  BY DisputesInitHolds, DisputesStepHolds, PTL DEF DisputesSpec

\* A sub-order has one unsettled dispute at most and no settled one holds a payout
\* (trust/service.py: open_dispute, add_dispute_message, resolve_dispute), for any number
\* of disputes and of requests that cross.
THEOREM DisputesSafeHolds == DisputesSpec => []DisputesSafe
<1>1. DisputesInv => DisputesSafe
  BY DEF DisputesInv, DisputesSafe, DisputesTypeOK, CaseRow, OpenJob, MessageJob, ResolveJob
<1> QED
  BY <1>1, DisputesHold, PTL

-----------------------------------------------------------------------------
(* Catalog: the price of the card *)

\* A set of numbers has a least one.
LEMMA LeastPrice ==
  ASSUME NEW S, S \subseteq Nat, S # {}
  PROVE  \E x \in S : \A y \in S : x <= y
<1>1. IsWellFoundedOn(OpToRel(<, Nat), Nat)
  BY NatLessThanWellFounded
<1>2. PICK x \in S : \A y \in S : ~(<<y, x>> \in OpToRel(<, Nat))
  BY <1>1, WFMin
<1>3. \A y \in S : <<y, x>> \in Nat \X Nat
  OBVIOUS
<1>4. \A y \in S : ~(y < x)
  <2>1. TAKE y \in S
  <2>2. <<y, x>>[1] = y /\ <<y, x>>[2] = x
    OBVIOUS
  <2> QED
    BY <1>2, <1>3, <2>2 DEF OpToRel
<1> QED
  BY <1>4

\* Rows whose prices are prices where they are active have a card price: a price, or 0
\* where nothing is active.
LEMMA MinPriceIsPrice ==
  ASSUME NEW rows, \A v \in Variants : rows[v].active => rows[v].price \in Prices
  PROVE  MinPrice(rows) \in {0} \cup Prices
<1>1. CASE Selling(rows) = {}
  BY <1>1 DEF MinPrice
<1>2. CASE Selling(rows) # {}
  <2> DEFINE S == {rows[v].price : v \in Selling(rows)}
  <2>1. S \subseteq Prices /\ S # {}
    BY <1>2 DEF Selling
  <2>2. PICK p \in S : \A q \in S : p <= q
    BY <2>1, CatalogAssumption, LeastPrice
  <2>3. \E q \in Prices : /\ \E v \in Selling(rows) : rows[v].price = q
                          /\ \A v \in Selling(rows) : q <= rows[v].price
    BY <2>1, <2>2
  <2>4. (CHOOSE q \in Prices : /\ \E v \in Selling(rows) : rows[v].price = q
                               /\ \A v \in Selling(rows) : q <= rows[v].price) \in Prices
    BY <2>3
  <2> QED
    BY <1>2, <2>4 DEF MinPrice
<1> QED
  BY <1>1, <1>2

\* The card price looks at nothing but what is active and its price.
LEMMA MinPriceSame ==
  ASSUME NEW rows, NEW other,
         \A v \in Variants : /\ rows[v].active = other[v].active
                             /\ rows[v].price = other[v].price
  PROVE  MinPrice(rows) = MinPrice(other)
<1>1. Selling(rows) = Selling(other)
  BY DEF Selling
<1>2. \A v \in Selling(rows) : rows[v].price = other[v].price
  BY DEF Selling
<1> DEFINE Least(r, p) == /\ \E v \in Selling(r) : r[v].price = p
                          /\ \A v \in Selling(r) : p <= r[v].price
<1>3. \A p \in Prices : Least(rows, p) <=> Least(other, p)
  BY <1>1, <1>2
<1>4. (CHOOSE p \in Prices : Least(rows, p)) = (CHOOSE p \in Prices : Least(other, p))
  <2> HIDE DEF Least
  <2> QED  BY <1>3, Zenon
<1>5. CASE Selling(rows) = {}
  BY <1>1, <1>5 DEF MinPrice
<1>6. CASE Selling(rows) # {}
  <2>1. MinPrice(rows) = CHOOSE p \in Prices : Least(rows, p)
    BY <1>6 DEF MinPrice
  <2>2. MinPrice(other) = CHOOSE p \in Prices : Least(other, p)
    BY <1>1, <1>6 DEF MinPrice
  <2> QED
    BY ONLY <1>4, <2>1, <2>2
<1> QED
  BY <1>5, <1>6

\* With one variant on sale the card shows its price.
LEMMA MinPriceOfOne ==
  ASSUME NEW rows, NEW v \in Variants, rows[v].active, rows[v].price \in Prices,
         \A w \in Variants \ {v} : ~rows[w].active
  PROVE  MinPrice(rows) = rows[v].price
<1>1. Selling(rows) = {v}
  BY DEF Selling
<1>2. MinPrice(rows) = CHOOSE p \in Prices : rows[v].price = p /\ p <= rows[v].price
  BY <1>1 DEF MinPrice
<1>3. rows[v].price \in Nat
  BY CatalogAssumption
<1> QED
  BY <1>2, <1>3

-----------------------------------------------------------------------------
(* Catalog: what an open transaction holds and owes *)

EditRow ==
    [phase : {"changed", "counted", "told"}, min : {0} \cup Prices,
     tx : [op : {"variant"}, variant : Variants, row : VariantRow, delta : Int, locks : BOOLEAN]
          \cup [op : {"product"}, status : ProductStatus, verdict : Verdicts,
                content : BOOLEAN, locks : {TRUE}]]

Open(y) == y.phase # "idle"
HoldsProduct(y) == Open(y) /\ (y.tx.locks \/ y.phase = "told")
OnVariant(y, v) == Open(y) /\ y.tx.op = "variant" /\ y.tx.variant = v
CountedVariant(y) == y.phase \in {"counted", "told"} /\ y.tx.op = "variant"
SeenRows(x, rows) ==
    IF x.op = "variant" THEN [rows EXCEPT ![x.variant] = x.row] ELSE rows

\* A row to write is the row under its lock, with what the movement says of its stock.
VariantSound(x, rows) ==
    /\ x.row.price \in Prices
    /\ x.row.onhand = rows[x.variant].onhand + x.delta
    /\ x.row.reserved = rows[x.variant].reserved
    /\ x.row.reserved <= x.row.onhand

\* Where the vendor is moderated an update approves nothing, and where everything is
\* moderated it sends live content back.
Moderated(shop) == shop.mode = "all" \/ (shop.mode = "first_listing" /\ ~shop.trusted)
ProductSound(x, verdict, shop) ==
    /\ Moderated(shop) /\ x.verdict = "approved" => verdict = "approved"
    /\ shop.mode = "all" /\ x.content /\ x.status = "active" => x.verdict # "approved"

EditSound(y, rows, verdict, shop, race) ==
    Open(y) =>
        /\ y.tx.op = "variant" => VariantSound(y.tx, rows)
        /\ y.tx.op = "product" => ProductSound(y.tx, verdict, shop)
        /\ ~race /\ y.phase \in {"counted", "told"} => y.min = MinPrice(SeenRows(y.tx, rows))

LedgerRow(r, m) ==
    /\ m.sum = r.onhand /\ m.last = r.onhand
    /\ r.reserved <= r.onhand
    /\ r.price = 0 => r = NoVariant

-----------------------------------------------------------------------------
(* Catalog: the inductive invariant *)

Ledger == \A v \in Variants : LedgerRow(variant[v], moves[v])
Unmade == product.status = "none" =>
    (\A e \in Editors : edit[e] = Rest) /\ (\A v \in Variants : variant[v] = NoVariant)
OneHolder == \A e, f \in Editors : HoldsProduct(edit[e]) /\ HoldsProduct(edit[f]) => e = f
OwnVariant == \A v \in Variants : \A e, f \in Editors :
    OnVariant(edit[e], v) /\ OnVariant(edit[f], v) => e = f
RaceKnown == \A e, f \in Editors :
    CountedVariant(edit[e]) /\ CountedVariant(edit[f]) /\ e # f => raced
EditsSound == \A e \in Editors :
    EditSound(edit[e], variant, product.verdict, store, raced)
SentBack == product.verdict = "approved" =>
    /\ store.mode = "first_listing" /\ ~store.trusted => seen # "never"
    /\ store.mode = "all" => seen = "current"

CatalogInv ==
    /\ CatalogTypeOK /\ Ledger /\ Unmade
    /\ OneHolder /\ OwnVariant /\ RaceKnown /\ EditsSound
    /\ CardPrice /\ SentBack

\* The invariant says what the catalog keeps.
LEMMA CatalogInvIsSafe ==
  ASSUME CatalogInv
  PROVE  CatalogSafe /\ ModeratedFirst
<1>1. LedgerExplains
  BY DEF CatalogInv, Ledger, LedgerRow, LedgerExplains
<1>2. ModeratedFirst
  BY DEF CatalogInv, SentBack, ModeratedFirst, Visible
<1> QED
  BY <1>1, <1>2 DEF CatalogInv, CatalogSafe

LEMMA EditType ==
  ASSUME CatalogInv
  PROVE  /\ edit \in [Editors -> {Rest} \cup EditRow]
         /\ \A e \in Editors : Open(edit[e]) => edit[e] \in EditRow
         /\ \A e \in Editors : Writing(e) <=> Open(edit[e])
<1>1. edit \in [Editors -> {Rest} \cup EditRow]
  BY DEF CatalogInv, CatalogTypeOK, EditRow
<1>2. \A e \in Editors : edit[e] \in {Rest} \cup EditRow
  BY <1>1
<1>3. ~Open(Rest)
  BY DEF Open, Rest
<1> QED
  BY <1>1, <1>2, <1>3 DEF Writing, Open

\* A row that is on sale has a price.
LEMMA ActiveHasPrice ==
  ASSUME CatalogInv
  PROVE  \A v \in Variants : /\ variant[v] \in VariantRow
                             /\ variant[v].active => variant[v].price \in Prices
                             /\ variant[v].price # 0 => variant[v].price \in Prices
<1>1. TAKE v \in Variants
<1>2. variant[v] \in VariantRow
  BY DEF CatalogInv, CatalogTypeOK
<1>3. variant[v].price \in {0} \cup Prices
  BY <1>2 DEF VariantRow
<1>4. variant[v].price = 0 => ~variant[v].active
  BY DEF CatalogInv, Ledger, LedgerRow, NoVariant
<1> QED
  BY <1>2, <1>3, <1>4

\* So has a row that is about to be.
LEMMA SeenHasPrice ==
  ASSUME CatalogInv, NEW e \in Editors, Writing(e)
  PROVE  /\ Sees(e) = SeenRows(edit[e].tx, variant)
         /\ Sees(e) \in [Variants -> VariantRow]
         /\ \A v \in Variants : Sees(e)[v].active => Sees(e)[v].price \in Prices
         /\ MinPrice(Sees(e)) \in {0} \cup Prices
<1>1. Sees(e) = SeenRows(edit[e].tx, variant)
  BY DEF Sees, SeenRows
<1>2. variant \in [Variants -> VariantRow]
  BY DEF CatalogInv, CatalogTypeOK
<1>3. Open(edit[e]) /\ edit[e] \in EditRow
  BY EditType
<1> DEFINE x == edit[e].tx
<1>4. x.op = "variant" => x.variant \in Variants /\ x.row \in VariantRow
  BY <1>3 DEF EditRow
<1>5. x.op = "variant" => x.row.price \in Prices
  BY <1>3 DEF CatalogInv, EditsSound, EditSound, VariantSound
<1> HIDE DEF x
<1>6. SeenRows(x, variant) \in [Variants -> VariantRow]
  BY <1>2, <1>4 DEF SeenRows
<1>7. \A v \in Variants : SeenRows(x, variant)[v].active => SeenRows(x, variant)[v].price \in Prices
  BY <1>2, <1>4, <1>5, ActiveHasPrice DEF SeenRows
<1>8. \A v \in Variants : Sees(e)[v].active => Sees(e)[v].price \in Prices
  BY <1>1, <1>7 DEF x
<1> QED
  BY <1>1, <1>6, <1>8, MinPriceIsPrice DEF x

\* The first state.
LEMMA CatalogInvInit == CatalogInit => CatalogInv
<1> SUFFICES ASSUME CatalogInit PROVE CatalogInv
  OBVIOUS
<1>1. \A v \in Variants : variant[v] = NoVariant /\ moves[v] = [sum |-> 0, last |-> 0]
  BY DEF CatalogInit
<1>2. \A e \in Editors : edit[e] = Rest /\ ~Open(edit[e]) /\ ~CountedVariant(edit[e])
  BY DEF CatalogInit, Rest, Open, CountedVariant
<1>3. CatalogTypeOK
  <2>1. store \in [mode : Modes, trusted : BOOLEAN]
    BY DEF CatalogInit, Modes
  <2>2. NoVariant \in VariantRow
    BY DEF NoVariant, VariantRow
  <2>3. variant \in [Variants -> VariantRow]
    BY <2>2 DEF CatalogInit
  <2>4. moves \in [Variants -> [sum : Nat, last : Nat]]
    BY DEF CatalogInit
  <2>5. edit \in [Editors -> {Rest} \cup EditRow]
    BY DEF CatalogInit
  <2>6. product \in [status : ProductStatus \cup {"none"}, verdict : Verdicts,
                    photos : 0 .. 1, min : {0} \cup Prices]
    BY DEF CatalogInit, Verdicts
  <2>7. handled = 0 /\ page = FALSE /\ raced = FALSE /\ seen = "never"
    BY DEF CatalogInit
  <2>8. handled \in 0 .. MaxHandled /\ page \in BOOLEAN /\ raced \in BOOLEAN /\ seen \in Sights
    <3>1. MaxHandled \in Nat
      BY CatalogAssumption
    <3>2. handled \in 0 .. MaxHandled
      BY <2>7, <3>1
    <3> QED
      BY <2>7, <3>2 DEF Sights
  <2> QED
    BY <2>1, <2>3, <2>4, <2>5, <2>6, <2>8 DEF CatalogTypeOK, EditRow
<1>4. Ledger
  BY <1>1 DEF Ledger, LedgerRow, NoVariant
<1>5. Unmade
  BY <1>1, <1>2 DEF Unmade
<1>6. OneHolder /\ OwnVariant /\ RaceKnown /\ EditsSound
  BY <1>2 DEF OneHolder, OwnVariant, RaceKnown, EditsSound, HoldsProduct, OnVariant, EditSound
<1>7. CardPrice /\ SentBack
  BY DEF CatalogInit, CardPrice, SentBack
<1> QED
  BY <1>3, <1>4, <1>5, <1>6, <1>7 DEF CatalogInv
-----------------------------------------------------------------------------
(* Catalog: one editor moves, and the rows stay *)

LEMMA EditMoves ==
  ASSUME CatalogInv, NEW e \in Editors, NEW z \in {Rest} \cup EditRow,
         edit' = [edit EXCEPT ![e] = z],
         store' = store, variant' = variant, moves' = moves, product' = product,
         seen' = seen, page' \in BOOLEAN, handled' \in 0 .. MaxHandled,
         raced' \in BOOLEAN, raced => raced',
         product.status = "none" => z = Rest,
         HoldsProduct(z) => HoldsProduct(edit[e]) \/ \A f \in Editors \ {e} : ~HoldsProduct(edit[f]),
         \A v \in Variants : OnVariant(z, v) =>
             OnVariant(edit[e], v) \/ \A f \in Editors \ {e} : ~OnVariant(edit[f], v),
         CountedVariant(z) => CountedVariant(edit[e])
             \/ \A f \in Editors \ {e} : CountedVariant(edit[f]) => raced',
         EditSound(z, variant, product.verdict, store, raced')
  PROVE  CatalogInv'
<1>1. edit \in [Editors -> {Rest} \cup EditRow]
  BY EditType
<1>2. \A f \in Editors : edit'[f] = IF f = e THEN z ELSE edit[f]
  BY <1>1
<1>3. CatalogTypeOK'
  <2>1. edit' \in [Editors -> {Rest} \cup EditRow]
    BY <1>1
  <2> QED
    BY <2>1 DEF CatalogInv, CatalogTypeOK, EditRow
<1>4. Ledger'
  BY DEF CatalogInv, Ledger
<1>5. Unmade'
  BY <1>2 DEF CatalogInv, Unmade
<1>6. OneHolder'
  BY <1>2 DEF CatalogInv, OneHolder
<1>7. OwnVariant'
  BY <1>2 DEF CatalogInv, OwnVariant
<1>8. RaceKnown'
  BY <1>2 DEF CatalogInv, RaceKnown
<1>9. EditsSound'
  <2>1. ASSUME NEW f \in Editors
        PROVE  EditSound(edit'[f], variant, product.verdict, store, raced')
    <3>1. CASE f = e
      BY <1>2, <3>1
    <3>2. CASE f # e
      <4>1. EditSound(edit[f], variant, product.verdict, store, raced)
        BY DEF CatalogInv, EditsSound
      <4> QED
        BY <1>2, <3>2, <4>1 DEF EditSound
    <3> QED
      BY <3>1, <3>2
  <2> QED
    BY <2>1 DEF EditsSound
<1>10. CardPrice' /\ SentBack'
  BY DEF CatalogInv, CardPrice, SentBack
<1> QED
  BY <1>3, <1>4, <1>5, <1>6, <1>7, <1>8, <1>9, <1>10 DEF CatalogInv

LEMMA AbortsKeeps ==
  ASSUME CatalogInv, NEW e \in Editors, Aborts(e)
  PROVE  CatalogInv'
<1>1. ~Open(Rest) /\ ~HoldsProduct(Rest) /\ ~CountedVariant(Rest) /\ \A v : ~OnVariant(Rest, v)
  BY DEF Open, HoldsProduct, CountedVariant, OnVariant, Rest
<1>2. EditSound(Rest, variant, product.verdict, store, raced')
  BY <1>1 DEF EditSound
<1>3. /\ edit' = [edit EXCEPT ![e] = Rest]
      /\ store' = store /\ variant' = variant /\ moves' = moves /\ product' = product
      /\ seen' = seen /\ page' = page /\ handled' = handled /\ raced' = raced
  BY DEF Aborts, stock, ghosts
<1>4. page' \in BOOLEAN /\ handled' \in 0 .. MaxHandled /\ raced' \in BOOLEAN
  BY <1>3 DEF CatalogInv, CatalogTypeOK
<1> QED
  BY <1>1, <1>2, <1>3, <1>4, EditMoves

\* A handler begins: what it holds was free, and its change is sound.
LEMMA BeginKeeps ==
  ASSUME CatalogInv, NEW e \in Editors, NEW x, Begin(e, x),
         [phase |-> "changed", tx |-> x, min |-> 0] \in EditRow,
         x.locks => \A f \in Editors \ {e} : ~HoldsProduct(edit[f]),
         x.op = "variant" =>
             VariantSound(x, variant) /\ \A f \in Editors : ~OnVariant(edit[f], x.variant),
         x.op = "product" => ProductSound(x, product.verdict, store)
  PROVE  CatalogInv'
<1> DEFINE z == [phase |-> "changed", tx |-> x, min |-> 0]
<1>1. z.phase = "changed" /\ z.tx = x /\ z \in EditRow
  OBVIOUS
<1>2. /\ edit' = [edit EXCEPT ![e] = z]
      /\ store' = store /\ variant' = variant /\ moves' = moves /\ product' = product
      /\ seen' = seen /\ page' = page /\ raced' = raced
      /\ handled' = handled + 1 /\ handled < MaxHandled /\ product.status # "none"
  BY DEF Begin, stock, ghosts
<1>3. page' \in BOOLEAN /\ handled' \in 0 .. MaxHandled /\ raced' \in BOOLEAN
  <2>1. page \in BOOLEAN /\ handled \in 0 .. MaxHandled /\ raced \in BOOLEAN
    BY DEF CatalogInv, CatalogTypeOK
  <2>2. MaxHandled \in Nat
    BY CatalogAssumption
  <2> QED
    BY <1>2, <2>1, <2>2
<1> HIDE DEF z
<1>4. HoldsProduct(z) => \A f \in Editors \ {e} : ~HoldsProduct(edit[f])
  BY <1>1 DEF HoldsProduct
<1>5. \A v \in Variants : OnVariant(z, v) => \A f \in Editors \ {e} : ~OnVariant(edit[f], v)
  BY <1>1 DEF OnVariant
<1>6. ~CountedVariant(z)
  BY <1>1 DEF CountedVariant
<1>7. EditSound(z, variant, product.verdict, store, raced')
  BY <1>1 DEF EditSound
<1>8. /\ z \in {Rest} \cup EditRow
      /\ product.status = "none" => z = Rest
      /\ raced => raced'
      /\ HoldsProduct(z) => HoldsProduct(edit[e]) \/ \A f \in Editors \ {e} : ~HoldsProduct(edit[f])
      /\ \A v \in Variants : OnVariant(z, v) =>
             OnVariant(edit[e], v) \/ \A f \in Editors \ {e} : ~OnVariant(edit[f], v)
      /\ CountedVariant(z) => CountedVariant(edit[e])
             \/ \A f \in Editors \ {e} : CountedVariant(edit[f]) => raced'
  BY <1>1, <1>2, <1>4, <1>5, <1>6
<1> QED
  BY <1>2, <1>3, <1>7, <1>8, EditMoves

LEMMA LocksSeen ==
  ASSUME CatalogInv
  PROVE  /\ \A v \in Variants : ~VariantLocked(v) => \A f \in Editors : ~OnVariant(edit[f], v)
         /\ \A e \in Editors : ~ProductLocked(e) => \A f \in Editors \ {e} : ~HoldsProduct(edit[f])
         /\ (\A f \in Editors : ~(Writing(f) /\ (edit[f].tx.locks \/ edit[f].phase = "told")))
              => \A f \in Editors : ~HoldsProduct(edit[f])
  BY DEF VariantLocked, Changes, ProductLocked, Writing, OnVariant, HoldsProduct, Open

\* update_variant() and change_stock() of a row, with a delta of its stock; add_variant().
LEMMA OfVariantKeeps ==
  ASSUME CatalogInv, NEW e \in Editors, NEW v \in Variants, NEW row \in VariantRow,
         NEW delta \in Int, NEW locks \in BOOLEAN,
         Begin(e, OfVariant(v, row, delta, locks)),
         ~VariantLocked(v), locks => ~ProductLocked(e),
         row.price \in Prices, row.onhand = variant[v].onhand + delta,
         row.reserved = variant[v].reserved, row.reserved <= row.onhand
  PROVE  CatalogInv'
<1> DEFINE x == OfVariant(v, row, delta, locks)
<1>1. /\ x.op = "variant" /\ x.variant = v /\ x.row = row /\ x.delta = delta /\ x.locks = locks
      /\ x \in [op : {"variant"}, variant : Variants, row : VariantRow, delta : Int,
                locks : BOOLEAN]
  BY DEF OfVariant
<1> HIDE DEF x
<1>2. [phase |-> "changed", tx |-> x, min |-> 0] \in EditRow
  BY <1>1 DEF EditRow
<1>3. x.locks => \A f \in Editors \ {e} : ~HoldsProduct(edit[f])
  BY <1>1, LocksSeen
<1>4. x.op = "variant" =>
          VariantSound(x, variant) /\ \A f \in Editors : ~OnVariant(edit[f], x.variant)
  BY <1>1, LocksSeen DEF VariantSound
<1>5. x.op = "product" => ProductSound(x, product.verdict, store)
  BY <1>1
<1>6. Begin(e, x)
  BY DEF x
<1> QED
  BY <1>2, <1>3, <1>4, <1>5, <1>6, BeginKeeps

LEMMA UpdateVariantKeeps ==
  ASSUME CatalogInv, NEW e \in Editors, NEW v \in Variants, UpdateVariant(e, v)
  PROVE  CatalogInv'
<1>1. PICK p \in Prices, act \in BOOLEAN :
          Begin(e, OfVariant(v, [variant[v] EXCEPT !.price = p, !.active = act], 0, FALSE))
  BY DEF UpdateVariant
<1>2. ~VariantLocked(v)
  BY DEF UpdateVariant
<1>3. PICK r \in VariantRow : r = variant[v]
  BY ActiveHasPrice
<1> DEFINE row == [variant[v] EXCEPT !.price = p, !.active = act]
<1>4. /\ row \in VariantRow /\ row.price = p
      /\ row.onhand = r.onhand /\ row.reserved = r.reserved
  BY <1>3 DEF VariantRow
<1>5. r.reserved <= r.onhand /\ r.onhand \in Nat
  BY <1>3 DEF CatalogInv, Ledger, LedgerRow, VariantRow
<1>6. Begin(e, OfVariant(v, row, 0, FALSE))
  BY <1>1
<1> HIDE DEF row
<1>7. r.onhand = r.onhand + 0
  BY <1>5
<1>8. /\ row.price \in Prices /\ row.onhand = variant[v].onhand + 0
      /\ row.reserved = variant[v].reserved /\ row.reserved <= row.onhand
  BY <1>3, <1>4, <1>5, <1>7
<1>9. 0 \in Int /\ FALSE \in BOOLEAN /\ (FALSE => ~ProductLocked(e)) /\ row \in VariantRow
  BY <1>4
<1> QED
  BY <1>2, <1>6, <1>8, <1>9, OfVariantKeeps

LEMMA ChangeStockKeeps ==
  ASSUME CatalogInv, NEW e \in Editors, NEW v \in Variants, NEW delta \in {-1, 1},
         ChangeStock(e, v, delta)
  PROVE  CatalogInv'
<1>1. PICK r \in VariantRow : r = variant[v]
  BY ActiveHasPrice
<1>2. /\ r.price # 0 /\ ~VariantLocked(v)
      /\ r.reserved <= r.onhand + delta
      /\ Begin(e, OfVariant(v, [variant[v] EXCEPT !.onhand = variant[v].onhand + delta],
                            delta, FALSE))
  BY <1>1 DEF ChangeStock, StockLocked
<1>3. r.price \in Prices
  BY <1>1, <1>2, ActiveHasPrice
<1> DEFINE row == [variant[v] EXCEPT !.onhand = variant[v].onhand + delta]
<1>4. r.onhand \in Nat /\ r.reserved \in Nat /\ delta \in Int
  BY DEF VariantRow
<1>5. r.onhand + delta \in Nat
  BY <1>2, <1>4
<1>6. /\ row \in VariantRow /\ row.price = r.price
      /\ row.onhand = r.onhand + delta /\ row.reserved = r.reserved
  BY <1>1, <1>5 DEF VariantRow
<1>7. /\ row.price \in Prices /\ row.onhand = variant[v].onhand + delta
      /\ row.reserved = variant[v].reserved /\ row.reserved <= row.onhand
      /\ Begin(e, OfVariant(v, row, delta, FALSE))
  BY <1>1, <1>2, <1>3, <1>6
<1> HIDE DEF row
<1> QED
  BY <1>2, <1>4, <1>6, <1>7, OfVariantKeeps

LEMMA AddVariantKeeps ==
  ASSUME CatalogInv, NEW e \in Editors, NEW v \in Variants, NEW p \in Prices,
         NEW n \in 0 .. 1, AddVariant(e, v, p, n)
  PROVE  CatalogInv'
<1> DEFINE row == [price |-> p, active |-> TRUE, onhand |-> n, reserved |-> 0]
<1>1. /\ variant[v].price = 0 /\ ~VariantLocked(v) /\ ~ProductLocked(e)
      /\ Begin(e, OfVariant(v, row, n, TRUE))
  BY DEF AddVariant
<1>2. variant[v] = NoVariant
  BY <1>1 DEF CatalogInv, Ledger, LedgerRow
<1>3. variant[v].onhand = 0 /\ variant[v].reserved = 0
  BY <1>2 DEF NoVariant
<1>4. /\ row \in VariantRow /\ row.price = p /\ row.onhand = n /\ row.reserved = 0
      /\ n \in Nat
  BY DEF VariantRow
<1>5. /\ row.price \in Prices /\ row.onhand = variant[v].onhand + n
      /\ row.reserved = variant[v].reserved /\ row.reserved <= row.onhand
  BY <1>3, <1>4
<1> HIDE DEF row
<1>6. n \in Int /\ TRUE \in BOOLEAN /\ (TRUE => ~ProductLocked(e)) /\ row \in VariantRow
  BY <1>1, <1>4
<1> QED
  BY <1>1, <1>5, <1>6, OfVariantKeeps

LEMMA UpdateProductKeeps ==
  ASSUME CatalogInv, NEW e \in Editors, NEW to \in {"draft", "active", "archived"},
         NEW content \in BOOLEAN, UpdateProduct(e, to, content)
  PROVE  CatalogInv'
<1> DEFINE x == [op |-> "product", status |-> to, verdict |-> Verdict(to, content),
                 content |-> content, locks |-> TRUE]
<1>1. ~ProductLocked(e) /\ Begin(e, x)
  BY DEF UpdateProduct
<1>2. /\ x.op = "product" /\ x.locks = TRUE /\ x.status = to /\ x.content = content
      /\ x.verdict = Verdict(to, content)
  OBVIOUS
<1>3. product.verdict \in Verdicts
  BY DEF CatalogInv, CatalogTypeOK
<1>4. Verdict(to, content) \in Verdicts
  BY <1>3 DEF Verdict, Verdicts
<1>5. x \in [op : {"product"}, status : ProductStatus, verdict : Verdicts,
             content : BOOLEAN, locks : {TRUE}]
  BY <1>4 DEF ProductStatus
<1>6. ProductSound(x, product.verdict, store)
  BY <1>2 DEF ProductSound, Moderated, Verdict, NeedsModeration
<1> HIDE DEF x
<1>7. [phase |-> "changed", tx |-> x, min |-> 0] \in EditRow
  BY <1>5 DEF EditRow
<1>8. x.locks => \A f \in Editors \ {e} : ~HoldsProduct(edit[f])
  BY <1>1, LocksSeen
<1>9. x.op = "variant" =>
          VariantSound(x, variant) /\ \A f \in Editors : ~OnVariant(edit[f], x.variant)
  BY <1>2
<1> QED
  BY <1>1, <1>6, <1>7, <1>8, <1>9, BeginKeeps
\* A transaction counts: two of variants that were counted together are known to be.
LEMMA CountsKeeps ==
  ASSUME CatalogInv, NEW e \in Editors, Counts(e)
  PROVE  CatalogInv'
<1>1. /\ edit[e].phase = "changed" /\ Open(edit[e]) /\ Writing(e)
  BY DEF Counts, Open, Writing
<1>2. PICK y \in EditRow : y = edit[e]
  BY <1>1, EditType
<1>3. PICK m \in {0} \cup Prices : m = MinPrice(Sees(e)) /\ m = MinPrice(SeenRows(y.tx, variant))
  BY <1>1, <1>2, SeenHasPrice
<1> DEFINE z == [y EXCEPT !.phase = "counted", !.min = m]
<1>4. z \in EditRow /\ z.phase = "counted" /\ z.tx = y.tx /\ z.min = m
  BY DEF EditRow
<1>5. /\ edit' = [edit EXCEPT ![e] = z]
      /\ store' = store /\ variant' = variant /\ moves' = moves /\ product' = product
      /\ seen' = seen /\ page' = page /\ handled' = handled
  BY <1>2, <1>3 DEF Counts, stock
<1> HIDE DEF z
<1>6. raced' = (raced \/ (edit[e].tx.op = "variant" /\ \E f \in Editors :
           edit[f].phase \in {"counted", "told"} /\ edit[f].tx.op = "variant"))
  BY DEF Counts
<1>7. page' \in BOOLEAN /\ handled' \in 0 .. MaxHandled /\ raced' \in BOOLEAN /\ (raced => raced')
  BY <1>5, <1>6 DEF CatalogInv, CatalogTypeOK
<1>8. HoldsProduct(z) => HoldsProduct(edit[e]) \/ \A f \in Editors \ {e} : ~HoldsProduct(edit[f])
  BY <1>1, <1>2, <1>4 DEF HoldsProduct
<1>9. \A v \in Variants : OnVariant(z, v) =>
          OnVariant(edit[e], v) \/ \A f \in Editors \ {e} : ~OnVariant(edit[f], v)
  BY <1>1, <1>2, <1>4 DEF OnVariant
<1>10. CountedVariant(z) => CountedVariant(edit[e])
          \/ \A f \in Editors \ {e} : CountedVariant(edit[f]) => raced'
  BY <1>2, <1>4, <1>6 DEF CountedVariant
<1>11. EditSound(z, variant, product.verdict, store, raced')
  <2>1. EditSound(y, variant, product.verdict, store, raced)
    BY <1>2 DEF CatalogInv, EditsSound
  <2> QED
    BY <1>1, <1>2, <1>3, <1>4, <2>1 DEF EditSound
<1>12. z \in {Rest} \cup EditRow /\ (product.status = "none" => z = Rest)
  <2>1. product.status # "none"
    BY <1>1 DEF CatalogInv, Unmade, Open, Rest
  <2> QED
    BY <1>4, <2>1
<1> QED
  BY <1>5, <1>7, <1>8, <1>9, <1>10, <1>11, <1>12, EditMoves

LEMMA TellsKeeps ==
  ASSUME CatalogInv, NEW e \in Editors, Tells(e)
  PROVE  CatalogInv'
<1>1. /\ edit[e].phase = "counted" /\ Open(edit[e]) /\ ~ProductLocked(e)
  BY DEF Tells, Open
<1>2. PICK y \in EditRow : y = edit[e]
  BY <1>1, EditType
<1> DEFINE z == [y EXCEPT !.phase = "told"]
<1>3. z \in EditRow /\ z.phase = "told" /\ z.tx = y.tx /\ z.min = y.min
  BY DEF EditRow
<1>4. /\ edit' = [edit EXCEPT ![e] = z]
      /\ store' = store /\ variant' = variant /\ moves' = moves /\ product' = product
      /\ seen' = seen /\ page' \in {FALSE, page} /\ handled' = handled /\ raced' = raced
  BY <1>2 DEF Tells, stock, ghosts
<1> HIDE DEF z
<1>5. page' \in BOOLEAN /\ handled' \in 0 .. MaxHandled /\ raced' \in BOOLEAN /\ (raced => raced')
  BY <1>4 DEF CatalogInv, CatalogTypeOK
<1>6. HoldsProduct(z) => HoldsProduct(edit[e]) \/ \A f \in Editors \ {e} : ~HoldsProduct(edit[f])
  BY <1>1, LocksSeen
<1>7. \A v \in Variants : OnVariant(z, v) =>
          OnVariant(edit[e], v) \/ \A f \in Editors \ {e} : ~OnVariant(edit[f], v)
  BY <1>1, <1>2, <1>3 DEF OnVariant
<1>8. CountedVariant(z) => CountedVariant(edit[e])
          \/ \A f \in Editors \ {e} : CountedVariant(edit[f]) => raced'
  BY <1>1, <1>2, <1>3 DEF CountedVariant
<1>9. EditSound(z, variant, product.verdict, store, raced')
  <2>1. EditSound(y, variant, product.verdict, store, raced)
    BY <1>2 DEF CatalogInv, EditsSound
  <2> QED
    BY <1>1, <1>2, <1>3, <1>4, <2>1 DEF EditSound
<1>10. z \in {Rest} \cup EditRow /\ (product.status = "none" => z = Rest)
  <2>1. product.status # "none"
    BY <1>1 DEF CatalogInv, Unmade, Open, Rest
  <2> QED
    BY <1>3, <2>1
<1> QED
  BY <1>4, <1>5, <1>6, <1>7, <1>8, <1>9, <1>10, EditMoves

-----------------------------------------------------------------------------
(* Catalog: the rows move *)

\* The product or its page moves, and no variant and no transaction: what an update holds
\* to write stays sound, because a verdict changes only where nobody holds the product.
LEMMA ProductMoves ==
  ASSUME CatalogInv,
         store' = store, variant' = variant, moves' = moves, edit' = edit, raced' = raced,
         handled' \in 0 .. MaxHandled, page' \in BOOLEAN, seen' \in Sights,
         product' \in [status : ProductStatus \cup {"none"}, verdict : Verdicts,
                       photos : 0 .. 1, min : {0} \cup Prices],
         product'.status = product.status, product'.min = product.min,
         product'.verdict = product.verdict \/ \A f \in Editors : ~HoldsProduct(edit[f]),
         SentBack'
  PROVE  CatalogInv'
<1>1. CatalogTypeOK'
  BY DEF CatalogInv, CatalogTypeOK
<1>2. Ledger' /\ OneHolder' /\ OwnVariant' /\ RaceKnown'
  BY DEF CatalogInv, Ledger, OneHolder, OwnVariant, RaceKnown
<1>3. Unmade'
  BY DEF CatalogInv, Unmade
<1>4. EditsSound'
  <2>1. ASSUME NEW f \in Editors
        PROVE  EditSound(edit[f], variant, product'.verdict, store, raced)
    <3>1. EditSound(edit[f], variant, product.verdict, store, raced)
      BY DEF CatalogInv, EditsSound
    <3>2. CASE product'.verdict = product.verdict
      BY <3>1, <3>2
    <3>3. CASE ~HoldsProduct(edit[f])
      <4>1. Open(edit[f]) => edit[f].tx.op = "variant"
        BY <3>3, EditType DEF EditRow, HoldsProduct
      <4> QED
        BY <3>1, <4>1 DEF EditSound
    <3> QED
      BY <3>2, <3>3
  <2> QED
    BY <2>1 DEF EditsSound
<1>5. CardPrice'
  BY DEF CatalogInv, CardPrice
<1> QED
  BY <1>1, <1>2, <1>3, <1>4, <1>5 DEF CatalogInv

LEMMA QuietKeeps ==
  ASSUME CatalogInv,
         \/ \E to \in {"approved", "rejected"} : ModerateProduct(to)
         \/ AttachMedia \/ DetachMedia \/ Render \/ PageExpires
  PROVE  CatalogInv'
<1> DEFINE PT == [status : ProductStatus \cup {"none"}, verdict : Verdicts,
                  photos : 0 .. 1, min : {0} \cup Prices]
<1>1. PICK r \in PT : r = product
  BY DEF CatalogInv, CatalogTypeOK
<1>2. /\ handled \in 0 .. MaxHandled /\ MaxHandled \in Nat
      /\ page \in BOOLEAN /\ seen \in Sights
  BY CatalogAssumption DEF CatalogInv, CatalogTypeOK
<1>3. /\ store' = store /\ variant' = variant /\ moves' = moves /\ edit' = edit /\ raced' = raced
  BY DEF ModerateProduct, AttachMedia, DetachMedia, Render, PageExpires, stock, ghosts
<1>4. ASSUME NEW to \in {"approved", "rejected"}, ModerateProduct(to)
      PROVE  CatalogInv'
  <2>1. /\ product' = [r EXCEPT !.verdict = to] /\ handled' = handled + 1
        /\ seen' = (IF to = "approved" THEN "current" ELSE seen) /\ handled < MaxHandled
        /\ page' \in {FALSE, page}
    BY <1>1, <1>4 DEF ModerateProduct
  <2>2. /\ product' \in PT /\ product'.verdict = to
        /\ product'.status = product.status /\ product'.min = product.min
    BY <1>1, <2>1 DEF Verdicts
  <2>3. \A f \in Editors : ~HoldsProduct(edit[f])
    BY <1>4, LocksSeen DEF ModerateProduct
  <2>4. handled' \in 0 .. MaxHandled /\ page' \in BOOLEAN /\ seen' \in Sights
    <3>1. handled' \in 0 .. MaxHandled
      BY <1>2, <2>1
    <3>2. page' \in BOOLEAN /\ seen' \in Sights
      BY <1>2, <2>1 DEF Sights
    <3> QED
      BY <3>1, <3>2
  <2>5. SentBack'
    BY <1>3, <2>1, <2>2 DEF SentBack
  <2> QED
    BY <1>3, <2>2, <2>3, <2>4, <2>5, ProductMoves
<1>5. CASE AttachMedia \/ DetachMedia \/ Render \/ PageExpires
  <2>1. PICK n \in 0 .. 1 : product' = [r EXCEPT !.photos = n]
    <3>1. product' = [r EXCEPT !.photos = 1] \/ product' = [r EXCEPT !.photos = 0] \/ product' = r
      BY <1>1, <1>5 DEF AttachMedia, DetachMedia, Render, PageExpires
    <3>2. r = [r EXCEPT !.photos = r.photos] /\ r.photos \in 0 .. 1
      OBVIOUS
    <3> QED
      BY <3>1, <3>2
  <2>2. /\ product' \in PT /\ product'.verdict = product.verdict
        /\ product'.status = product.status /\ product'.min = product.min
    BY <1>1, <2>1
  <2>3. handled' = handled /\ seen' = seen /\ page' \in {TRUE, FALSE, page}
    BY <1>5 DEF AttachMedia, DetachMedia, Render, PageExpires, ghosts
  <2>4. handled' \in 0 .. MaxHandled /\ page' \in BOOLEAN /\ seen' \in Sights
    BY <1>2, <2>3
  <2>5. SentBack'
    BY <1>3, <2>2, <2>3 DEF SentBack, CatalogInv
  <2> QED
    BY <1>3, <2>2, <2>4, <2>5, ProductMoves
<1> QED
  BY <1>4, <1>5

\* Checkout takes a piece or gives it back, of a variant nobody has locked.
LEMMA ReservedMoves ==
  ASSUME CatalogInv, NEW v \in Variants, NEW n \in Nat, ~VariantLocked(v),
         n <= variant[v].onhand, variant[v].price # 0,
         variant' = [variant EXCEPT ![v] = [variant[v] EXCEPT !.reserved = n]],
         UNCHANGED <<store, moves, product, edit, handled, page, ghosts>>
  PROVE  CatalogInv'
<1>1. PICK r \in VariantRow : r = variant[v]
  BY ActiveHasPrice
<1>2. PICK q \in VariantRow : q = [r EXCEPT !.reserved = n]
  BY DEF VariantRow
<1>3. /\ q.price = r.price /\ q.active = r.active /\ q.onhand = r.onhand /\ q.reserved = n
  BY <1>2 DEF VariantRow
<1>4. variant \in [Variants -> VariantRow]
  BY DEF CatalogInv, CatalogTypeOK
<1>5. /\ variant' = [variant EXCEPT ![v] = q]
      /\ variant' \in [Variants -> VariantRow]
      /\ \A w \in Variants : variant'[w] = IF w = v THEN q ELSE variant[w]
  BY <1>1, <1>2, <1>4
<1>6. /\ store' = store /\ moves' = moves /\ product' = product /\ edit' = edit
      /\ handled' = handled /\ page' = page /\ raced' = raced /\ seen' = seen
  BY DEF ghosts
<1>7. CatalogTypeOK'
  BY <1>5, <1>6 DEF CatalogInv, CatalogTypeOK
<1>8. Ledger'
  <2>1. ASSUME NEW w \in Variants PROVE LedgerRow(variant'[w], moves[w])
    <3>1. LedgerRow(variant[w], moves[w])
      BY DEF CatalogInv, Ledger
    <3> QED
      BY <1>1, <1>3, <1>5, <3>1 DEF LedgerRow
  <2> QED
    BY <1>6, <2>1 DEF Ledger
<1>9. Unmade'
  <2>1. product.status # "none"
    BY DEF CatalogInv, Unmade, NoVariant
  <2> QED
    BY <1>6, <2>1 DEF Unmade
<1>10. OneHolder' /\ OwnVariant' /\ RaceKnown' /\ SentBack'
  BY <1>6 DEF CatalogInv, OneHolder, OwnVariant, RaceKnown, SentBack
<1>11. MinPrice(variant') = MinPrice(variant)
  <2>1. \A w \in Variants : /\ variant'[w].active = variant[w].active
                           /\ variant'[w].price = variant[w].price
    BY <1>1, <1>3, <1>5
  <2> QED
    BY <2>1, MinPriceSame
<1>12. CardPrice'
  BY <1>6, <1>11 DEF CatalogInv, CardPrice
<1>13. EditsSound'
  <2>1. ASSUME NEW f \in Editors
        PROVE  EditSound(edit[f], variant', product.verdict, store, raced)
    <3>1. EditSound(edit[f], variant, product.verdict, store, raced)
      BY DEF CatalogInv, EditsSound
    <3>2. CASE Open(edit[f])
      <4>1. PICK y \in EditRow : y = edit[f] /\ Open(y)
        BY <3>2, EditType
      <4>2. y.tx.op = "variant" => y.tx.variant # v /\ y.tx.variant \in Variants
        BY <4>1, LocksSeen DEF OnVariant, EditRow
      <4>3. y.tx.op = "variant" => VariantSound(y.tx, variant')
        BY <1>5, <3>1, <4>1, <4>2 DEF EditSound, VariantSound
      <4>4. MinPrice(SeenRows(y.tx, variant')) = MinPrice(SeenRows(y.tx, variant))
        <5>1. \A w \in Variants :
                 /\ SeenRows(y.tx, variant')[w].active = SeenRows(y.tx, variant)[w].active
                 /\ SeenRows(y.tx, variant')[w].price = SeenRows(y.tx, variant)[w].price
          BY <1>1, <1>3, <1>4, <1>5 DEF SeenRows
        <5> QED
          BY <5>1, MinPriceSame
      <4> QED
        BY <3>1, <4>1, <4>3, <4>4 DEF EditSound
    <3> QED
      BY <3>2 DEF EditSound
  <2> QED
    BY <1>6, <2>1 DEF EditsSound
<1> QED
  BY <1>7, <1>8, <1>9, <1>10, <1>12, <1>13 DEF CatalogInv

LEMMA ReserveKeeps ==
  ASSUME CatalogInv, NEW v \in Variants, ReserveStock(v) \/ ReleaseStock(v)
  PROVE  CatalogInv'
<1>1. PICK r \in VariantRow : r = variant[v]
  BY ActiveHasPrice
<1>2. r.reserved \in Nat /\ r.onhand \in Nat /\ r.reserved <= r.onhand
  BY <1>1 DEF VariantRow, CatalogInv, Ledger, LedgerRow
<1>3. ~VariantLocked(v) /\ UNCHANGED <<store, moves, product, edit, handled, page, ghosts>>
  BY DEF ReserveStock, ReleaseStock
<1>4. r.active \/ r.reserved > 0
  BY <1>1 DEF ReserveStock, ReleaseStock
<1>5. r.price # 0
  BY <1>1, <1>4 DEF CatalogInv, Ledger, LedgerRow, NoVariant
<1>6. CASE ReserveStock(v)
  <2>1. variant' = [variant EXCEPT ![v] = [variant[v] EXCEPT !.reserved = variant[v].reserved + 1]]
    BY <1>6 DEF ReserveStock
  <2>2. r.reserved < r.onhand
    BY <1>1, <1>6 DEF ReserveStock
  <2>3. PICK n \in Nat : n = r.reserved + 1
    BY <1>2, <2>2
  <2>4. n <= variant[v].onhand /\ variant[v].price # 0
    BY <1>1, <1>2, <1>5, <2>2, <2>3
  <2>5. variant' = [variant EXCEPT ![v] = [variant[v] EXCEPT !.reserved = n]]
    BY <1>1, <2>1, <2>3
  <2> QED
    BY <1>3, <2>4, <2>5, ReservedMoves
<1>7. CASE ReleaseStock(v)
  <2>1. variant' = [variant EXCEPT ![v] = [variant[v] EXCEPT !.reserved = variant[v].reserved - 1]]
    BY <1>7 DEF ReleaseStock
  <2>2. r.reserved > 0
    BY <1>1, <1>7 DEF ReleaseStock
  <2>3. PICK n \in Nat : n = r.reserved - 1
    BY <1>2, <2>2
  <2>4. n <= variant[v].onhand /\ variant[v].price # 0
    BY <1>1, <1>2, <1>5, <2>2, <2>3
  <2>5. variant' = [variant EXCEPT ![v] = [variant[v] EXCEPT !.reserved = n]]
    BY <1>1, <2>1, <2>3
  <2> QED
    BY <1>3, <2>4, <2>5, ReservedMoves
<1> QED
  BY <1>6, <1>7
\* The first rows of a product are written while nobody else sees it.
LEMMA CreateKeeps ==
  ASSUME CatalogInv, NEW v \in Variants, NEW p \in Prices, NEW n \in 0 .. 1,
         CreateProduct(v, p, n)
  PROVE  CatalogInv'
<1>1. (\A e \in Editors : edit[e] = Rest) /\ (\A w \in Variants : variant[w] = NoVariant)
  BY DEF CreateProduct, CatalogInv, Unmade
<1>2. PICK q \in VariantRow : q = [price |-> p, active |-> TRUE, onhand |-> n, reserved |-> 0]
  <2>1. n \in Nat /\ 0 \in Nat /\ TRUE \in BOOLEAN
    OBVIOUS
  <2>2. [price |-> p, active |-> TRUE, onhand |-> n, reserved |-> 0] \in VariantRow
    BY <2>1 DEF VariantRow
  <2> QED
    BY <2>2
<1>3. q.price = p /\ q.active = TRUE /\ q.onhand = n /\ q.reserved = 0 /\ n \in Nat /\ p # 0
  BY <1>2, CatalogAssumption
<1>4. PICK m \in [sum : Nat, last : Nat] : m = [sum |-> n, last |-> n]
  BY <1>3
<1>5. /\ variant \in [Variants -> VariantRow] /\ moves \in [Variants -> [sum : Nat, last : Nat]]
  BY DEF CatalogInv, CatalogTypeOK
<1>6. /\ variant' = [variant EXCEPT ![v] = q] /\ moves' = [moves EXCEPT ![v] = m]
      /\ product' = [product EXCEPT !.status = "draft", !.min = p]
      /\ store' = store /\ edit' = edit /\ handled' = handled /\ page' = page
      /\ raced' = raced /\ seen' = seen
  BY <1>2, <1>4 DEF CreateProduct, ghosts
<1>7. /\ variant' \in [Variants -> VariantRow] /\ moves' \in [Variants -> [sum : Nat, last : Nat]]
      /\ \A w \in Variants : variant'[w] = IF w = v THEN q ELSE variant[w]
      /\ \A w \in Variants : moves'[w] = IF w = v THEN m ELSE moves[w]
  BY <1>5, <1>6
<1>8. /\ product' \in [status : ProductStatus \cup {"none"}, verdict : Verdicts,
                       photos : 0 .. 1, min : {0} \cup Prices]
      /\ product'.status = "draft" /\ product'.verdict = product.verdict /\ product'.min = p
  BY <1>6 DEF CatalogInv, CatalogTypeOK, ProductStatus
<1>9. CatalogTypeOK'
  BY <1>6, <1>7, <1>8 DEF CatalogInv, CatalogTypeOK
<1>10. Ledger'
  <2>1. ASSUME NEW w \in Variants PROVE LedgerRow(variant'[w], moves'[w])
    <3>1. LedgerRow(variant[w], moves[w])
      BY DEF CatalogInv, Ledger
    <3> QED
      BY <1>3, <1>4, <1>7, <3>1 DEF LedgerRow
  <2> QED
    BY <2>1 DEF Ledger
<1>11. Unmade'
  BY <1>8 DEF Unmade
<1>12. OneHolder' /\ OwnVariant' /\ RaceKnown'
  BY <1>6 DEF CatalogInv, OneHolder, OwnVariant, RaceKnown
<1>13. EditsSound'
  BY <1>1, <1>6 DEF EditsSound, EditSound, Open, Rest
<1>14. MinPrice(variant') = p
  <2>1. \A w \in Variants \ {v} : ~variant'[w].active
    BY <1>1, <1>7 DEF NoVariant
  <2>2. variant'[v].active /\ variant'[v].price = p
    BY <1>3, <1>7
  <2> QED
    BY <2>1, <2>2, MinPriceOfOne
<1>15. CardPrice'
  BY <1>8, <1>14 DEF CardPrice
<1>16. SentBack'
  BY <1>6, <1>8 DEF CatalogInv, SentBack
<1> QED
  BY <1>9, <1>10, <1>11, <1>12, <1>13, <1>15, <1>16 DEF CatalogInv

\* A transaction commits what it saw: nobody else holds the product, so whoever is open
\* changes another variant, and if it has counted already the two are known to have raced.
LEMMA CommitsKeeps ==
  ASSUME CatalogInv, NEW e \in Editors, Commits(e)
  PROVE  CatalogInv'
<1>1. edit[e].phase = "told" /\ Open(edit[e]) /\ Writing(e) /\ HoldsProduct(edit[e])
  BY DEF Commits, Open, Writing, HoldsProduct
<1>2. PICK y \in EditRow : y = edit[e]
  BY <1>1, EditType
<1>3. PICK x : x = y.tx
  OBVIOUS
<1>4. PICK m \in {0} \cup Prices : m = y.min
  BY DEF EditRow
<1>5. /\ x \in [op : {"variant"}, variant : Variants, row : VariantRow, delta : Int,
                locks : BOOLEAN]
            \cup [op : {"product"}, status : ProductStatus, verdict : Verdicts,
                  content : BOOLEAN, locks : {TRUE}]
  BY <1>3 DEF EditRow
<1>6. /\ x.op = "variant" => VariantSound(x, variant)
      /\ x.op = "product" => ProductSound(x, product.verdict, store)
      /\ ~raced => m = MinPrice(SeenRows(x, variant))
  BY <1>1, <1>2, <1>3, <1>4 DEF CatalogInv, EditsSound, EditSound
<1>7. /\ variant' = SeenRows(x, variant)
      /\ variant' \in [Variants -> VariantRow]
  BY <1>1, <1>2, <1>3, SeenHasPrice DEF Commits
<1>8. /\ moves' = IF x.op = "variant" /\ x.delta # 0
                  THEN [moves EXCEPT ![x.variant] =
                           [sum |-> moves[x.variant].sum + x.delta, last |-> x.row.onhand]]
                  ELSE moves
      /\ product' = IF x.op = "product"
                    THEN [product EXCEPT !.status = x.status, !.verdict = x.verdict, !.min = m]
                    ELSE [product EXCEPT !.min = m]
      /\ seen' = IF x.op = "product" /\ x.content /\ x.status = "active" /\ seen = "current"
                  THEN "changed" ELSE seen
      /\ edit' = [edit EXCEPT ![e] = Rest]
      /\ store' = store /\ handled' = handled /\ page' = page /\ raced' = raced
  BY <1>2, <1>3, <1>4 DEF Commits
<1>9. /\ edit \in [Editors -> {Rest} \cup EditRow]
      /\ variant \in [Variants -> VariantRow] /\ moves \in [Variants -> [sum : Nat, last : Nat]]
  BY EditType DEF CatalogInv, CatalogTypeOK
<1>10. \A f \in Editors : edit'[f] = IF f = e THEN Rest ELSE edit[f]
  BY <1>8, <1>9
<1>11. ~Open(Rest) /\ ~HoldsProduct(Rest) /\ ~CountedVariant(Rest) /\ \A v : ~OnVariant(Rest, v)
  BY DEF Open, HoldsProduct, CountedVariant, OnVariant, Rest
<1>12. \A f \in Editors \ {e} : ~HoldsProduct(edit[f])
  BY <1>1 DEF CatalogInv, OneHolder
<1>13. \A f \in Editors \ {e} : x.op = "variant" => ~OnVariant(edit[f], x.variant)
  <2>1. x.op = "variant" => x.variant \in Variants /\ OnVariant(edit[e], x.variant)
    BY <1>1, <1>2, <1>3, <1>5 DEF OnVariant
  <2> QED
    BY <2>1 DEF CatalogInv, OwnVariant
<1>14. \A f \in Editors \ {e} : x.op = "variant" /\ CountedVariant(edit[f]) => raced
  <2>1. x.op = "variant" => CountedVariant(edit[e])
    BY <1>1, <1>2, <1>3 DEF CountedVariant
  <2> QED
    BY <2>1 DEF CatalogInv, RaceKnown
<1>15. \A v \in Variants :
          /\ variant'[v] = IF x.op = "variant" /\ v = x.variant THEN x.row ELSE variant[v]
          /\ moves'[v] = IF x.op = "variant" /\ v = x.variant /\ x.delta # 0
                         THEN [sum |-> moves[v].sum + x.delta, last |-> x.row.onhand]
                         ELSE moves[v]
  BY <1>5, <1>7, <1>8, <1>9 DEF SeenRows
<1>16. /\ product' \in [status : ProductStatus \cup {"none"}, verdict : Verdicts,
                        photos : 0 .. 1, min : {0} \cup Prices]
       /\ product'.status # "none" /\ product'.min = m
       /\ product'.verdict = IF x.op = "product" THEN x.verdict ELSE product.verdict
  <2>1. product.status # "none"
    BY <1>1 DEF CatalogInv, Unmade, Open, Rest
  <2>2. x.op = "product" => x.status \in ProductStatus /\ x.verdict \in Verdicts
    BY <1>5
  <2>3. "none" \notin ProductStatus
    BY DEF ProductStatus
  <2>4. PICK r \in [status : ProductStatus \cup {"none"}, verdict : Verdicts,
                    photos : 0 .. 1, min : {0} \cup Prices] : r = product
    BY DEF CatalogInv, CatalogTypeOK
  <2> QED
    BY <1>8, <2>1, <2>2, <2>3, <2>4
<1>17. Ledger' /\ moves' \in [Variants -> [sum : Nat, last : Nat]]
  <2>1. ASSUME NEW v \in Variants
        PROVE  LedgerRow(variant'[v], moves'[v])
    <3>1. LedgerRow(variant[v], moves[v])
      BY DEF CatalogInv, Ledger
    <3>2. CASE x.op = "variant" /\ v = x.variant
      <4>1. PICK r \in VariantRow : r = x.row
        BY <1>5, <3>2
      <4>2. PICK d \in Int : d = x.delta
        BY <1>5, <3>2
      <4>3. PICK o \in VariantRow : o = variant[v]
        BY <1>9
      <4>4. /\ r.price \in Prices /\ r.onhand = o.onhand + d /\ r.reserved <= r.onhand
        BY <1>6, <3>2, <4>1, <4>2, <4>3 DEF VariantSound
      <4>5. r.price # 0
        BY <4>4, CatalogAssumption
      <4>6. o.onhand \in Nat
        BY <4>3 DEF VariantRow
      <4>7. moves'[v] = IF d # 0 THEN [sum |-> moves[v].sum + d, last |-> r.onhand] ELSE moves[v]
        BY <1>15, <3>2, <4>1, <4>2
      <4>8. moves[v].sum = o.onhand /\ moves[v].last = o.onhand
        BY <3>1, <4>3 DEF LedgerRow
      <4>9. moves'[v].sum = r.onhand /\ moves'[v].last = r.onhand
        BY <4>4, <4>6, <4>7, <4>8
      <4> QED
        BY <1>15, <3>2, <4>1, <4>4, <4>5, <4>9 DEF LedgerRow
    <3>3. CASE ~(x.op = "variant" /\ v = x.variant)
      BY <1>15, <3>1, <3>3
    <3> QED
      BY <3>2, <3>3
  <2>2. CASE x.op = "variant" /\ x.delta # 0
    <3>1. LedgerRow(variant'[x.variant], moves'[x.variant]) /\ x.variant \in Variants
      BY <1>5, <2>1, <2>2
    <3>2. x.row.onhand \in Nat
      BY <1>5, <2>2 DEF VariantRow
    <3>3. moves'[x.variant] = [sum |-> moves[x.variant].sum + x.delta, last |-> x.row.onhand]
      BY <1>15, <2>2, <3>1
    <3>4. variant'[x.variant] = x.row
      BY <1>15, <2>2, <3>1
    <3>5. moves[x.variant].sum + x.delta = x.row.onhand
      BY <3>1, <3>3, <3>4 DEF LedgerRow
    <3>6. [sum |-> moves[x.variant].sum + x.delta, last |-> x.row.onhand] \in [sum : Nat, last : Nat]
      BY <3>2, <3>5
    <3> QED
      BY <1>8, <1>9, <2>1, <2>2, <3>6 DEF Ledger
  <2>3. CASE ~(x.op = "variant" /\ x.delta # 0)
    BY <1>8, <1>9, <2>1, <2>3 DEF Ledger
  <2> QED
    BY <2>2, <2>3
<1>18. CatalogTypeOK'
  <2>1. edit' \in [Editors -> {Rest} \cup EditRow]
    BY <1>8, <1>9
  <2>2. seen' \in Sights
    BY <1>8 DEF CatalogInv, CatalogTypeOK, Sights
  <2> QED
    BY <1>7, <1>8, <1>16, <1>17, <2>1, <2>2 DEF CatalogInv, CatalogTypeOK, EditRow
<1>19. Unmade'
  BY <1>16 DEF Unmade
<1>20. OneHolder' /\ OwnVariant' /\ RaceKnown'
  BY <1>8, <1>10, <1>11 DEF CatalogInv, OneHolder, OwnVariant, RaceKnown
<1>21. CardPrice'
  BY <1>6, <1>7, <1>8, <1>16 DEF CardPrice
<1>22. SentBack'
  BY <1>6, <1>8, <1>16 DEF CatalogInv, SentBack, ProductSound, Moderated
<1>23. EditsSound'
  <2>1. ASSUME NEW f \in Editors \ {e}
        PROVE  EditSound(edit[f], variant', product'.verdict, store, raced)
    <3>1. EditSound(edit[f], variant, product.verdict, store, raced)
      BY DEF CatalogInv, EditsSound
    <3>2. CASE Open(edit[f])
      <4>1. PICK w \in EditRow : w = edit[f] /\ Open(w) /\ ~HoldsProduct(w)
        BY <1>12, <3>2, EditType
      <4>2. w.tx.op = "variant" /\ w.tx.variant \in Variants /\ w.phase # "told"
        BY <4>1 DEF HoldsProduct, EditRow
      <4>3. x.op = "variant" => w.tx.variant # x.variant
        BY <1>13, <4>1, <4>2 DEF OnVariant
      <4>4. VariantSound(w.tx, variant')
        BY <1>15, <3>1, <4>1, <4>2, <4>3 DEF EditSound, VariantSound
      <4>5. ~raced /\ w.phase = "counted" => variant' = variant
        BY <1>5, <1>7, <1>14, <4>1, <4>2 DEF CountedVariant, SeenRows
      <4> QED
        BY <3>1, <4>1, <4>2, <4>4, <4>5 DEF EditSound
    <3> QED
      BY <3>2 DEF EditSound
  <2>2. EditSound(Rest, variant', product'.verdict, store, raced)
    BY <1>11 DEF EditSound
  <2> QED
    BY <1>8, <1>10, <2>1, <2>2 DEF EditsSound
<1> QED
  BY <1>17, <1>18, <1>19, <1>20, <1>21, <1>22, <1>23 DEF CatalogInv

-----------------------------------------------------------------------------
LEMMA CatalogInvNext == CatalogInv /\ [CatalogNext]_catalogVars => CatalogInv'
<1> SUFFICES ASSUME CatalogInv, [CatalogNext]_catalogVars
             PROVE  CatalogInv'
  OBVIOUS
<1>1. ASSUME NEW e \in Editors, EditorStep(e)
      PROVE  CatalogInv'
  <2>1. CASE Counts(e) \/ Tells(e) \/ Commits(e) \/ Aborts(e)
    BY <2>1, CountsKeeps, TellsKeeps, CommitsKeeps, AbortsKeeps
  <2>2. ASSUME NEW to \in {"draft", "active", "archived"}, NEW content \in BOOLEAN,
               UpdateProduct(e, to, content)
        PROVE  CatalogInv'
    BY <2>2, UpdateProductKeeps
  <2>3. ASSUME NEW v \in Variants, UpdateVariant(e, v)
        PROVE  CatalogInv'
    BY <2>3, UpdateVariantKeeps
  <2>4. ASSUME NEW v \in Variants, NEW delta \in {-1, 1}, ChangeStock(e, v, delta)
        PROVE  CatalogInv'
    BY <2>4, ChangeStockKeeps
  <2>5. ASSUME NEW v \in Variants, NEW p \in Prices, NEW n \in 0 .. 1, AddVariant(e, v, p, n)
        PROVE  CatalogInv'
    BY <2>5, AddVariantKeeps
  <2> QED
    BY <1>1, <2>1, <2>2, <2>3, <2>4, <2>5 DEF EditorStep
<1>2. ASSUME NEW v \in Variants, ReserveStock(v) \/ ReleaseStock(v)
      PROVE  CatalogInv'
  BY <1>2, ReserveKeeps
<1>3. ASSUME NEW v \in Variants, NEW p \in Prices, NEW n \in 0 .. 1, CreateProduct(v, p, n)
      PROVE  CatalogInv'
  BY <1>3, CreateKeeps
<1>4. CASE \/ \E to \in {"approved", "rejected"} : ModerateProduct(to)
           \/ AttachMedia \/ DetachMedia \/ Render \/ PageExpires
  BY <1>4, QuietKeeps
<1>5. CASE UNCHANGED catalogVars
  <2>1. /\ store' = store /\ variant' = variant /\ moves' = moves /\ product' = product
        /\ edit' = edit /\ handled' = handled /\ page' = page /\ raced' = raced
        /\ seen' = seen
    BY <1>5 DEF catalogVars, stock, ghosts
  <2>2. /\ handled' \in 0 .. MaxHandled /\ page' \in BOOLEAN /\ seen' \in Sights
        /\ product' \in [status : ProductStatus \cup {"none"}, verdict : Verdicts,
                         photos : 0 .. 1, min : {0} \cup Prices]
    BY <2>1 DEF CatalogInv, CatalogTypeOK
  <2>3. SentBack'
    BY <2>1 DEF CatalogInv, SentBack
  <2> QED
    BY <2>1, <2>2, <2>3, ProductMoves
<1> QED
  BY <1>1, <1>2, <1>3, <1>4, <1>5 DEF CatalogNext

\* However many editors, reservations and moderators meet: the movements of a variant
\* explain its stock and what is reserved is there, and the card shows the lowest price
\* unless two counts raced.
THEOREM CatalogSafeHolds == CatalogSpec => []CatalogSafe
<1>1. CatalogInit => CatalogInv
  BY CatalogInvInit
<1>2. CatalogInv /\ [CatalogNext]_catalogVars => CatalogInv'
  BY CatalogInvNext
<1>3. CatalogInv => CatalogSafe
  BY CatalogInvIsSafe
<1> QED
  BY <1>1, <1>2, <1>3, PTL DEF CatalogSpec

\* However edits, drafts, re-saves and decisions follow each other, a first listing of a
\* moderated vendor is never for sale that no moderator ever approved; where everything is
\* moderated, live content that was changed is not for sale until it is approved again.
THEOREM ModeratedFirstHolds == CatalogSpec => []ModeratedFirst
<1>1. CatalogInit => CatalogInv
  BY CatalogInvInit
<1>2. CatalogInv /\ [CatalogNext]_catalogVars => CatalogInv'
  BY CatalogInvNext
<1>3. CatalogInv => ModeratedFirst
  BY CatalogInvIsSafe
<1> QED
  BY <1>1, <1>2, <1>3, PTL DEF CatalogSpec

-----------------------------------------------------------------------------
(* Notifications: what an open transaction holds *)

Outcomes == {"queued", "sent", "failed", "no_device", "suppressed"}
Reached == {"sent", "failed", "no_device"}
PartOf(A, B) == UNION {[D -> B] : D \in SUBSET A}

HandRow ==
    [op : {"fact", "campaign", "sweep"}, phase : {"next", "deliver", "flush"},
     about : {<<>>} \cup (OrderKeys \X Buyers), todo : SUBSET Keys,
     mine : PartOf(Keys, Outcomes), seen : SUBSET Buyers,
     reports : PartOf(Buyers, {"sent", "failed"}), quiet : BOOLEAN]

Topics(op) ==
    CASE op = "fact" -> OrderKeys [] op = "campaign" -> {Push} [] OTHER -> {Nudge}
HasOpen(x, k) == x # Still /\ k \in DOMAIN x.mine
HasDelivered(x, k) == HasOpen(x, k) /\ x.mine[k] # "queued"

\* A transaction tells what its operation is about, messages nobody has committed; one at
\* a time is on its way; and a fact a request reports is to be told, or told.
HandSound(x, notes) == x # Still =>
    /\ x \in HandRow
    /\ \A k \in x.todo : k[1] \in Topics(x.op)
    /\ \A k \in DOMAIN x.mine :
         /\ k[1] \in Topics(x.op) /\ notes[k] = "none"
         /\ x.mine[k] = "suppressed" => Marketing(k)
         /\ x.mine[k] = "queued" => x.phase = "deliver"
    /\ \A k, l \in DOMAIN x.mine : x.mine[k] = "queued" /\ x.mine[l] = "queued" => k = l
    /\ x.op = "fact" =>
         /\ x.about \in OrderKeys \X Buyers
         /\ ~x.quiet => \/ x.about \in x.todo \cup DOMAIN x.mine
                        \/ notes[x.about] \in Reached

-----------------------------------------------------------------------------
(* Notifications: the inductive invariant *)

RowTypes ==
    /\ note \in [Keys -> NoteStatus] /\ sends \in [Keys -> Nat]
    /\ silent \subseteq facts /\ facts \subseteq OrderKeys \X Buyers
    /\ campaign \in [status : {"draft", "sent", "cancelled"}, sent : 0 .. Cardinality(Buyers)]
    /\ event \in [Buyers -> EventStatus] /\ posts \in [Buyers -> Nat]
    /\ happened \in [facts : Nat, moods : Nat, lost : Nat]

MoodTypes ==
    /\ prefs \in [Buyers -> [row : BOOLEAN, push : BOOLEAN, quiet : BOOLEAN]]
    /\ night \in BOOLEAN /\ muted \subseteq Texts /\ destination \in BOOLEAN

HandsSound ==
    /\ hand \in [Hands -> {Still} \cup HandRow]
    /\ \A h \in Hands : HandSound(hand[h], note)
OneInserts == \A k \in Keys : \A h, g \in Hands :
    HasOpen(hand[h], k) /\ HasOpen(hand[g], k) => h = g
OneCampaign ==
    /\ \A h, g \in Hands : Does(h, "campaign") /\ Does(g, "campaign") => h = g
    /\ CampaignLocked => campaign.status = "draft"

\* A message on record, or delivered by an open transaction, went once; every other time
\* it went, a commit was lost.
Gone(k) == note[k] # "none" \/ \E h \in Hands : HasDelivered(hand[h], k)
SentBound == \A k \in Keys : sends[k] <= happened.lost + (IF Gone(k) THEN 1 ELSE 0)

\* Nobody hears of a campaign but by the transaction that sends it.
PushQuiet == happened.lost = 0 /\ campaign.status # "sent" /\ ~CampaignLocked =>
    \A b \in Buyers : sends[<<Push, b>>] = 0
CampaignKept ==
    /\ campaign.status # "sent" => \A b \in Buyers : note[<<Push, b>>] = "none"
    /\ campaign.status = "sent" =>
         campaign.sent = Cardinality({b \in Buyers : note[<<Push, b>>] = "sent"})
OnlyMarketing == \A k \in Keys : note[k] = "suppressed" => Marketing(k)

NotesInv ==
    /\ RowTypes /\ MoodTypes /\ HandsSound
    /\ OneInserts /\ OneCampaign
    /\ SentBound /\ PushQuiet /\ CampaignKept
    /\ OnlyMarketing /\ FactsAreNoted

-----------------------------------------------------------------------------
(* Notifications: keys, and functions on a part of them *)

LEMMA KeyFacts ==
  /\ OrderKeys \X Buyers \subseteq Keys
  /\ \A b \in Buyers : <<Push, b>> \in Keys
  /\ \A k \in Keys : k[1] \in OrderKeys => ~Marketing(k)
  /\ Push \notin OrderKeys /\ Push # Nudge
<1>1. Push \notin OrderKeys /\ Nudge \notin OrderKeys /\ Push # Nudge
  BY DEF Push, Nudge, OrderKeys, Placed, Paid, Shipped, Delivered, Refunded
<1> QED
  BY <1>1 DEF Keys, Texts, Marketing

LEMMA PartFacts ==
  ASSUME NEW A, NEW B, NEW f \in PartOf(A, B)
  PROVE  DOMAIN f \subseteq A /\ \A x \in DOMAIN f : f[x] \in B
BY DEF PartOf

LEMMA WithIsPart ==
  ASSUME NEW A, NEW B, NEW f \in PartOf(A, B), NEW x \in A, NEW v \in B
  PROVE  With(f, x, v) \in PartOf(A, B)
<1>1. PICK D \in SUBSET A : f \in [D -> B]
  BY DEF PartOf
<1>2. With(f, x, v) = [y \in D \cup {x} |-> IF y = x THEN v ELSE f[y]]
  BY <1>1 DEF With
<1>3. [y \in D \cup {x} |-> IF y = x THEN v ELSE f[y]] \in [D \cup {x} -> B]
  BY <1>1
<1>4. With(f, x, v) \in [D \cup {x} -> B]
  BY <1>2, <1>3
<1>5. D \cup {x} \in SUBSET A
  BY <1>1
<1> QED
  BY <1>4, <1>5 DEF PartOf

\* As many messages of a campaign were taken as buyers were told.
LEMMA PushCount ==
  ASSUME NEW m \in PartOf(Keys, Outcomes), \A k \in DOMAIN m : k[1] = Push
  PROVE  LET told == {b \in Buyers : <<Push, b>> \in DOMAIN m /\ m[<<Push, b>>] = "sent"}
         IN  /\ Cardinality({k \in DOMAIN m : m[k] = "sent"}) = Cardinality(told)
             /\ Cardinality(told) \in 0 .. Cardinality(Buyers)
<1> DEFINE told == {b \in Buyers : <<Push, b>> \in DOMAIN m /\ m[<<Push, b>>] = "sent"}
           taken == {k \in DOMAIN m : m[k] = "sent"}
           row == [b \in told |-> <<Push, b>>]
<1>1. IsFiniteSet(Buyers)
  BY NotificationsAssumption
<1>2. told \in SUBSET Buyers
  OBVIOUS
<1>3. IsFiniteSet(told) /\ Cardinality(told) <= Cardinality(Buyers)
  BY <1>1, <1>2, FS_Subset
<1>4. Cardinality(told) \in Nat /\ Cardinality(Buyers) \in Nat
  BY <1>1, <1>3, FS_CardinalityType
<1>5. \A k \in taken : \E b \in told : k = <<Push, b>>
  <2>1. TAKE k \in taken
  <2>2. k \in Keys /\ k[1] = Push
    BY PartFacts
  <2>3. k = <<Push, k[2]>> /\ k[2] \in Buyers
    BY <2>2 DEF Keys
  <2>4. k[2] \in told
    BY <2>3
  <2> QED
    BY <2>3, <2>4
<1>6. row \in [told -> taken] /\ \A b \in told : row[b] = <<Push, b>>
  OBVIOUS
<1>7. row \in Bijection(told, taken)
  BY <1>5, <1>6 DEF Bijection, Injection, Surjection, IsInjective
<1>8. Cardinality(taken) = Cardinality(told)
  <2> HIDE DEF told, taken, row
  <2> QED
    BY <1>3, <1>7, FS_Bijection DEF ExistsBijection
<1> QED
  BY <1>3, <1>4, <1>8
LEMMA HandFacts ==
  ASSUME NotesInv
  PROVE  /\ hand \in [Hands -> {Still} \cup HandRow]
         /\ \A h \in Hands : /\ hand[h] \in {Still} \cup HandRow
                             /\ HandSound(hand[h], note)
                             /\ Works(h) <=> hand[h] # Still
                             /\ Does(h, "campaign") => Works(h)
                             /\ Does(h, "fact") => Works(h)
                             /\ Does(h, "sweep") => Works(h)
BY DEF NotesInv, HandsSound, Works, Does, Still

LEMMA NotesInvIsSafe ==
  ASSUME NotesInv
  PROVE  NotificationsSafe
<1>1. ASSUME NEW h \in Hands, Works(h)
      PROVE  /\ hand[h].op \in {"fact", "campaign", "sweep"}
             /\ hand[h].phase \in {"next", "deliver", "flush"}
             /\ \A k \in DOMAIN hand[h].mine :
                  hand[h].mine[k] \in (NoteStatus \cup {"queued"}) \ {"none"}
  <2>1. hand[h] \in HandRow
    BY <1>1, HandFacts DEF HandSound
  <2>2. hand[h].mine \in PartOf(Keys, Outcomes)
    BY <2>1 DEF HandRow
  <2>3. \A k \in DOMAIN hand[h].mine : hand[h].mine[k] \in Outcomes
    BY <2>2, PartFacts
  <2> QED
    BY <2>1, <2>3 DEF HandRow, Outcomes, NoteStatus
<1>2. NotificationsTypeOK
  BY <1>1 DEF NotesInv, RowTypes, MoodTypes, NotificationsTypeOK
<1>3. SentOnce
  <2>1. ASSUME NEW k \in Keys
        PROVE  sends[k] <= 1 + happened.lost
    <3>1. sends[k] <= happened.lost + (IF Gone(k) THEN 1 ELSE 0)
      BY DEF NotesInv, SentBound
    <3>2. sends[k] \in Nat /\ happened.lost \in Nat
      BY DEF NotesInv, RowTypes
    <3> QED
      BY <3>1, <3>2
  <2> QED
    BY <2>1 DEF SentOnce
<1>4. CampaignTold
  <2>1. campaign.status = "cancelled" => ~CampaignLocked
    BY DEF NotesInv, OneCampaign
  <2> QED
    BY <2>1 DEF NotesInv, PushQuiet, CampaignKept, CampaignTold
<1> QED
  BY <1>2, <1>3, <1>4 DEF NotesInv, NotificationsSafe

LEMMA NotesInvInit == NotificationsInit => NotesInv
<1> SUFFICES ASSUME NotificationsInit PROVE NotesInv
  OBVIOUS
<1>1. /\ \A k \in Keys : /\ note[k] = IF k \in facts THEN "sent" ELSE "none"
                         /\ sends[k] = IF k \in facts THEN 1 ELSE 0
      /\ facts \subseteq {Placed} \X Buyers /\ silent = {}
      /\ campaign.status # "sent"
  BY DEF NotificationsInit
<1>2. \A h \in Hands : hand[h] = Still /\ ~Does(h, "campaign")
  BY DEF NotificationsInit, Does, Still
<1>3. Placed \in OrderKeys
  BY DEF OrderKeys
<1>4. happened \in [facts : Nat, moods : Nat, lost : Nat] /\ happened.lost = 0
  <2>1. {MaxFacts, MaxMoods, MaxLost} \subseteq Nat
    BY NotificationsAssumption
  <2>2. 0 .. MaxFacts \subseteq Nat /\ 0 .. MaxMoods \subseteq Nat
    BY <2>1
  <2>3. happened \in [facts : 0 .. MaxFacts, moods : 0 .. MaxMoods, lost : {0}]
    BY DEF NotificationsInit
  <2> QED
    BY <2>2, <2>3
<1>5. facts \subseteq OrderKeys \X Buyers
  BY <1>1, <1>3
<1>6. \A b \in Buyers : note[<<Push, b>>] = "none" /\ sends[<<Push, b>>] = 0
  BY <1>1, <1>5, KeyFacts
<1>7. RowTypes
  <2>1. Cardinality(Buyers) \in Nat
    BY NotificationsAssumption, FS_CardinalityType
  <2>2. campaign \in [status : {"draft", "sent", "cancelled"}, sent : 0 .. Cardinality(Buyers)]
    BY <2>1 DEF NotificationsInit
  <2>3. note \in [Keys -> NoteStatus] /\ sends \in [Keys -> Nat]
    BY DEF NotificationsInit, NoteStatus
  <2>4. event \in [Buyers -> EventStatus] /\ posts \in [Buyers -> Nat]
    BY DEF NotificationsInit, EventStatus
  <2> QED
    BY <1>1, <1>4, <1>5, <2>2, <2>3, <2>4 DEF RowTypes
<1>8. MoodTypes
  BY DEF NotificationsInit, MoodTypes, NoRow
<1>9. HandsSound /\ OneInserts /\ OneCampaign
  <2>1. hand \in [Hands -> {Still} \cup HandRow]
    BY DEF NotificationsInit
  <2> QED
    BY <1>2, <2>1 DEF HandsSound, HandSound, OneInserts, HasOpen, OneCampaign, CampaignLocked
<1>10. SentBound
  <2>1. ASSUME NEW k \in Keys
        PROVE  sends[k] <= happened.lost + (IF Gone(k) THEN 1 ELSE 0)
    <3>1. k \in facts => Gone(k)
      BY <1>1 DEF Gone
    <3> QED
      BY <1>1, <1>4, <3>1
  <2> QED
    BY <2>1 DEF SentBound
<1>11. PushQuiet /\ CampaignKept
  BY <1>1, <1>6 DEF PushQuiet, CampaignKept
<1>12. OnlyMarketing
  BY <1>1 DEF OnlyMarketing
<1>13. FactsAreNoted
  <2>1. facts \subseteq Keys
    BY <1>5, KeyFacts
  <2> QED
    BY <1>1, <2>1 DEF FactsAreNoted
<1> QED
  BY <1>7, <1>8, <1>9, <1>10, <1>11, <1>12, <1>13 DEF NotesInv

-----------------------------------------------------------------------------
(* Notifications: one transaction moves *)

\* What is on record stays, and what the transaction inserted and delivered; how often a
\* message went is given.
LEMMA HandMoves ==
  ASSUME NotesInv, NEW h \in Hands, NEW z \in HandRow,
         hand' = [hand EXCEPT ![h] = z],
         note' = note, facts' = facts, silent' = silent, campaign' = campaign,
         event' = event, MoodTypes',
         sends' \in [Keys -> Nat], posts' \in [Buyers -> Nat],
         happened' \in [facts : Nat, moods : Nat, lost : Nat],
         HandSound(z, note),
         \A k \in Keys : HasOpen(z, k) =>
             HasOpen(hand[h], k) \/ \A g \in Hands : ~HasOpen(hand[g], k),
         z.op = "campaign" =>
             Does(h, "campaign") \/ (campaign.status = "draft" /\ ~CampaignLocked),
         SentBound', PushQuiet'
  PROVE  NotesInv'
<1>1. hand \in [Hands -> {Still} \cup HandRow]
  BY HandFacts
<1>2. \A g \in Hands : hand'[g] = IF g = h THEN z ELSE hand[g]
  BY <1>1
<1>3. RowTypes'
  BY DEF NotesInv, RowTypes
<1>4. HandsSound'
  <2>1. hand' \in [Hands -> {Still} \cup HandRow]
    BY <1>1
  <2>2. \A g \in Hands : HandSound(hand[g], note)
    BY HandFacts
  <2> QED
    BY <1>2, <2>1, <2>2 DEF HandsSound
<1>5. OneInserts'
  BY <1>2 DEF NotesInv, OneInserts
<1>6. OneCampaign'
  <2>1. \A g \in Hands : hand'[g].op = "campaign" =>
            Does(g, "campaign") \/ (g = h /\ campaign.status = "draft" /\ ~CampaignLocked)
    BY <1>2 DEF Does
  <2>2. \A g \in Hands : Does(g, "campaign") => CampaignLocked
    BY DEF CampaignLocked
  <2> QED
    BY <2>1, <2>2 DEF NotesInv, OneCampaign, CampaignLocked, Does
<1>7. CampaignKept' /\ OnlyMarketing' /\ FactsAreNoted'
  BY DEF NotesInv, CampaignKept, OnlyMarketing, FactsAreNoted
<1> QED
  BY <1>3, <1>4, <1>5, <1>6, <1>7 DEF NotesInv

\* It moves without a delivery.
LEMMA HandMovesOnly ==
  ASSUME NotesInv, NEW h \in Hands, NEW z \in HandRow,
         hand' = [hand EXCEPT ![h] = z],
         note' = note, sends' = sends, facts' = facts, silent' = silent, campaign' = campaign,
         event' = event, prefs' = prefs, night' = night, muted' = muted,
         destination' = destination,
         posts' \in [Buyers -> Nat],
         happened' \in [facts : Nat, moods : Nat, lost : Nat], happened'.lost = happened.lost,
         HandSound(z, note),
         \A k \in Keys : HasOpen(z, k) =>
             HasOpen(hand[h], k) \/ \A g \in Hands : ~HasOpen(hand[g], k),
         \A k \in Keys : HasDelivered(hand[h], k) => HasDelivered(z, k),
         Does(h, "campaign") => z.op = "campaign",
         z.op = "campaign" =>
             Does(h, "campaign") \/ (campaign.status = "draft" /\ ~CampaignLocked)
  PROVE  NotesInv'
<1>1. hand \in [Hands -> {Still} \cup HandRow]
  BY HandFacts
<1>2. \A g \in Hands : hand'[g] = IF g = h THEN z ELSE hand[g]
  BY <1>1
<1>3. SentBound'
  <2>1. ASSUME NEW k \in Keys
        PROVE  sends'[k] <= happened'.lost + (IF Gone(k)' THEN 1 ELSE 0)
    <3>1. sends[k] <= happened.lost + (IF Gone(k) THEN 1 ELSE 0)
      BY DEF NotesInv, SentBound
    <3>2. sends[k] \in Nat /\ happened.lost \in Nat
      BY DEF NotesInv, RowTypes
    <3>3. Gone(k) => Gone(k)'
      BY <1>2 DEF Gone
    <3> QED
      BY <3>1, <3>2, <3>3
  <2> QED
    BY <2>1 DEF SentBound
<1>4. PushQuiet'
  <2>1. CampaignLocked => CampaignLocked'
    BY <1>2 DEF CampaignLocked, Does
  <2> QED
    BY <2>1 DEF NotesInv, PushQuiet
<1>5. MoodTypes' /\ sends' \in [Keys -> Nat]
  BY DEF NotesInv, MoodTypes, RowTypes
<1> QED
  BY <1>3, <1>4, <1>5, HandMoves
LEMMA BeginsKeeps ==
  ASSUME NotesInv, NEW h \in Hands, ~Works(h),
         NEW op \in {"fact", "campaign", "sweep"},
         NEW about \in {<<>>} \cup (OrderKeys \X Buyers), NEW todo \in SUBSET Keys,
         \A k \in todo : k[1] \in Topics(op),
         op = "fact" => about \in OrderKeys \X Buyers /\ todo \in {{}, {about}},
         op = "campaign" => campaign.status = "draft" /\ ~CampaignLocked,
         hand' = [hand EXCEPT ![h] = Begun(op, about, todo)],
         happened' \in [facts : Nat, moods : Nat, lost : Nat], happened'.lost = happened.lost,
         UNCHANGED <<messages, moods, destination, purchases>>
  PROVE  NotesInv'
<1>1. PICK z : z = Begun(op, about, todo)
  OBVIOUS
<1>2. /\ z.op = op /\ z.phase = "next" /\ z.about = about /\ z.todo = todo
      /\ z.quiet = (todo = {}) /\ z.mine = NothingYet
  BY <1>1 DEF Begun
<1>3. DOMAIN NothingYet = {}
  BY DEF NothingYet
<1>4. NothingYet \in PartOf(Keys, Outcomes) /\ NothingYet \in PartOf(Buyers, {"sent", "failed"})
  <2>1. \A B : NothingYet \in [{} -> B]
    BY DEF NothingYet
  <2> QED
    BY <2>1 DEF PartOf
<1>5. z \in HandRow
  BY <1>1, <1>4 DEF Begun, HandRow
<1>6. \A k : ~HasOpen(z, k)
  BY <1>2, <1>3 DEF HasOpen
<1>7. HandSound(z, note)
  BY <1>2, <1>3, <1>5 DEF HandSound
<1>8. /\ note' = note /\ sends' = sends /\ facts' = facts /\ silent' = silent
      /\ campaign' = campaign /\ event' = event /\ prefs' = prefs /\ night' = night
      /\ muted' = muted /\ destination' = destination /\ posts' = posts
  BY DEF messages, moods, purchases
<1>9. posts' \in [Buyers -> Nat]
  BY <1>8 DEF NotesInv, RowTypes
<1>10. \A k : ~HasDelivered(hand[h], k)
  BY HandFacts DEF HasDelivered, HasOpen
<1>11. ~Does(h, "campaign")
  BY HandFacts
<1>12. /\ hand' = [hand EXCEPT ![h] = z]
       /\ \A k \in Keys : HasOpen(z, k) =>
             HasOpen(hand[h], k) \/ \A g \in Hands : ~HasOpen(hand[g], k)
       /\ \A k \in Keys : HasDelivered(hand[h], k) => HasDelivered(z, k)
       /\ Does(h, "campaign") => z.op = "campaign"
       /\ z.op = "campaign" =>
             Does(h, "campaign") \/ (campaign.status = "draft" /\ ~CampaignLocked)
  BY <1>1, <1>2, <1>6, <1>10, <1>11
<1> QED
  BY <1>5, <1>7, <1>8, <1>9, <1>12, HandMovesOnly

LEMMA HappensKeeps ==
  ASSUME NotesInv, NEW h \in Hands, NEW b \in Buyers, NEW key \in OrderKeys,
         NEW todo \in {{}, {<<key, b>>}}, Happens(h, b, key, todo)
  PROVE  NotesInv'
<1>1. <<key, b>> \in OrderKeys \X Buyers /\ <<key, b>> \in Keys
  BY KeyFacts
<1>2. /\ ~Works(h) /\ hand' = [hand EXCEPT ![h] = Begun("fact", <<key, b>>, todo)]
      /\ UNCHANGED <<messages, moods, destination, purchases>>
  BY DEF Happens
<1>3. happened \in [facts : Nat, moods : Nat, lost : Nat]
  BY DEF NotesInv, RowTypes
<1>4. happened' = [happened EXCEPT !["facts"] = @ + 1]
  BY DEF Happens, Spends
<1>5. happened' \in [facts : Nat, moods : Nat, lost : Nat] /\ happened'.lost = happened.lost
  BY <1>3, <1>4
<1>6. \A k \in todo : k[1] \in Topics("fact")
  BY DEF Topics
<1>7. todo \in SUBSET Keys
  BY <1>1
<1> QED
  BY <1>1, <1>2, <1>5, <1>6, <1>7, BeginsKeeps

LEMMA FactsKeep ==
  ASSUME NotesInv, NEW h \in Hands, NEW b \in Buyers,
         OrderPlaced(h, b) \/ PaymentPaid(h, b) \/ ShipmentMoves(h, b) \/ RefundCompleted(h, b)
  PROVE  NotesInv'
<1>1. {Placed, Paid, Shipped, Delivered, Refunded} \subseteq OrderKeys
  BY DEF OrderKeys
<1>2. \E key \in OrderKeys : \E todo \in {{}, {<<key, b>>}} : Happens(h, b, key, todo)
  BY <1>1 DEF OrderPlaced, PaymentPaid, ShipmentMoves, RefundCompleted
<1> QED
  BY <1>2, HappensKeeps

LEMMA SendCampaignKeeps ==
  ASSUME NotesInv, NEW h \in Hands, SendCampaign(h)
  PROVE  NotesInv'
<1>1. PICK audience \in SUBSET Buyers :
          hand' = [hand EXCEPT ![h] = Begun("campaign", <<>>, {Push} \X audience)]
  BY DEF SendCampaign
<1>2. /\ ~Works(h) /\ campaign.status = "draft" /\ ~CampaignLocked
      /\ happened' = happened
      /\ UNCHANGED <<messages, moods, destination, purchases>>
  BY DEF SendCampaign, Sendable
<1>3. {Push} \X audience \in SUBSET Keys /\ \A k \in {Push} \X audience : k[1] \in Topics("campaign")
  BY KeyFacts DEF Topics, Keys
<1>4. happened' \in [facts : Nat, moods : Nat, lost : Nat] /\ happened'.lost = happened.lost
  BY <1>2 DEF NotesInv, RowTypes
<1> QED
  BY <1>1, <1>2, <1>3, <1>4, BeginsKeeps

LEMMA MarketingSweepKeeps ==
  ASSUME NotesInv, NEW h \in Hands, MarketingSweep(h)
  PROVE  NotesInv'
<1>1. PICK carts \in SUBSET Buyers :
          hand' = [hand EXCEPT ![h] = Begun("sweep", <<>>, {Nudge} \X carts)]
  BY DEF MarketingSweep
<1>2. /\ ~Works(h) /\ happened' = happened
      /\ UNCHANGED <<messages, moods, destination, purchases>>
  BY DEF MarketingSweep
<1>3. {Nudge} \X carts \in SUBSET Keys /\ \A k \in {Nudge} \X carts : k[1] \in Topics("sweep")
  BY DEF Topics, Keys, Texts
<1>4. happened' \in [facts : Nat, moods : Nat, lost : Nat] /\ happened'.lost = happened.lost
  BY <1>2 DEF NotesInv, RowTypes
<1> QED
  BY <1>1, <1>2, <1>3, <1>4, BeginsKeeps

\* One message of the loop: of a template that is off nothing is said, a duplicate was told
\* before, and another is recorded.
LEMMA NotifyKeeps ==
  ASSUME NotesInv, NEW h \in Hands, Notify(h)
  PROVE  NotesInv'
<1>1. Works(h) /\ hand[h].phase = "next"
  BY DEF Notify
<1>2. PICK x \in HandRow : x = hand[h] /\ x # Still /\ HandSound(x, note)
  BY <1>1, HandFacts
<1>3. PICK k \in x.todo :
         /\ Muted(k) \/ ~Inserting(k)
         /\ hand' = [hand EXCEPT ![h] =
              IF Muted(k) THEN [x EXCEPT !.todo = x.todo \ {k}, !.quiet = TRUE]
              ELSE IF Duplicate(k) THEN [x EXCEPT !.todo = x.todo \ {k}]
              ELSE IF Suppressed(k)
              THEN [x EXCEPT !.todo = x.todo \ {k}, !.mine = With(x.mine, k, "suppressed")]
              ELSE [x EXCEPT !.phase = "deliver", !.todo = x.todo \ {k},
                             !.mine = With(x.mine, k, "queued")]]
  BY <1>2 DEF Notify
<1>4. /\ note' = note /\ sends' = sends /\ facts' = facts /\ silent' = silent
      /\ campaign' = campaign /\ event' = event /\ prefs' = prefs /\ night' = night
      /\ muted' = muted /\ destination' = destination /\ posts' = posts /\ happened' = happened
  BY DEF Notify, messages, moods, purchases
<1>5. /\ posts' \in [Buyers -> Nat] /\ happened' \in [facts : Nat, moods : Nat, lost : Nat]
      /\ happened'.lost = happened.lost
  BY <1>4 DEF NotesInv, RowTypes
<1>6. /\ k \in Keys /\ x.mine \in PartOf(Keys, Outcomes)
      /\ x.op \in {"fact", "campaign", "sweep"} /\ k[1] \in Topics(x.op)
      /\ x.phase = "next"
  BY <1>1, <1>2 DEF HandRow, HandSound
<1>7. ~Muted(k) => \A g \in Hands : ~HasOpen(hand[g], k)
  BY <1>3, HandFacts DEF Inserting, HasOpen
<1>8. x.op = "campaign" => Does(h, "campaign")
  BY <1>2 DEF Does
<1>9. x.op = "fact" /\ x.about = k => ~Marketing(k)
  BY <1>2, <1>6, KeyFacts DEF Topics
<1>10. CASE Muted(k) \/ Duplicate(k)
  <2>1. PICK q \in BOOLEAN :
           /\ hand' = [hand EXCEPT ![h] = [x EXCEPT !.todo = x.todo \ {k}, !.quiet = q]]
           /\ q \/ (Duplicate(k) /\ q = x.quiet)
    <3>1. CASE Muted(k)
      BY <1>3, <3>1
    <3>2. CASE ~Muted(k)
      <4>1. [x EXCEPT !.todo = x.todo \ {k}]
            = [x EXCEPT !.todo = x.todo \ {k}, !.quiet = x.quiet] /\ x.quiet \in BOOLEAN
        BY DEF HandRow
      <4> QED
        BY <1>3, <1>10, <3>2, <4>1
    <3> QED
      BY <3>1, <3>2
  <2>11. PICK z : z = [x EXCEPT !.todo = x.todo \ {k}, !.quiet = q]
    OBVIOUS
  <2>2. z \in HandRow
    BY <2>11 DEF HandRow
  <2>3. /\ z.todo = x.todo \ {k} /\ z.op = x.op /\ z.mine = x.mine /\ z.phase = x.phase
        /\ z.about = x.about /\ z.quiet = q
    BY <2>11 DEF HandRow
  <2>4. x.op = "fact" /\ x.about = k /\ ~q => note[k] \in Reached
    BY <1>6, <1>9, <2>1 DEF Duplicate, NotesInv, RowTypes, NoteStatus, OnlyMarketing, Reached
  <2>5. HandSound(z, note)
    BY <1>2, <2>1, <2>2, <2>3, <2>4 DEF HandSound
  <2>6. \A l : HasOpen(z, l) => HasOpen(hand[h], l)
    BY <1>2, <2>3 DEF HasOpen
  <2>7. z # Still
    BY <2>2, <2>3, <1>6 DEF Still, HandRow
  <2>8. \A l : HasDelivered(hand[h], l) => HasDelivered(z, l)
    BY <1>2, <2>3, <2>7 DEF HasOpen, HasDelivered
  <2>9. Does(h, "campaign") => z.op = "campaign"
    BY <1>2, <2>3 DEF Does
  <2>10. hand' = [hand EXCEPT ![h] = z]
    BY <2>1, <2>11
  <2> QED
    BY <1>4, <1>5, <1>8, <2>2, <2>3, <2>5, <2>6, <2>8, <2>9, <2>10, HandMovesOnly
<1>11. CASE ~Muted(k) /\ ~Duplicate(k)
  <2>1. PICK to \in {"suppressed", "queued"}, ph \in {"next", "deliver"} :
           /\ hand' = [hand EXCEPT ![h] = [x EXCEPT !.phase = ph, !.todo = x.todo \ {k},
                                                     !.mine = With(x.mine, k, to)]]
           /\ to = "suppressed" => Marketing(k)
           /\ to = "queued" => ph = "deliver"
    <3>1. CASE Suppressed(k)
      <4>1. [x EXCEPT !.todo = x.todo \ {k}, !.mine = With(x.mine, k, "suppressed")]
            = [x EXCEPT !.phase = "next", !.todo = x.todo \ {k},
                        !.mine = With(x.mine, k, "suppressed")]
        BY <1>6 DEF HandRow
      <4>2. Marketing(k)
        BY <3>1 DEF Suppressed
      <4> QED
        BY <1>3, <1>11, <3>1, <4>1, <4>2
    <3>2. CASE ~Suppressed(k)
      BY <1>3, <1>11, <3>2
    <3> QED
      BY <3>1, <3>2
  <2>2. PICK z : z = [x EXCEPT !.phase = ph, !.todo = x.todo \ {k}, !.mine = With(x.mine, k, to)]
    OBVIOUS
  <2>3. to \in Outcomes
    BY DEF Outcomes
  <2>4. /\ With(x.mine, k, to) \in PartOf(Keys, Outcomes)
        /\ DOMAIN With(x.mine, k, to) = DOMAIN x.mine \cup {k}
        /\ With(x.mine, k, to)[k] = to
        /\ \A y \in DOMAIN x.mine : y # k => With(x.mine, k, to)[y] = x.mine[y]
    <3>1. k \in Keys /\ x.mine \in PartOf(Keys, Outcomes)
      BY <1>6
    <3>2. PICK m \in PartOf(Keys, Outcomes) : m = x.mine
      BY <3>1
    <3>3. With(m, k, to) \in PartOf(Keys, Outcomes)
      BY <2>3, <3>1, WithIsPart
    <3>4. /\ DOMAIN With(m, k, to) = DOMAIN m \cup {k}
          /\ With(m, k, to)[k] = to
          /\ \A y \in DOMAIN m : y # k => With(m, k, to)[y] = m[y]
      BY DEF With
    <3> QED
      BY <3>2, <3>3, <3>4
  <2>5. z \in HandRow
    BY <2>2, <2>4 DEF HandRow
  <2>6. /\ z.todo = x.todo \ {k} /\ z.op = x.op /\ z.mine = With(x.mine, k, to) /\ z.phase = ph
        /\ z.about = x.about /\ z.quiet = x.quiet
    BY <2>2 DEF HandRow
  <2>7. k \notin DOMAIN x.mine
    BY <1>2, <1>7, <1>11 DEF HasOpen
  <2>8. \A l \in DOMAIN x.mine : x.mine[l] # "queued" /\ l # k
    BY <1>2, <1>6, <2>7 DEF HandSound
  <2>9. note[k] = "none"
    BY <1>11 DEF Duplicate
  <2>10. \A l \in DOMAIN z.mine : l = k \/ (l \in DOMAIN x.mine /\ z.mine[l] = x.mine[l])
    BY <2>4, <2>6
  <2>11. \A l \in DOMAIN z.mine : z.mine[l] = "queued" => l = k /\ to = "queued"
    BY <2>4, <2>6, <2>8, <2>10
  <2>12. HandSound(z, note)
    <3>1. \A l \in z.todo : l[1] \in Topics(z.op)
      BY <1>2, <2>6 DEF HandSound
    <3>2. \A l \in DOMAIN z.mine :
             /\ l[1] \in Topics(z.op) /\ note[l] = "none"
             /\ z.mine[l] = "suppressed" => Marketing(l)
             /\ z.mine[l] = "queued" => z.phase = "deliver"
      BY <1>2, <1>6, <2>1, <2>4, <2>6, <2>9, <2>10, <2>11 DEF HandSound
    <3>3. z.op = "fact" =>
             /\ z.about \in OrderKeys \X Buyers
             /\ ~z.quiet => \/ z.about \in z.todo \cup DOMAIN z.mine
                            \/ note[z.about] \in Reached
      BY <1>2, <2>4, <2>6 DEF HandSound
    <3> QED
      BY <2>5, <2>11, <3>1, <3>2, <3>3 DEF HandSound
  <2>13. \A l \in Keys : HasOpen(z, l) =>
             HasOpen(hand[h], l) \/ \A g \in Hands : ~HasOpen(hand[g], l)
    BY <1>2, <1>7, <1>11, <2>4, <2>6 DEF HasOpen
  <2>14. z # Still
    BY <2>6, <1>6 DEF Still
  <2>15. \A l \in Keys : HasDelivered(hand[h], l) => HasDelivered(z, l)
    BY <1>2, <2>4, <2>6, <2>7, <2>14 DEF HasOpen, HasDelivered
  <2>16. Does(h, "campaign") => z.op = "campaign"
    BY <1>2, <2>6 DEF Does
  <2>17. hand' = [hand EXCEPT ![h] = z]
    BY <2>1, <2>2
  <2> QED
    BY <1>4, <1>5, <1>8, <2>5, <2>6, <2>12, <2>13, <2>15, <2>16, <2>17, HandMovesOnly
<1> QED
  BY <1>10, <1>11

\* A sweep reads the events, and posts one.
LEMMA FlushKeeps ==
  ASSUME NotesInv, NEW h \in Hands, FlushReads(h) \/ \E b \in Buyers : FlushPosts(h, b)
  PROVE  NotesInv'
<1>1. Does(h, "sweep") /\ Works(h)
  BY HandFacts DEF FlushReads, FlushPosts
<1>2. PICK x \in HandRow : x = hand[h] /\ x # Still /\ HandSound(x, note) /\ x.op = "sweep"
  BY <1>1, HandFacts DEF Does
<1>3. /\ note' = note /\ sends' = sends /\ facts' = facts /\ silent' = silent
      /\ campaign' = campaign /\ event' = event /\ prefs' = prefs /\ night' = night
      /\ muted' = muted /\ destination' = destination /\ happened' = happened
  BY DEF FlushReads, FlushPosts, messages, moods, purchases
<1>4. /\ happened' \in [facts : Nat, moods : Nat, lost : Nat] /\ happened'.lost = happened.lost
      /\ posts \in [Buyers -> Nat]
  BY <1>3 DEF NotesInv, RowTypes
<1>5. \A l \in DOMAIN x.mine : x.mine[l] # "queued"
  <2>1. x.phase # "deliver"
    BY <1>2 DEF FlushReads, FlushPosts
  <2> QED
    BY <1>2, <2>1 DEF HandSound
<1>6. ASSUME NEW z \in HandRow, z.op = x.op, z.mine = x.mine, z.todo = x.todo,
             hand' = [hand EXCEPT ![h] = z], posts' \in [Buyers -> Nat]
      PROVE  NotesInv'
  <2>1. z # Still
    BY <1>2, <1>6 DEF Still
  <2>2. HandSound(z, note)
    BY <1>2, <1>5, <1>6 DEF HandSound
  <2>3. \A l : HasOpen(z, l) => HasOpen(hand[h], l)
    BY <1>2, <1>6 DEF HasOpen
  <2>4. \A l : HasDelivered(hand[h], l) => HasDelivered(z, l)
    BY <1>2, <1>6, <2>1 DEF HasOpen, HasDelivered
  <2>5. ~Does(h, "campaign") /\ z.op # "campaign"
    BY <1>2, <1>6 DEF Does
  <2> QED
    BY <1>3, <1>4, <1>6, <2>2, <2>3, <2>4, <2>5, HandMovesOnly
<1>7. CASE FlushReads(h)
  <2>1. PICK queue \in SUBSET Buyers :
           hand' = [hand EXCEPT ![h] = [x EXCEPT !.phase = "flush", !.seen = queue]]
    BY <1>2, <1>7 DEF FlushReads
  <2>2. posts' \in [Buyers -> Nat]
    BY <1>4, <1>7 DEF FlushReads, purchases
  <2>3. PICK z \in HandRow : z = [x EXCEPT !.phase = "flush", !.seen = queue]
    BY DEF HandRow
  <2>4. z.op = x.op /\ z.mine = x.mine /\ z.todo = x.todo
    BY <2>3 DEF HandRow
  <2> QED
    BY <1>6, <2>1, <2>2, <2>3, <2>4
<1>8. ASSUME NEW b \in Buyers, FlushPosts(h, b)
      PROVE  NotesInv'
  <2>1. PICK to \in {"sent", "failed"} :
           /\ \E n \in IF to = "sent" THEN {1} ELSE {0, 1} : posts' = [posts EXCEPT ![b] = @ + n]
           /\ hand' = [hand EXCEPT ![h] =
                [x EXCEPT !.seen = x.seen \ {b}, !.reports = With(x.reports, b, to)]]
    BY <1>2, <1>8 DEF FlushPosts
  <2>2. posts' \in [Buyers -> Nat]
    BY <1>4, <2>1
  <2>3. x.reports \in PartOf(Buyers, {"sent", "failed"})
    BY DEF HandRow
  <2>4. With(x.reports, b, to) \in PartOf(Buyers, {"sent", "failed"})
    BY <2>3, WithIsPart
  <2>5. PICK z \in HandRow : z = [x EXCEPT !.seen = x.seen \ {b}, !.reports = With(x.reports, b, to)]
    BY <2>4 DEF HandRow
  <2>6. z.op = x.op /\ z.mine = x.mine /\ z.todo = x.todo
    BY <2>5 DEF HandRow
  <2> QED
    BY <1>6, <2>1, <2>2, <2>5, <2>6
<1> QED
  BY <1>7, <1>8
\* A message is handed to its provider: it is on nobody's record, and the transaction that
\* inserted it is the one that delivers it.
LEMMA DeliverKeeps ==
  ASSUME NotesInv, NEW h \in Hands, Deliver(h)
  PROVE  NotesInv'
<1>1. Works(h) /\ hand[h].phase = "deliver"
  BY DEF Deliver
<1>2. PICK x \in HandRow : x = hand[h] /\ x # Still /\ HandSound(x, note)
  BY <1>1, HandFacts
<1>3. PICK k \in DOMAIN x.mine, to \in Reached :
         /\ x.mine[k] = "queued"
         /\ \E n \in CASE to = "sent" -> {1} [] to = "failed" -> {0, 1} [] OTHER -> {0} :
              sends' = [sends EXCEPT ![k] = @ + n]
         /\ hand' = [hand EXCEPT ![h] =
              [x EXCEPT !.phase = "next", !.mine = With(x.mine, k, to)]]
  BY <1>2 DEF Deliver, Reached
<1>4. PICK n \in 0 .. 1 : sends' = [sends EXCEPT ![k] = @ + n]
  <2>1. PICK n \in CASE to = "sent" -> {1} [] to = "failed" -> {0, 1} [] OTHER -> {0} :
           sends' = [sends EXCEPT ![k] = @ + n]
    BY <1>3
  <2>2. n \in 0 .. 1
    <3>1. to = "sent" \/ to = "failed" \/ to = "no_device"
      BY DEF Reached
    <3> QED
      BY <2>1, <3>1
  <2> QED
    BY <2>1, <2>2
<1>5. /\ note' = note /\ facts' = facts /\ silent' = silent
      /\ campaign' = campaign /\ event' = event /\ prefs' = prefs /\ night' = night
      /\ muted' = muted /\ destination' = destination /\ posts' = posts /\ happened' = happened
  BY DEF Deliver, moods, purchases
<1>6. /\ posts' \in [Buyers -> Nat] /\ happened' \in [facts : Nat, moods : Nat, lost : Nat]
      /\ happened.lost \in Nat /\ sends \in [Keys -> Nat]
  BY <1>5 DEF NotesInv, RowTypes
<1>7. MoodTypes'
  BY <1>5 DEF NotesInv, MoodTypes
<1>8. /\ x.mine \in PartOf(Keys, Outcomes) /\ x.op \in {"fact", "campaign", "sweep"}
      /\ x.phase = "deliver"
  BY <1>1, <1>2 DEF HandRow
<1>9. k \in Keys /\ to \in Outcomes
  BY <1>8, PartFacts DEF Reached, Outcomes
<1>10. /\ With(x.mine, k, to) \in PartOf(Keys, Outcomes)
       /\ DOMAIN With(x.mine, k, to) = DOMAIN x.mine \cup {k}
       /\ With(x.mine, k, to)[k] = to
       /\ \A y \in DOMAIN x.mine : y # k => With(x.mine, k, to)[y] = x.mine[y]
  <2>1. PICK m \in PartOf(Keys, Outcomes) : m = x.mine
    BY <1>8
  <2>2. With(m, k, to) \in PartOf(Keys, Outcomes)
    BY <1>9, WithIsPart
  <2>3. /\ DOMAIN With(m, k, to) = DOMAIN m \cup {k}
        /\ With(m, k, to)[k] = to
        /\ \A y \in DOMAIN m : y # k => With(m, k, to)[y] = m[y]
    BY DEF With
  <2> QED
    BY <2>1, <2>2, <2>3
<1>11. PICK z : z = [x EXCEPT !.phase = "next", !.mine = With(x.mine, k, to)]
  OBVIOUS
<1>12. z \in HandRow
  BY <1>10, <1>11 DEF HandRow
<1>13. /\ z.todo = x.todo /\ z.op = x.op /\ z.mine = With(x.mine, k, to) /\ z.phase = "next"
       /\ z.about = x.about /\ z.quiet = x.quiet
  BY <1>11 DEF HandRow
<1>14. DOMAIN z.mine = DOMAIN x.mine
  BY <1>3, <1>10, <1>13
<1>15. \A l \in DOMAIN z.mine : z.mine[l] # "queued"
  <2>1. \A l \in DOMAIN x.mine : l # k => x.mine[l] # "queued"
    BY <1>2, <1>3 DEF HandSound
  <2>2. to # "queued" /\ to # "suppressed"
    BY DEF Reached
  <2> QED
    BY <1>10, <1>13, <1>14, <2>1, <2>2
<1>16. HandSound(z, note)
  <2>1. \A l \in DOMAIN z.mine :
           /\ l[1] \in Topics(z.op) /\ note[l] = "none"
           /\ z.mine[l] = "suppressed" => Marketing(l)
    <3>1. to # "suppressed"
      BY DEF Reached
    <3> QED
      BY <1>2, <1>10, <1>13, <1>14, <3>1 DEF HandSound
  <2>2. z.op = "fact" =>
           /\ z.about \in OrderKeys \X Buyers
           /\ ~z.quiet => \/ z.about \in z.todo \cup DOMAIN z.mine
                          \/ note[z.about] \in Reached
    BY <1>2, <1>13, <1>14 DEF HandSound
  <2>3. \A l \in z.todo : l[1] \in Topics(z.op)
    BY <1>2, <1>13 DEF HandSound
  <2> QED
    BY <1>12, <1>15, <2>1, <2>2, <2>3 DEF HandSound
<1>17. \A l \in Keys : HasOpen(z, l) =>
           HasOpen(hand[h], l) \/ \A g \in Hands : ~HasOpen(hand[g], l)
  BY <1>2, <1>14 DEF HasOpen
<1>18. z # Still
  BY <1>8, <1>13 DEF Still
<1>19. hand' = [hand EXCEPT ![h] = z]
  BY <1>3, <1>11
<1>20. \A g \in Hands : hand'[g] = IF g = h THEN z ELSE hand[g]
  BY <1>19, HandFacts
<1>21. sends' \in [Keys -> Nat] /\ \A l \in Keys : sends'[l] = IF l = k THEN sends[k] + n ELSE sends[l]
  BY <1>4, <1>6, <1>9
<1>22. SentBound'
  <2>1. ASSUME NEW l \in Keys
        PROVE  sends'[l] <= happened'.lost + (IF Gone(l)' THEN 1 ELSE 0)
    <3>1. sends[l] <= happened.lost + (IF Gone(l) THEN 1 ELSE 0) /\ sends[l] \in Nat
      BY <1>6 DEF NotesInv, SentBound
    <3>2. CASE l = k
      <4>1. HasOpen(hand[h], k) /\ ~HasDelivered(hand[h], k)
        BY <1>2, <1>3 DEF HasOpen, HasDelivered
      <4>2. \A g \in Hands : ~HasDelivered(hand[g], k)
        BY <1>9, <4>1 DEF NotesInv, OneInserts, HasDelivered
      <4>3. note[k] = "none"
        BY <1>2, <1>3 DEF HandSound
      <4>4. ~Gone(k)
        BY <4>2, <4>3 DEF Gone
      <4>5. sends[k] <= happened.lost
        BY <1>6, <3>1, <3>2, <4>4
      <4>6. HasDelivered(z, k)
        BY <1>3, <1>14, <1>15, <1>18 DEF HasDelivered, HasOpen
      <4>7. HasDelivered(hand'[h], k)
        BY <1>20, <4>6
      <4>8. Gone(l)'
        BY <3>2, <4>7 DEF Gone
      <4>9. sends'[l] = sends[k] + n
        BY <1>21, <3>2
      <4> QED
        BY <1>5, <1>6, <3>1, <3>2, <4>5, <4>8, <4>9
    <3>3. CASE l # k
      <4>1. HasDelivered(hand[h], l) => HasDelivered(z, l)
        BY <1>2, <1>10, <1>13, <1>18, <3>3 DEF HasOpen, HasDelivered
      <4>2. Gone(l) => Gone(l)'
        BY <1>5, <1>20, <4>1 DEF Gone
      <4> QED
        BY <1>5, <1>6, <1>21, <3>1, <3>3, <4>2
    <3> QED
      BY <3>2, <3>3
  <2> QED
    BY <2>1 DEF SentBound
<1>23. PushQuiet'
  <2>1. CampaignLocked => CampaignLocked'
    BY <1>2, <1>13, <1>20 DEF CampaignLocked, Does
  <2>2. ~CampaignLocked => k[1] # Push
    <3>1. x.op = "campaign" => CampaignLocked
      BY <1>2 DEF CampaignLocked, Does
    <3>2. k[1] \in Topics(x.op)
      BY <1>2 DEF HandSound
    <3> QED
      BY <1>8, <3>1, <3>2, KeyFacts DEF Topics
  <2>3. ~CampaignLocked => \A b \in Buyers : sends'[<<Push, b>>] = sends[<<Push, b>>]
    BY <1>21, <2>2, KeyFacts
  <2> QED
    BY <1>5, <2>1, <2>3 DEF NotesInv, PushQuiet
<1>24. z.op = "campaign" => Does(h, "campaign")
  BY <1>2, <1>13 DEF Does
<1> QED
  BY <1>5, <1>6, <1>7, <1>12, <1>16, <1>17, <1>19, <1>21, <1>22, <1>23, <1>24, HandMoves

-----------------------------------------------------------------------------
(* Notifications: a transaction ends *)

LEMMA HandEnds ==
  ASSUME NotesInv, NEW h \in Hands, hand' = [hand EXCEPT ![h] = Still]
  PROVE  /\ hand' \in [Hands -> {Still} \cup HandRow]
         /\ \A g \in Hands : hand'[g] = IF g = h THEN Still ELSE hand[g]
         /\ OneInserts'
         /\ \A g, f \in Hands : hand'[g].op = "campaign" /\ hand'[f].op = "campaign" => g = f
         /\ CampaignLocked' => CampaignLocked
         /\ Does(h, "campaign") => ~CampaignLocked'
<1>1. hand \in [Hands -> {Still} \cup HandRow]
  BY HandFacts
<1>2. \A g \in Hands : hand'[g] = IF g = h THEN Still ELSE hand[g]
  BY <1>1
<1>3. OneInserts'
  BY <1>2 DEF NotesInv, OneInserts, HasOpen
<1>4. \A g \in Hands : hand'[g].op = "campaign" => g # h /\ Does(g, "campaign")
  BY <1>2 DEF Does, Still
<1> QED
  BY <1>1, <1>2, <1>3, <1>4 DEF NotesInv, OneCampaign, CampaignLocked, Does

\* What providers took is not undone, but a commit is lost.
LEMMA HandFailsKeeps ==
  ASSUME NotesInv, NEW h \in Hands, HandFails(h)
  PROVE  NotesInv'
<1>1. /\ hand' = [hand EXCEPT ![h] = Still] /\ happened' = [happened EXCEPT !["lost"] = @ + 1]
      /\ note' = note /\ sends' = sends /\ facts' = facts /\ silent' = silent
      /\ campaign' = campaign /\ event' = event /\ prefs' = prefs /\ night' = night
      /\ muted' = muted /\ destination' = destination /\ posts' = posts
  BY DEF HandFails, Spends, messages, moods, purchases
<1>2. PICK p \in [facts : Nat, moods : Nat, lost : Nat] : p = happened
  BY DEF NotesInv, RowTypes
<1>3. /\ happened' \in [facts : Nat, moods : Nat, lost : Nat]
      /\ happened'.lost = happened.lost + 1 /\ happened.lost \in Nat
  BY <1>1, <1>2
<1>4. RowTypes' /\ MoodTypes'
  BY <1>1, <1>3 DEF NotesInv, RowTypes, MoodTypes
<1>5. HandsSound'
  <2>1. \A g \in Hands : HandSound(hand[g], note)
    BY HandFacts
  <2>2. HandSound(Still, note)
    BY DEF HandSound
  <2> QED
    BY <1>1, <2>1, <2>2, HandEnds DEF HandsSound
<1>6. OneInserts' /\ OneCampaign'
  BY <1>1, HandEnds DEF NotesInv, OneCampaign, Does
<1>7. SentBound'
  <2>1. ASSUME NEW k \in Keys
        PROVE  sends'[k] <= happened'.lost + (IF Gone(k)' THEN 1 ELSE 0)
    <3>1. sends[k] <= happened.lost + (IF Gone(k) THEN 1 ELSE 0) /\ sends[k] \in Nat
      BY DEF NotesInv, SentBound, RowTypes
    <3> QED
      BY <1>1, <1>3, <3>1
  <2> QED
    BY <2>1 DEF SentBound
<1>8. PushQuiet'
  BY <1>3 DEF PushQuiet
<1>9. CampaignKept' /\ OnlyMarketing' /\ FactsAreNoted'
  BY <1>1 DEF NotesInv, CampaignKept, OnlyMarketing, FactsAreNoted
<1> QED
  BY <1>4, <1>5, <1>6, <1>7, <1>8, <1>9 DEF NotesInv
\* A commit: what it inserted goes on record, and its fact with it.
LEMMA HandCommitsKeeps ==
  ASSUME NotesInv, NEW h \in Hands, HandCommits(h)
  PROVE  NotesInv'
<1>1. Works(h) /\ hand[h].todo = {}
  BY DEF HandCommits
<1>2. PICK x \in HandRow : x = hand[h] /\ x # Still /\ HandSound(x, note) /\ x.todo = {}
  BY <1>1, HandFacts
<1>3. PICK m \in PartOf(Keys, Outcomes) : m = x.mine
  BY DEF HandRow
<1>4. /\ note' = [k \in Keys |-> IF k \in DOMAIN m THEN m[k] ELSE note[k]]
      /\ facts' = IF x.op = "fact" THEN facts \cup {x.about} ELSE facts
      /\ silent' = IF x.op # "fact" THEN silent
                   ELSE IF x.quiet THEN silent \cup ({x.about} \ facts)
                   ELSE silent \ {x.about}
      /\ campaign' = IF x.op = "campaign"
                     THEN [status |-> "sent",
                           sent |-> Cardinality({k \in DOMAIN m : m[k] = "sent"})]
                     ELSE campaign
      /\ event' = Queued(h)
      /\ hand' = [hand EXCEPT ![h] = Still]
      /\ sends' = sends /\ prefs' = prefs /\ night' = night /\ muted' = muted
      /\ destination' = destination
      /\ posts' = posts /\ happened' = happened
  BY <1>2, <1>3 DEF HandCommits, moods
<1>5. /\ note \in [Keys -> NoteStatus] /\ sends \in [Keys -> Nat] /\ happened.lost \in Nat
      /\ silent \subseteq facts /\ facts \subseteq OrderKeys \X Buyers
      /\ event \in [Buyers -> EventStatus]
  BY DEF NotesInv, RowTypes
<1>6. DOMAIN m \subseteq Keys /\ \A k \in DOMAIN m : m[k] \in Outcomes
  BY PartFacts
<1>7. \A k \in DOMAIN m : /\ m[k] # "queued" /\ k[1] \in Topics(x.op) /\ note[k] = "none"
                          /\ m[k] = "suppressed" => Marketing(k)
  <2>1. x.phase # "deliver"
    BY <1>2 DEF HandCommits
  <2> QED
    BY <1>2, <1>3, <2>1 DEF HandSound
<1>8. \A k \in DOMAIN m : m[k] \in NoteStatus \ {"none"}
  BY <1>6, <1>7 DEF Outcomes, NoteStatus
<1>9. \A k \in Keys : note'[k] = IF k \in DOMAIN m THEN m[k] ELSE note[k]
  BY <1>4
<1>10. note' \in [Keys -> NoteStatus]
  BY <1>4, <1>5, <1>8
<1>11. x.op \in {"fact", "campaign", "sweep"} /\ x.quiet \in BOOLEAN
  BY DEF HandRow
<1>12. x.op = "fact" =>
          /\ x.about \in OrderKeys \X Buyers /\ x.about \in Keys /\ ~Marketing(x.about)
          /\ ~x.quiet => x.about \in DOMAIN m \/ note[x.about] \in Reached
  <2>1. x.op = "fact" =>
           /\ x.about \in OrderKeys \X Buyers
           /\ ~x.quiet => x.about \in DOMAIN m \/ note[x.about] \in Reached
    BY <1>2, <1>3 DEF HandSound
  <2>2. \A k \in OrderKeys \X Buyers : k \in Keys /\ ~Marketing(k)
    BY KeyFacts
  <2> QED
    BY <2>1, <2>2
<1>13. x.op # "campaign" => \A b \in Buyers : <<Push, b>> \notin DOMAIN m
  <2>1. x.op # "campaign" => Push \notin Topics(x.op)
    BY <1>11, KeyFacts DEF Topics
  <2> QED
    BY <1>7, <2>1
<1>14. x.op = "campaign" => Does(h, "campaign") /\ campaign.status = "draft"
  BY <1>2 DEF NotesInv, OneCampaign, CampaignLocked, Does
<1>15. facts' \subseteq OrderKeys \X Buyers /\ silent' \subseteq facts'
  BY <1>4, <1>5, <1>12
<1>16. event' \in [Buyers -> EventStatus]
  <2>1. x.reports \in PartOf(Buyers, {"sent", "failed"})
    BY DEF HandRow
  <2>2. \A b \in DOMAIN x.reports : x.reports[b] \in EventStatus
    BY <2>1, PartFacts DEF EventStatus
  <2>3. "queued" \in EventStatus
    BY DEF EventStatus
  <2>4. CASE event' = [event EXCEPT ![hand[h].about[2]] = "queued"]
    BY <1>5, <2>3, <2>4
  <2>5. CASE event' = [b \in Buyers |-> IF b \in DOMAIN x.reports THEN x.reports[b] ELSE event[b]]
    BY <1>5, <2>2, <2>5
  <2> QED
    BY <1>2, <1>4, <2>4, <2>5 DEF Queued
<1>17. CampaignKept' /\ campaign'.status \in {"draft", "sent", "cancelled"}
       /\ campaign' \in [status : {"draft", "sent", "cancelled"}, sent : 0 .. Cardinality(Buyers)]
  <2>1. CASE x.op = "campaign"
    <3> DEFINE told == {b \in Buyers : <<Push, b>> \in DOMAIN m /\ m[<<Push, b>>] = "sent"}
    <3>1. \A k \in DOMAIN m : k[1] = Push
      BY <1>7, <2>1 DEF Topics
    <3>2. /\ Cardinality({k \in DOMAIN m : m[k] = "sent"}) = Cardinality(told)
          /\ Cardinality(told) \in 0 .. Cardinality(Buyers)
      BY <3>1, PushCount
    <3>3. \A b \in Buyers : note[<<Push, b>>] = "none"
      BY <1>14, <2>1 DEF NotesInv, CampaignKept
    <3>4. \A b \in Buyers : note'[<<Push, b>>] = "sent" <=> b \in told
      BY <1>9, <3>3, KeyFacts
    <3>5. {b \in Buyers : note'[<<Push, b>>] = "sent"} = told
      BY <3>4
    <3> HIDE DEF told
    <3>6. campaign' = [status |-> "sent", sent |-> Cardinality(told)]
      BY <1>4, <2>1, <3>2
    <3>7. campaign'.status = "sent" /\ campaign'.sent = Cardinality(told)
      BY <3>6
    <3>8. CampaignKept'
      BY <3>5, <3>7 DEF CampaignKept
    <3> QED
      BY <3>2, <3>6, <3>7, <3>8
  <2>2. CASE x.op # "campaign"
    <3>1. \A b \in Buyers : note'[<<Push, b>>] = note[<<Push, b>>]
      BY <1>9, <1>13, <2>2, KeyFacts
    <3>2. {b \in Buyers : note'[<<Push, b>>] = "sent"} = {b \in Buyers : note[<<Push, b>>] = "sent"}
      BY <3>1
    <3>3. campaign' = campaign
      BY <1>4, <2>2
    <3>4. campaign \in [status : {"draft", "sent", "cancelled"}, sent : 0 .. Cardinality(Buyers)]
      BY DEF NotesInv, RowTypes
    <3>5. CampaignKept'
      BY <3>1, <3>2, <3>3 DEF NotesInv, CampaignKept
    <3> QED
      BY <3>3, <3>4, <3>5
  <2> QED
    BY <2>1, <2>2
<1>18. RowTypes' /\ MoodTypes'
  BY <1>4, <1>10, <1>15, <1>16, <1>17 DEF NotesInv, RowTypes, MoodTypes
<1>19. /\ hand' \in [Hands -> {Still} \cup HandRow]
       /\ \A g \in Hands : hand'[g] = IF g = h THEN Still ELSE hand[g]
       /\ OneInserts'
       /\ \A g, f \in Hands : hand'[g].op = "campaign" /\ hand'[f].op = "campaign" => g = f
       /\ CampaignLocked' => CampaignLocked
       /\ Does(h, "campaign") => ~CampaignLocked'
  BY <1>4, HandEnds
<1>20. \A g \in Hands \ {h} : \A k \in Keys : HasOpen(hand[g], k) => k \notin DOMAIN m
  <2>1. \A k \in DOMAIN m : HasOpen(hand[h], k)
    BY <1>2, <1>3 DEF HasOpen
  <2> QED
    BY <2>1 DEF NotesInv, OneInserts
<1>21. HandsSound'
  <2>1. ASSUME NEW g \in Hands \ {h}
        PROVE  HandSound(hand[g], note')
    <3>1. HandSound(hand[g], note)
      BY HandFacts
    <3>2. CASE hand[g] # Still
      <4>1. PICK w \in HandRow : w = hand[g] /\ w # Still
        BY <3>2, HandFacts
      <4>2. DOMAIN w.mine \subseteq Keys
        <5>1. w.mine \in PartOf(Keys, Outcomes)
          BY DEF HandRow
        <5> QED
          BY <5>1, PartFacts
      <4>3. \A k \in DOMAIN w.mine : note'[k] = note[k]
        BY <1>9, <1>20, <4>1, <4>2 DEF HasOpen
      <4>4. w.op = "fact" =>
               /\ w.about \in OrderKeys \X Buyers
               /\ ~w.quiet => \/ w.about \in w.todo \cup DOMAIN w.mine
                              \/ note[w.about] \in Reached
        BY <3>1, <4>1 DEF HandSound
      <4>5. w.op = "fact" /\ note[w.about] \in Reached => note'[w.about] \in Reached
        <5>1. w.op = "fact" => w.about \in Keys
          BY <4>4, KeyFacts
        <5>2. "none" \notin Reached
          BY DEF Reached
        <5> QED
          BY <1>7, <1>9, <5>1, <5>2
      <4> QED
        BY <3>1, <4>1, <4>3, <4>4, <4>5 DEF HandSound
    <3> QED
      BY <3>2 DEF HandSound
  <2>2. HandSound(Still, note')
    BY DEF HandSound
  <2>3. \A g \in Hands : HandSound(hand'[g], note')
    BY <1>19, <2>1, <2>2
  <2> QED
    BY <1>19, <2>3 DEF HandsSound
<1>22. OneCampaign'
  BY <1>4, <1>14, <1>19 DEF NotesInv, OneCampaign, Does
<1>23. SentBound'
  <2>1. ASSUME NEW k \in Keys
        PROVE  sends'[k] <= happened'.lost + (IF Gone(k)' THEN 1 ELSE 0)
    <3>1. sends[k] <= happened.lost + (IF Gone(k) THEN 1 ELSE 0) /\ sends[k] \in Nat
      BY <1>5 DEF NotesInv, SentBound
    <3>2. Gone(k) => Gone(k)'
      <4>1. CASE note[k] # "none"
        BY <1>7, <1>9, <4>1 DEF Gone
      <4>2. ASSUME NEW g \in Hands, HasDelivered(hand[g], k)
            PROVE  Gone(k)'
        <5>1. CASE g = h
          <6>1. k \in DOMAIN m
            BY <1>2, <1>3, <4>2, <5>1 DEF HasDelivered, HasOpen
          <6>2. note'[k] # "none"
            BY <1>8, <1>9, <6>1
          <6> QED
            BY <6>2 DEF Gone
        <5>2. CASE g # h
          <6>1. HasDelivered(hand'[g], k)
            BY <1>19, <4>2, <5>2
          <6> QED
            BY <6>1 DEF Gone
        <5> QED
          BY <5>1, <5>2
      <4> QED
        BY <4>1, <4>2 DEF Gone
    <3> QED
      BY <1>4, <1>5, <3>1, <3>2
  <2> QED
    BY <2>1 DEF SentBound
<1>24. PushQuiet'
  <2>1. x.op = "campaign" => campaign'.status = "sent"
    BY <1>4
  <2>2. x.op # "campaign" => campaign' = campaign /\ (CampaignLocked => CampaignLocked')
    <3>1. \A g \in Hands : x.op # "campaign" /\ Does(g, "campaign") => g # h
      BY <1>2 DEF Does
    <3> QED
      BY <1>4, <1>19, <3>1 DEF CampaignLocked, Does
  <2> QED
    BY <1>4, <2>1, <2>2 DEF NotesInv, PushQuiet
<1>25. OnlyMarketing'
  BY <1>7, <1>9 DEF NotesInv, OnlyMarketing
<1>26. FactsAreNoted'
  <2>1. ASSUME NEW k \in facts' \ silent'
        PROVE  note'[k] \in Reached
    <3>1. k \in Keys
      BY <1>15, KeyFacts
    <3>2. "none" \notin Reached
      BY DEF Reached
    <3>3. CASE k \in facts \ silent
      <4>1. note[k] \in Reached
        BY <3>3 DEF NotesInv, FactsAreNoted, Reached
      <4> QED
        BY <1>7, <1>9, <3>1, <3>2, <4>1
    <3>4. CASE k \notin facts \ silent
      <4>1. x.op = "fact" /\ ~x.quiet /\ k = x.about
        BY <1>4, <1>5, <3>4
      <4>2. CASE k \in DOMAIN m
        <5>1. m[k] \in Outcomes /\ m[k] # "queued" /\ m[k] # "suppressed"
          BY <1>6, <1>7, <1>12, <4>1, <4>2
        <5> QED
          BY <1>9, <3>1, <4>2, <5>1 DEF Outcomes, Reached
      <4>3. CASE k \notin DOMAIN m
        BY <1>9, <1>12, <3>1, <4>1, <4>3
      <4> QED
        BY <4>2, <4>3
    <3> QED
      BY <3>3, <3>4
  <2> QED
    BY <2>1 DEF FactsAreNoted, Reached
<1> QED
  BY <1>17, <1>18, <1>19, <1>21, <1>22, <1>23, <1>24, <1>25, <1>26 DEF NotesInv

-----------------------------------------------------------------------------
(* Notifications: nobody's transaction moves *)

LEMMA RestKeeps ==
  ASSUME NotesInv,
         \/ CancelCampaign \/ TimeOfDay \/ PutDestination
         \/ \E b \in Buyers : SetPreferences(b)
         \/ \E key \in Texts : PutTemplate(key)
         \/ UNCHANGED notificationVars
  PROVE  NotesInv'
<1>1. /\ note' = note /\ sends' = sends /\ facts' = facts /\ silent' = silent
      /\ hand' = hand /\ event' = event /\ posts' = posts
  BY DEF CancelCampaign, TimeOfDay, PutDestination, SetPreferences, PutTemplate,
         notificationVars, messages,
         moods, purchases
<1>2. MoodTypes'
  <2>1. MoodTypes
    BY DEF NotesInv
  <2>2. CASE TimeOfDay \/ PutDestination \/ CancelCampaign \/ UNCHANGED notificationVars
    BY <2>1, <2>2 DEF MoodTypes, TimeOfDay, PutDestination, CancelCampaign, notificationVars, moods
  <2>3. ASSUME NEW b \in Buyers, SetPreferences(b)
        PROVE  MoodTypes'
    BY <2>1, <2>3 DEF MoodTypes, SetPreferences
  <2>4. (\E b \in Buyers : SetPreferences(b)) => MoodTypes'
    BY <2>3
  <2>5. ASSUME NEW key \in Texts, PutTemplate(key)
        PROVE  MoodTypes'
    BY <2>1, <2>5 DEF MoodTypes, PutTemplate
  <2> QED
    BY <2>2, <2>4, <2>5
<1>3. /\ happened' \in [facts : Nat, moods : Nat, lost : Nat] /\ happened'.lost = happened.lost
  <2>1. happened' = happened \/ happened' = [happened EXCEPT !["moods"] = @ + 1]
    BY DEF CancelCampaign, TimeOfDay, PutDestination, SetPreferences, PutTemplate,
         notificationVars, Spends
  <2>2. happened \in [facts : Nat, moods : Nat, lost : Nat]
    BY DEF NotesInv, RowTypes
  <2> QED
    BY <2>1, <2>2
<1>4. campaign' = campaign
      \/ (campaign.status = "draft" /\ ~CampaignLocked
          /\ campaign' = [campaign EXCEPT !.status = "cancelled"])
  BY DEF CancelCampaign, TimeOfDay, PutDestination, SetPreferences, PutTemplate,
         notificationVars, messages
<1>5. PICK c \in [status : {"draft", "sent", "cancelled"}, sent : 0 .. Cardinality(Buyers)] :
         c = campaign
  BY DEF NotesInv, RowTypes
<1>6. /\ campaign' \in [status : {"draft", "sent", "cancelled"}, sent : 0 .. Cardinality(Buyers)]
      /\ campaign'.status = "sent" <=> campaign.status = "sent"
      /\ campaign'.sent = campaign.sent
      /\ CampaignLocked => campaign' = campaign
  BY <1>4, <1>5
<1>7. RowTypes'
  BY <1>1, <1>3, <1>6 DEF NotesInv, RowTypes
<1>8. HandsSound' /\ OneInserts'
  BY <1>1 DEF NotesInv, HandsSound, OneInserts
<1>9. CampaignLocked' <=> CampaignLocked
  BY <1>1 DEF CampaignLocked, Does
<1>10. OneCampaign'
  BY <1>1, <1>6, <1>9 DEF NotesInv, OneCampaign, Does
<1>11. SentBound'
  <2>1. \A k \in Keys : Gone(k) <=> Gone(k)'
    BY <1>1 DEF Gone
  <2> QED
    BY <1>1, <1>3, <2>1 DEF NotesInv, SentBound
<1>12. PushQuiet'
  BY <1>1, <1>3, <1>6, <1>9 DEF NotesInv, PushQuiet
<1>13. CampaignKept'
  BY <1>1, <1>6 DEF NotesInv, CampaignKept
<1>14. OnlyMarketing' /\ FactsAreNoted'
  BY <1>1 DEF NotesInv, OnlyMarketing, FactsAreNoted
<1> QED
  BY <1>2, <1>7, <1>8, <1>10, <1>11, <1>12, <1>13, <1>14 DEF NotesInv

LEMMA NotesInvNext == NotesInv /\ [NotificationsNext]_notificationVars => NotesInv'
<1> SUFFICES ASSUME NotesInv, [NotificationsNext]_notificationVars
             PROVE  NotesInv'
  OBVIOUS
<1>1. CASE \/ CancelCampaign \/ TimeOfDay \/ PutDestination
           \/ \E b \in Buyers : SetPreferences(b)
           \/ \E key \in Texts : PutTemplate(key)
           \/ UNCHANGED notificationVars
  BY <1>1, RestKeeps
<1>2. ASSUME NEW h \in Hands, HandStep(h) PROVE NotesInv'
  BY <1>2, NotifyKeeps, DeliverKeeps, FlushKeeps, HandCommitsKeeps DEF HandStep
<1>3. ASSUME NEW h \in Hands, HandFails(h) \/ SendCampaign(h) \/ MarketingSweep(h)
      PROVE  NotesInv'
  BY <1>3, HandFailsKeeps, SendCampaignKeeps, MarketingSweepKeeps
<1>4. ASSUME NEW h \in Hands, NEW b \in Buyers,
             \/ OrderPlaced(h, b) \/ PaymentPaid(h, b)
             \/ ShipmentMoves(h, b) \/ RefundCompleted(h, b)
      PROVE  NotesInv'
  BY <1>4, FactsKeep
<1> QED
  BY <1>1, <1>2, <1>3, <1>4 DEF NotificationsNext

\* However often a fact is reported, sweeps overlap and deliveries fail: a provider takes a
\* message at most once more than commits were lost, what a request reports is on record
\* unless the tenant had turned its message off, and a campaign that is sent counts whom
\* it told.
THEOREM NotificationsSafeHolds == NotificationsSpec => []NotificationsSafe
<1>1. NotificationsInit => NotesInv
  BY NotesInvInit
<1>2. NotesInv /\ [NotificationsNext]_notificationVars => NotesInv'
  BY NotesInvNext
<1>3. NotesInv => NotificationsSafe
  BY NotesInvIsSafe
<1> QED
  BY <1>1, <1>2, <1>3, PTL DEF NotificationsSpec
=============================================================================
