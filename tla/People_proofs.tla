----------------------------- MODULE People_proofs -----------------------------
(***************************************************************************)
(* What the components where people decide about people keep in every      *)
(* state, for every number of shops, staff, tokens, tickets, reviews and   *)
(* uploads: vendors and their payout destinations, the team, support,      *)
(* reviews, what the mobile application sends in, and accounts.           *)
(***************************************************************************)
EXTENDS Vendors, Destination, Team, Support, Reviews, Intake, Accounts,
        SequenceTheorems, FiniteSetTheorems, TLAPS

-----------------------------------------------------------------------------
(* Vendors: the inductive invariant *)

SignupDeed == [op : {"signup"}, shop : Shops, invited : BOOLEAN]
UploadDeed == [op : {"upload"}, shop : Shops]
MoveDeed == [op : {"move"}, shop : Shops, to : VendorStatus]
LockedDeed == [op : {"locked"}, shop : Shops, to : VendorStatus, from : VendorStatus]
Deed == {Off} \cup SignupDeed \cup UploadDeed \cup MoveDeed \cup LockedDeed

\* A history is a path through TRANSITIONS that starts at registered, and where it ends.
Linked(e) ==
  \A i \in 1 .. Len(e) :
    /\ e[i].from \in AllowedFrom(e[i].to)
    /\ e[i].from = IF i = 1 THEN "registered" ELSE e[i - 1].to
Reached(e) == IF e = <<>> THEN "registered" ELSE e[Len(e)].to

Histories ==
  \A v \in Shops :
    /\ Linked(events[v])
    /\ status[v] = "none" => events[v] = <<>> /\ v \notin guests
    /\ status[v] # "none" => status[v] = Reached(events[v])

Vetting ==
  /\ ApprovedWasVetted
  /\ \A v \in Shops, k \in Papers : paper[v][k] = "approved" => v \in vetted

Invited == IsFiniteSet(guests) /\ InvitationHolds

\* What a clerk's request relies on: a shop it approves was vetted, although it looked
\* without a lock; under the lock the status stays; and the invitation it locked has a
\* use left.
Relies(x) ==
  /\ x \in MoveDeed \cup LockedDeed =>
       /\ x.to \in StaffMoves \cup {"documents_submitted"}
       /\ x.to = "approved" => x.shop \in vetted
  /\ x \in LockedDeed => status[x.shop] = x.from /\ x.from \in AllowedFrom(x.to)
  /\ x \in SignupDeed /\ x.invited => used < MaxUses

\* One request holds the lock of a shop's row, and one that of the invitation.
Alone ==
  \A c, d \in Clerks : c # d =>
    /\ deed[c] \in LockedDeed /\ deed[d] \in LockedDeed => deed[c].shop # deed[d].shop
    /\ deed[c] \in SignupDeed /\ deed[d] \in SignupDeed => ~(deed[c].invited /\ deed[d].invited)

VendorsInv ==
  /\ VendorsTypeOK /\ Histories /\ Vetting /\ Invited
  /\ \A c \in Clerks : Relies(deed[c])
  /\ Alone

-----------------------------------------------------------------------------
(* Vendors: histories *)

LEMMA AllowedFacts ==
  /\ \A to \in StaffMoves \cup {"documents_submitted", "under_review"} : AllowedFrom(to) \subseteq VendorStatus
  /\ AllowedFrom("under_review") = {"documents_submitted"}
  /\ AllowedFrom("suspended") = {"approved"}
  /\ StaffMoves \subseteq VendorStatus /\ "none" \notin VendorStatus
  /\ {"documents_submitted", "under_review", "registered"} \subseteq VendorStatus
  /\ "under_review" \notin {"approved", "suspended"}
BY DEF AllowedFrom, StaffMoves, VendorStatus

\* One event more keeps a history linked when it starts where the history ended.
LEMMA HistoryGrows ==
  ASSUME NEW e \in Seq(Event), NEW a \in Event, Linked(e),
         a.from = Reached(e), a.from \in AllowedFrom(a.to)
  PROVE  /\ e \o <<a>> \in Seq(Event)
         /\ Linked(e \o <<a>>)
         /\ e \o <<a>> # <<>> /\ Reached(e \o <<a>>) = a.to
<1> DEFINE f == e \o <<a>>
<1>1. <<a>> \in Seq(Event) /\ Len(<<a>>) = 1 /\ <<a>>[1] = a
  OBVIOUS
<1>2. /\ f \in Seq(Event) /\ Len(f) = Len(e) + 1
      /\ \A i \in 1 .. Len(e) + 1 : f[i] = IF i <= Len(e) THEN e[i] ELSE <<a>>[i - Len(e)]
  BY <1>1, ConcatProperties, Zenon
<1>3. Len(e) \in Nat
  BY LenProperties
<1> HIDE DEF f
<1>4. (\A i \in 1 .. Len(e) : f[i] = e[i]) /\ f[Len(e) + 1] = a
  BY <1>1, <1>2, <1>3
<1>5. f # <<>>
  BY <1>2, <1>3
<1>6. Reached(f) = a.to
  BY <1>2, <1>4, <1>5 DEF Reached
<1>7. e = <<>> <=> Len(e) = 0
  BY EmptySeq, <1>3
<1>8. ASSUME NEW i \in 1 .. Len(f)
      PROVE  /\ f[i].from \in AllowedFrom(f[i].to)
             /\ f[i].from = IF i = 1 THEN "registered" ELSE f[i - 1].to
  <2>1. CASE i \in 1 .. Len(e)
    <3>1. i # 1 => i - 1 \in 1 .. Len(e)
      BY <1>3, <2>1
    <3> QED
      BY <1>4, <2>1, <3>1 DEF Linked
  <2>2. CASE i = Len(e) + 1
    <3>1. f[i] = a
      BY <1>4, <2>2
    <3>2. CASE Len(e) = 0
      BY <1>7, <2>2, <3>1, <3>2 DEF Reached
    <3>3. CASE Len(e) # 0
      <4>1. f[i - 1] = e[Len(e)] /\ i # 1
        BY <1>3, <1>4, <2>2, <3>3
      <4> QED
        BY <1>7, <3>1, <3>3, <4>1 DEF Reached
    <3> QED
      BY <3>2, <3>3
  <2> QED
    BY <1>2, <1>3, <2>1, <2>2
<1> QED
  BY <1>2, <1>5, <1>6, <1>8 DEF Linked, f

LEMMA TwoInARow ==
  ASSUME NEW S, NEW a \in S, NEW b \in S
  PROVE  <<a>> \o <<b>> = <<a, b>>
<1>1. /\ <<a>> \in Seq(S) /\ <<b>> \in Seq(S) /\ <<a, b>> \in Seq(S)
      /\ Len(<<a>>) = 1 /\ Len(<<b>>) = 1 /\ Len(<<a, b>>) = 2
  OBVIOUS
<1>2. /\ <<a>> \o <<b>> \in Seq(S) /\ Len(<<a>> \o <<b>>) = 2
      /\ \A i \in 1 .. 2 : (<<a>> \o <<b>>)[i] = IF i <= 1 THEN <<a>>[i] ELSE <<b>>[i - 1]
  BY <1>1, ConcatProperties
<1>3. \A i \in 1 .. 2 : (<<a>> \o <<b>>)[i] = <<a, b>>[i]
  BY <1>2
<1> QED
  BY <1>1, <1>2, <1>3, SeqEqual

\* What transition() writes to a history, once or twice.
LEMMA HistoryMoves ==
  ASSUME NEW e \in Seq(Event), Linked(e), NEW x \in LockedDeed,
         x.to \in StaffMoves \cup {"documents_submitted"},
         x.from = Reached(e), x.from \in AllowedFrom(x.to)
  PROVE  LET last == Steps(x)[Len(Steps(x))].to IN
         /\ e \o Steps(x) \in Seq(Event)
         /\ Linked(e \o Steps(x))
         /\ Reached(e \o Steps(x)) = last
         /\ last = IF x.to = "documents_submitted" THEN "under_review" ELSE x.to
<1> DEFINE a == [from |-> x.from, to |-> x.to]
           b == [from |-> x.to, to |-> "under_review"]
<1>1. a \in Event /\ a.from = x.from /\ a.to = x.to
  BY DEF Event, LockedDeed
<1>2. /\ e \o <<a>> \in Seq(Event) /\ Linked(e \o <<a>>)
      /\ e \o <<a>> # <<>> /\ Reached(e \o <<a>>) = x.to
  BY <1>1, HistoryGrows
<1>3. CASE x.to = "documents_submitted"
  <2>1. b \in Event /\ b.from = x.to /\ b.to = "under_review" /\ b.from \in AllowedFrom(b.to)
    BY <1>3, AllowedFacts DEF Event
  <2>2. /\ (e \o <<a>>) \o <<b>> \in Seq(Event) /\ Linked((e \o <<a>>) \o <<b>>)
        /\ Reached((e \o <<a>>) \o <<b>>) = "under_review"
    BY <1>2, <2>1, HistoryGrows
  <2>3. <<a>> \in Seq(Event) /\ <<b>> \in Seq(Event)
    BY <1>1, <2>1
  <2>4. <<a>> \o <<b>> = <<a, b>>
    BY <1>1, <2>1, TwoInARow
  <2>5. (e \o <<a>>) \o <<b>> = e \o <<a, b>>
    BY <2>3, <2>4, ConcatAssociative
  <2>6. Steps(x) = <<a, b>> /\ Steps(x)[Len(Steps(x))].to = "under_review"
    BY <1>3 DEF Steps
  <2> QED
    BY <1>3, <2>2, <2>5, <2>6
<1>4. CASE x.to # "documents_submitted"
  <2>1. Steps(x) = <<a>> /\ Steps(x)[Len(Steps(x))].to = x.to
    BY <1>4 DEF Steps
  <2> QED
    BY <1>2, <1>4, <2>1
<1> QED
  BY <1>3, <1>4

-----------------------------------------------------------------------------
(* Vendors: every step *)

LEMMA DeedKinds ==
  ASSUME VendorsInv, NEW c \in Clerks
  PROVE  /\ deed[c] \in Deed
         /\ deed[c].op = "signup" => deed[c] \in SignupDeed
         /\ deed[c].op = "upload" => deed[c] \in UploadDeed
         /\ deed[c].op = "move" => deed[c] \in MoveDeed
         /\ deed[c].op = "locked" => deed[c] \in LockedDeed
         /\ Relies(deed[c])
<1>1. deed[c] \in Deed
  BY DEF VendorsInv, VendorsTypeOK, Deed, SignupDeed, UploadDeed, MoveDeed, LockedDeed
<1> QED
  BY <1>1 DEF Deed, Off, SignupDeed, UploadDeed, MoveDeed, LockedDeed, VendorsInv

\* The kinds of requests are told apart by their op.
LEMMA KindsDiffer ==
  /\ Off \notin SignupDeed /\ Off \notin MoveDeed /\ Off \notin LockedDeed
  /\ \A x \in SignupDeed : x \notin MoveDeed /\ x \notin LockedDeed
  /\ \A x \in UploadDeed : x \notin MoveDeed /\ x \notin LockedDeed /\ x \notin SignupDeed
  /\ \A x \in MoveDeed : x \notin SignupDeed /\ x \notin LockedDeed
  /\ \A x \in LockedDeed : x \notin SignupDeed
BY DEF Off, SignupDeed, UploadDeed, MoveDeed, LockedDeed

LEMMA VendorsInitHolds == VendorsInit => VendorsInv
<1> SUFFICES ASSUME VendorsInit PROVE VendorsInv
  OBVIOUS
<1> USE DEF VendorsInit
<1>1. \A v \in Shops : events[v] = <<>> /\ status[v] = "none"
  OBVIOUS
<1>2. VendorsTypeOK
  <2>1. events \in [Shops -> Seq(Event)]
    BY EmptySeq
  <2> QED
    BY <2>1 DEF VendorsTypeOK
<1>3. Histories
  BY <1>1, EmptySeq DEF Histories, Linked
<1>4. Vetting
  BY DEF Vetting, ApprovedWasVetted
<1>5. Invited
  BY FS_EmptySet, VendorsAssumption DEF Invited, InvitationHolds
<1>6. (\A c \in Clerks : Relies(deed[c])) /\ Alone
  BY KindsDiffer DEF Relies, Alone
<1> QED
  BY <1>2, <1>3, <1>4, <1>5, <1>6 DEF VendorsInv

\* A request that leaves the rows alone keeps them as they are.
LEMMA RowsStay ==
  ASSUME VendorsInv, UNCHANGED shopRows, UNCHANGED paper, UNCHANGED vetted, UNCHANGED invitation
  PROVE  Histories' /\ Vetting' /\ Invited'
BY
  DEF VendorsInv, shopRows, invitation, Histories, Vetting, ApprovedWasVetted, Invited,
      InvitationHolds, Linked, Reached

\* A clerk whose request ends: the others rely on what did not change.
LEMMA DeedEnds ==
  ASSUME VendorsInv, NEW c \in Clerks, deed' = [deed EXCEPT ![c] = Off]
  PROVE  /\ deed' \in [Clerks -> Deed] /\ deed'[c] = Off
         /\ \A d \in Clerks \ {c} : deed'[d] = deed[d]
         /\ Alone'
<1>1. deed \in [Clerks -> Deed]
  BY DEF VendorsInv, VendorsTypeOK, Deed, SignupDeed, UploadDeed, MoveDeed, LockedDeed
<1>2. deed' \in [Clerks -> Deed] /\ deed'[c] = Off /\ \A d \in Clerks \ {c} : deed'[d] = deed[d]
  BY <1>1 DEF Deed
<1> QED
  BY <1>2, KindsDiffer DEF VendorsInv, Alone

\* A request that begins or goes on, without a row changing.
LEMMA DeedSet ==
  ASSUME VendorsInv, NEW c \in Clerks, NEW x \in Deed, Relies(x),
         deed' = [deed EXCEPT ![c] = x],
         UNCHANGED shopRows, UNCHANGED paper, UNCHANGED vetted, UNCHANGED invitation,
         x \in LockedDeed => \A d \in Clerks \ {c} : deed[d] \in LockedDeed => deed[d].shop # x.shop,
         x \in SignupDeed /\ x.invited =>
           \A d \in Clerks \ {c} : deed[d] \in SignupDeed => ~deed[d].invited
  PROVE  VendorsInv'
<1>1. deed \in [Clerks -> Deed]
  BY DEF VendorsInv, VendorsTypeOK, Deed, SignupDeed, UploadDeed, MoveDeed, LockedDeed
<1>2. deed' \in [Clerks -> Deed] /\ deed'[c] = x /\ \A d \in Clerks \ {c} : deed'[d] = deed[d]
  BY <1>1
<1>3. VendorsTypeOK'
  BY <1>2
    DEF VendorsInv, VendorsTypeOK, Deed, SignupDeed, UploadDeed, MoveDeed, LockedDeed,
        shopRows, invitation
<1>4. ASSUME NEW d \in Clerks PROVE Relies(deed[d])'
  <2>1. Relies(deed'[d])
    BY <1>2 DEF VendorsInv
  <2> QED
    BY <2>1 DEF Relies, shopRows, invitation
<1>5. Alone'
  BY <1>2 DEF VendorsInv, Alone
<1> QED
  BY <1>3, <1>4, <1>5, RowsStay DEF VendorsInv

LEMMA SignupReadKeeps ==
  ASSUME VendorsInv, NEW c \in Clerks, NEW v \in Shops, NEW invited \in BOOLEAN, SignupReads(c, v, invited)
  PROVE  VendorsInv'
<1> DEFINE x == [op |-> "signup", shop |-> v, invited |-> invited]
<1>1. x \in SignupDeed /\ x.invited = invited
  BY DEF SignupDeed
<1>2. Relies(x)
  BY <1>1, KindsDiffer DEF Relies, SignupReads
<1>3. ASSUME x.invited, NEW d \in Clerks \ {c}, deed[d] \in SignupDeed PROVE ~deed[d].invited
  BY <1>1, <1>3 DEF SignupReads, InviteLocked, SignupDeed
<1>4. deed' = [deed EXCEPT ![c] = x] /\ UNCHANGED shopRows
     /\ UNCHANGED paper /\ UNCHANGED vetted /\ UNCHANGED invitation
  BY DEF SignupReads
<1>5. x \in Deed /\ x \notin LockedDeed
  BY <1>1, KindsDiffer DEF Deed
<1> QED
  BY <1>2, <1>3, <1>4, <1>5, DeedSet

LEMMA DocumentReadKeeps ==
  ASSUME VendorsInv, NEW c \in Clerks, NEW v \in Shops, DocumentReads(c, v)
  PROVE  VendorsInv'
<1> DEFINE x == [op |-> "upload", shop |-> v]
<1>1. x \in UploadDeed
  BY DEF UploadDeed
<1>2. x \in Deed /\ x \notin LockedDeed /\ x \notin SignupDeed /\ Relies(x)
  BY <1>1, KindsDiffer DEF Deed, Relies
<1>3. deed' = [deed EXCEPT ![c] = x] /\ UNCHANGED shopRows
     /\ UNCHANGED paper /\ UNCHANGED vetted /\ UNCHANGED invitation
  BY DEF DocumentReads
<1> QED
  BY <1>2, <1>3, DeedSet

\* Whoever may approve looks at a shop that was vetted.
LEMMA MoveCheckKeeps ==
  ASSUME VendorsInv, NEW c \in Clerks, NEW v \in Shops,
         NEW to \in StaffMoves \cup {"documents_submitted"}, MoveChecks(c, v, to)
  PROVE  VendorsInv'
<1> DEFINE x == [op |-> "move", shop |-> v, to |-> to]
<1>1. x \in MoveDeed /\ x.shop = v /\ x.to = to
  BY AllowedFacts DEF MoveDeed
<1>2. to = "approved" => v \in vetted
  BY DEF MoveChecks, MayApprove, HasPaper, VendorsInv, Vetting, ApprovedWasVetted
<1>3. x \in Deed /\ x \notin LockedDeed /\ x \notin SignupDeed /\ Relies(x)
  BY <1>1, <1>2, KindsDiffer DEF Deed, Relies
<1>4. deed' = [deed EXCEPT ![c] = x] /\ UNCHANGED shopRows
     /\ UNCHANGED paper /\ UNCHANGED vetted /\ UNCHANGED invitation
  BY DEF MoveChecks
<1> QED
  BY <1>3, <1>4, DeedSet

LEMMA MoveLockKeeps ==
  ASSUME VendorsInv, NEW c \in Clerks, MoveLocks(c)
  PROVE  VendorsInv'
<1> DEFINE m == deed[c]
           x == [op |-> "locked", shop |-> m.shop, to |-> m.to, from |-> status[m.shop]]
<1>1. m \in MoveDeed /\ Relies(m)
  BY DeedKinds DEF MoveLocks
<1>2. m.shop \in Shops /\ m.to \in VendorStatus
  BY <1>1 DEF MoveDeed
<1>3. status[m.shop] \in AllowedFrom(m.to) /\ m.to \in StaffMoves \cup {"documents_submitted"}
  BY <1>1 DEF MoveLocks, Relies
<1>4. status[m.shop] \in VendorStatus
  BY <1>3, AllowedFacts
<1>5. x \in LockedDeed /\ x.shop = m.shop /\ x.to = m.to /\ x.from = status[m.shop]
  BY <1>2, <1>4 DEF LockedDeed
<1>6. Relies(x)
  BY <1>1, <1>3, <1>5, KindsDiffer DEF Relies
<1>7. ASSUME NEW d \in Clerks \ {c}, deed[d] \in LockedDeed PROVE deed[d].shop # x.shop
  BY <1>5, <1>7 DEF MoveLocks, VendorLocked, LockedDeed
<1>8. deed' = [deed EXCEPT ![c] = x] /\ UNCHANGED shopRows
     /\ UNCHANGED paper /\ UNCHANGED vetted /\ UNCHANGED invitation
  BY DEF MoveLocks
<1>9. x \in Deed /\ x \notin SignupDeed
  BY <1>5, KindsDiffer DEF Deed
<1> QED
  BY <1>6, <1>7, <1>8, <1>9, DeedSet

LEMMA ClerkFailKeeps ==
  ASSUME VendorsInv, NEW c \in Clerks, ClerkFails(c)
  PROVE  VendorsInv'
<1>1. Off \in Deed /\ Relies(Off) /\ Off \notin LockedDeed /\ Off \notin SignupDeed
  BY KindsDiffer DEF Deed, Relies
<1>2. deed' = [deed EXCEPT ![c] = Off] /\ UNCHANGED shopRows
     /\ UNCHANGED paper /\ UNCHANGED vetted /\ UNCHANGED invitation
  BY DEF ClerkFails
<1> QED
  BY <1>1, <1>2, DeedSet

-----------------------------------------------------------------------------
(* Vendors: what commits *)

\* A shop signs up: with the invitation, it takes one of its uses.
LEMMA SignupCommitKeeps ==
  ASSUME VendorsInv, NEW c \in Clerks, SignupCommits(c)
  PROVE  VendorsInv'
<1> DEFINE x == deed[c]
<1>1. x \in SignupDeed /\ Relies(x)
  BY DeedKinds DEF SignupCommits
<1>2. x.shop \in Shops /\ x.invited \in BOOLEAN
  BY <1>1 DEF SignupDeed
<1>3. /\ status[x.shop] = "none" /\ status' = [status EXCEPT ![x.shop] = "registered"]
      /\ used' = IF x.invited THEN used + 1 ELSE used
      /\ guests' = IF x.invited THEN guests \cup {x.shop} ELSE guests
      /\ deed' = [deed EXCEPT ![c] = Off]
      /\ events' = events /\ paper' = paper /\ vetted' = vetted
  BY DEF SignupCommits
<1>4. /\ deed' \in [Clerks -> Deed] /\ deed'[c] = Off /\ Alone'
      /\ \A d \in Clerks \ {c} : deed'[d] = deed[d]
  BY <1>3, DeedEnds
<1>5. status \in [Shops -> VendorStatus \cup {"none"}]
  BY DEF VendorsInv, VendorsTypeOK
<1>6. /\ status'[x.shop] = "registered"
      /\ \A v \in Shops \ {x.shop} : status'[v] = status[v]
  BY <1>2, <1>3, <1>5
<1>7. VendorsTypeOK'
  BY <1>2, <1>3, <1>4, AllowedFacts
     DEF VendorsInv, VendorsTypeOK, Deed, SignupDeed, UploadDeed, MoveDeed, LockedDeed
<1>8. Histories'
  <2>1. ASSUME NEW v \in Shops
        PROVE  /\ Linked(events[v])
               /\ status'[v] = "none" => events[v] = <<>> /\ v \notin guests'
               /\ status'[v] # "none" => status'[v] = Reached(events[v])
    <3>1. CASE v = x.shop
      BY <1>2, <1>3, <1>6, <3>1 DEF VendorsInv, Histories, Reached
    <3>2. CASE v # x.shop
      BY <1>3, <1>6, <3>2 DEF VendorsInv, Histories
    <3> QED
      BY <3>1, <3>2
  <2> QED
    BY <1>3, <2>1 DEF Histories, Linked, Reached
<1>9. Vetting'
  BY <1>3, <1>6, <1>2 DEF VendorsInv, Vetting, ApprovedWasVetted
<1>10. Invited'
  <2>1. IsFiniteSet(guests) /\ used = Cardinality(guests) /\ used <= MaxUses /\ used \in Nat
    BY DEF VendorsInv, Invited, InvitationHolds, VendorsTypeOK
  <2>2. x.shop \notin guests
    BY <1>2, <1>3 DEF VendorsInv, Histories
  <2>3. IsFiniteSet(guests \cup {x.shop}) /\ Cardinality(guests \cup {x.shop}) = used + 1
    BY <2>1, <2>2, FS_AddElement
  <2>4. x.invited => used < MaxUses
    BY <1>1 DEF Relies
  <2> QED
    BY <1>2, <1>3, <2>1, <2>3, <2>4, VendorsAssumption DEF Invited, InvitationHolds
<1>11. ASSUME NEW d \in Clerks PROVE Relies(deed[d])'
  <2>1. CASE d = c
    BY <1>4, <2>1, KindsDiffer DEF Relies
  <2>2. CASE d # c
    <3>1. deed'[d] = deed[d] /\ Relies(deed[d])
      BY <1>4, <2>2 DEF VendorsInv
    <3>2. deed[d] \in MoveDeed \cup LockedDeed =>
            /\ deed[d].to \in StaffMoves \cup {"documents_submitted"}
            /\ deed[d].to = "approved" => deed[d].shop \in vetted
      BY <3>1 DEF Relies
    <3>3. ASSUME deed[d] \in LockedDeed
          PROVE  status'[deed[d].shop] = deed[d].from /\ deed[d].from \in AllowedFrom(deed[d].to)
      <4>1. status[deed[d].shop] = deed[d].from /\ deed[d].from \in AllowedFrom(deed[d].to)
        BY <3>1, <3>3 DEF Relies
      <4>2. deed[d].shop \in Shops /\ deed[d].from \in VendorStatus
        BY <3>3 DEF LockedDeed
      <4>3. deed[d].shop # x.shop
        BY <1>3, <4>1, <4>2, AllowedFacts
      <4> QED
        BY <1>6, <4>1, <4>2, <4>3
    <3>4. ASSUME deed[d] \in SignupDeed, deed[d].invited PROVE used' < MaxUses
      <4>1. ~x.invited
        BY <1>1, <1>2, <2>2, <3>4 DEF VendorsInv, Alone
      <4> QED
        BY <1>3, <3>1, <3>4, <4>1 DEF Relies
    <3> QED
      BY <1>3, <3>1, <3>2, <3>3, <3>4 DEF Relies
  <2> QED
    BY <2>1, <2>2
<1> QED
  BY <1>4, <1>7, <1>8, <1>9, <1>10, <1>11 DEF VendorsInv

\* A document is written, with whatever the request knows of the shop.
LEMMA DocumentCommitKeeps ==
  ASSUME VendorsInv, NEW c \in Clerks, NEW k \in Papers, DocumentCommits(c, k)
  PROVE  VendorsInv'
<1> DEFINE x == deed[c]
<1>1. x \in UploadDeed /\ x.shop \in Shops
  BY DeedKinds DEF DocumentCommits, UploadDeed
<1>2. /\ paper' = [paper EXCEPT ![x.shop] = [@ EXCEPT ![k] = "pending"]]
      /\ deed' = [deed EXCEPT ![c] = Off]
      /\ status' = status /\ events' = events /\ vetted' = vetted /\ used' = used /\ guests' = guests
  BY DEF DocumentCommits, shopRows, invitation
<1>3. /\ deed' \in [Clerks -> Deed] /\ deed'[c] = Off /\ Alone'
      /\ \A d \in Clerks \ {c} : deed'[d] = deed[d]
  BY <1>2, DeedEnds
<1>4. paper \in [Shops -> [Papers -> {"none", "pending", "approved", "rejected"}]]
  BY DEF VendorsInv, VendorsTypeOK
<1>5. paper' \in [Shops -> [Papers -> {"none", "pending", "approved", "rejected"}]]
  BY <1>1, <1>2, <1>4
<1>6. \A v \in Shops, q \in Papers : paper'[v][q] = "approved" => paper[v][q] = "approved"
  BY <1>1, <1>2, <1>4
<1>7. VendorsTypeOK'
  BY <1>2, <1>3, <1>5
    DEF VendorsInv, VendorsTypeOK, Deed, SignupDeed, UploadDeed, MoveDeed, LockedDeed
<1>8. Histories' /\ Invited'
  BY <1>2 DEF VendorsInv, Histories, Invited, InvitationHolds, Linked, Reached
<1>9. Vetting'
  BY <1>2, <1>6 DEF VendorsInv, Vetting, ApprovedWasVetted
<1>10. \A d \in Clerks : Relies(deed[d])'
  <2>1. \A d \in Clerks : Relies(deed'[d])
    BY <1>3, KindsDiffer DEF VendorsInv, Relies
  <2> QED
    BY <1>2, <2>1 DEF Relies
<1> QED
  BY <1>3, <1>7, <1>8, <1>9, <1>10 DEF VendorsInv

LEMMA ReviewDocumentKeeps ==
  ASSUME VendorsInv, NEW v \in Shops, NEW k \in Papers, NEW to \in {"approved", "rejected"},
         ReviewDocument(v, k, to)
  PROVE  VendorsInv'
<1>1. /\ paper' = [paper EXCEPT ![v] = [@ EXCEPT ![k] = to]]
      /\ vetted' = IF to = "approved" THEN vetted \cup {v} ELSE vetted
      /\ status' = status /\ events' = events /\ deed' = deed /\ used' = used /\ guests' = guests
  BY DEF ReviewDocument, shopRows, invitation
<1>2. paper \in [Shops -> [Papers -> {"none", "pending", "approved", "rejected"}]] /\ vetted \subseteq Shops
  BY DEF VendorsInv, VendorsTypeOK
<1>3. paper' \in [Shops -> [Papers -> {"none", "pending", "approved", "rejected"}]]
  BY <1>1, <1>2
<1>4. vetted \subseteq vetted' /\ vetted' \subseteq Shops
  BY <1>1, <1>2
<1>5. \A w \in Shops, q \in Papers :
        paper'[w][q] = "approved" => paper[w][q] = "approved" \/ (w = v /\ to = "approved")
  BY <1>1, <1>2
<1>6. VendorsTypeOK'
  BY <1>1, <1>3, <1>4 DEF VendorsInv, VendorsTypeOK
<1>7. Histories' /\ Invited' /\ Alone'
  BY <1>1 DEF VendorsInv, Histories, Invited, InvitationHolds, Alone, Linked, Reached
<1>8. Vetting'
  BY <1>1, <1>4, <1>5 DEF VendorsInv, Vetting, ApprovedWasVetted
<1>9. \A d \in Clerks : Relies(deed[d])'
  BY <1>1, <1>4 DEF VendorsInv, Relies
<1> QED
  BY <1>6, <1>7, <1>8, <1>9 DEF VendorsInv

\* A transition under the lock of the vendor's row, with its event or events.
LEMMA MoveCommitKeeps ==
  ASSUME VendorsInv, NEW c \in Clerks, MoveCommits(c)
  PROVE  VendorsInv'
<1> DEFINE x == deed[c]
           last == Steps(x)[Len(Steps(x))].to
<1>1. x \in LockedDeed /\ Relies(x)
  BY DeedKinds DEF MoveCommits
<1>2. x.shop \in Shops /\ x.from \in VendorStatus /\ x.to \in VendorStatus
  BY <1>1 DEF LockedDeed
<1>3. /\ x.to \in StaffMoves \cup {"documents_submitted"}
      /\ x.to = "approved" => x.shop \in vetted
      /\ status[x.shop] = x.from /\ x.from \in AllowedFrom(x.to)
  BY <1>1 DEF Relies
<1>4. /\ status' = [status EXCEPT ![x.shop] = last]
      /\ events' = [events EXCEPT ![x.shop] = @ \o Steps(x)]
      /\ deed' = [deed EXCEPT ![c] = Off]
      /\ paper' = paper /\ vetted' = vetted /\ used' = used /\ guests' = guests
  BY DEF MoveCommits, invitation
<1>5. /\ deed' \in [Clerks -> Deed] /\ deed'[c] = Off /\ Alone'
      /\ \A d \in Clerks \ {c} : deed'[d] = deed[d]
  BY <1>4, DeedEnds
<1>6. status \in [Shops -> VendorStatus \cup {"none"}] /\ events \in [Shops -> Seq(Event)]
  BY DEF VendorsInv, VendorsTypeOK
<1>7. Linked(events[x.shop]) /\ x.from = Reached(events[x.shop]) /\ events[x.shop] \in Seq(Event)
  BY <1>2, <1>3, <1>6, AllowedFacts DEF VendorsInv, Histories
<1>8. /\ events[x.shop] \o Steps(x) \in Seq(Event)
      /\ Linked(events[x.shop] \o Steps(x))
      /\ Reached(events[x.shop] \o Steps(x)) = last
      /\ last = IF x.to = "documents_submitted" THEN "under_review" ELSE x.to
  BY <1>1, <1>3, <1>7, HistoryMoves
<1>9. last \in VendorStatus
  BY <1>2, <1>8, AllowedFacts
<1> HIDE DEF last
<1>10. /\ status'[x.shop] = last /\ events'[x.shop] = events[x.shop] \o Steps(x)
       /\ \A v \in Shops \ {x.shop} : status'[v] = status[v] /\ events'[v] = events[v]
  BY <1>2, <1>4, <1>6
<1>11. status' \in [Shops -> VendorStatus \cup {"none"}] /\ events' \in [Shops -> Seq(Event)]
  BY <1>2, <1>4, <1>6, <1>8, <1>9
<1>12. VendorsTypeOK'
  BY <1>4, <1>5, <1>11
     DEF VendorsInv, VendorsTypeOK, Deed, SignupDeed, UploadDeed, MoveDeed, LockedDeed
<1>13. Histories'
  <2>1. ASSUME NEW v \in Shops
        PROVE  /\ Linked(events'[v])
               /\ status'[v] = "none" => events'[v] = <<>> /\ v \notin guests
               /\ status'[v] # "none" => status'[v] = Reached(events'[v])
    <3>1. CASE v = x.shop
      BY <1>8, <1>9, <1>10, <3>1, AllowedFacts
    <3>2. CASE v # x.shop
      BY <1>10, <3>2 DEF VendorsInv, Histories
    <3> QED
      BY <3>1, <3>2
  <2> QED
    BY <1>4, <2>1 DEF Histories, Linked, Reached
<1>14. Vetting'
  <2>1. last \in {"approved", "suspended"} => x.shop \in vetted
    <3>1. CASE x.to = "suspended"
      BY <1>2, <1>3, <3>1, AllowedFacts DEF VendorsInv, Vetting, ApprovedWasVetted
    <3>2. CASE x.to # "suspended"
      BY <1>3, <1>8, <3>2
    <3> QED
      BY <3>1, <3>2
  <2> QED
    BY <1>4, <1>10, <2>1 DEF VendorsInv, Vetting, ApprovedWasVetted
<1>15. Invited'
  BY <1>4 DEF VendorsInv, Invited, InvitationHolds
<1>16. ASSUME NEW d \in Clerks PROVE Relies(deed[d])'
  <2>1. CASE d = c
    BY <1>5, <2>1, KindsDiffer DEF Relies
  <2>2. CASE d # c
    <3>1. deed'[d] = deed[d] /\ Relies(deed[d])
      BY <1>5, <2>2 DEF VendorsInv
    <3>2. ASSUME deed[d] \in LockedDeed PROVE status'[deed[d].shop] = status[deed[d].shop]
      <4>1. deed[d].shop # x.shop /\ deed[d].shop \in Shops
        BY <1>1, <2>2, <3>2 DEF VendorsInv, Alone, LockedDeed
      <4> QED
        BY <1>10, <4>1
    <3> QED
      BY <1>4, <3>1, <3>2 DEF Relies
  <2> QED
    BY <2>1, <2>2
<1> QED
  BY <1>5, <1>12, <1>13, <1>14, <1>15, <1>16 DEF VendorsInv

LEMMA VendorsStepHolds == VendorsInv /\ [VendorsNext]_vendorsVars => VendorsInv'
<1> SUFFICES ASSUME VendorsInv, [VendorsNext]_vendorsVars PROVE VendorsInv'
  OBVIOUS
<1>1. CASE UNCHANGED vendorsVars
  BY <1>1 DEF vendorsVars, shopRows, invitation, VendorsInv, VendorsTypeOK, Histories, Vetting,
              ApprovedWasVetted, Invited, InvitationHolds, Relies, Alone, Linked, Reached
<1>2. CASE \E c \in Clerks : SignupCommits(c) \/ MoveLocks(c) \/ MoveCommits(c) \/ ClerkFails(c)
  BY <1>2, SignupCommitKeeps, MoveLockKeeps, MoveCommitKeeps, ClerkFailKeeps
<1>3. CASE \E c \in Clerks, k \in Papers : DocumentCommits(c, k)
  BY <1>3, DocumentCommitKeeps
<1>4. CASE \E c \in Clerks, v \in Shops : DocumentReads(c, v) \/ \E i \in BOOLEAN : SignupReads(c, v, i)
  BY <1>4, DocumentReadKeeps, SignupReadKeeps
<1>5. CASE \E c \in Clerks, v \in Shops : \E to \in StaffMoves \cup {"documents_submitted"} : MoveChecks(c, v, to)
  BY <1>5, MoveCheckKeeps
<1>6. CASE \E v \in Shops, k \in Papers, to \in {"approved", "rejected"} : ReviewDocument(v, k, to)
  BY <1>6, ReviewDocumentKeeps
<1> QED
  BY <1>1, <1>2, <1>3, <1>4, <1>5, <1>6 DEF VendorsNext

\* The inductive invariant holds of every behaviour of onboarding (vendors/lifecycle.py,
\* onboarding.py), however requests about one vendor cross and fail.
THEOREM VendorsHold == VendorsSpec => []VendorsInv
<1> QED
  BY VendorsInitHolds, VendorsStepHolds, PTL DEF VendorsSpec

\* A vendor's events explain its status, no shop trades whose documents nobody approved,
\* and an invitation lets in as many as it has uses (vendors/lifecycle.py transition,
\* onboarding.py transition_vendor, vendor_signup), for any number of shops and clerks.
THEOREM VendorsSafeHolds == VendorsSpec => []VendorsSafe
<1>1. VendorsInv => TrailExplains
  <2> SUFFICES ASSUME VendorsInv, NEW v \in Shops
               PROVE  /\ Linked(events[v])
                      /\ status[v] # "none" => status[v] = Reached(events[v])
    BY DEF TrailExplains, Linked, Reached
  <2> QED
    BY DEF VendorsInv, Histories
<1>2. VendorsInv => VendorsSafe
  BY <1>1 DEF VendorsInv, VendorsSafe, Vetting, Invited
<1> QED
  BY <1>2, VendorsHold, PTL

-----------------------------------------------------------------------------
(* Destination: the inductive invariant *)

Granted == [step : {"granted"}, token : Tokens]
Writing == [step : {"writing"}, token : Tokens, previous : 0 .. MaxChanges]
Tab == {Resting} \cup Granted \cup Writing
HoldRow == [until : {Never} \cup Nat, released : BOOLEAN]
Uses(b) == tab[b] \in Granted \cup Writing

\* The key of a token's use outlives the token, and whoever changes a destination has
\* used one that nobody else has.
TokensUsed ==
  /\ \A t \in Tokens : token[t] <= clock
  /\ \A t \in Tokens : key[t] # Never => token[t] # Never /\ key[t] >= token[t] + ReauthTtl
  /\ \A b \in Tabs : Uses(b) =>
       /\ key[tab[b].token] # Never
       /\ \A n \in Destinations : tab[b].token \notin spent[n]
  /\ \A b, c \in Tabs : Uses(b) /\ Uses(c) /\ b # c => tab[b].token # tab[c].token
  /\ \A n \in Destinations : \A t \in spent[n] : key[t] # Never

\* Destinations follow one another, the last is the active one, and a batch is drafted
\* for one that was.
InOrder == Made = 1 .. dest /\ draft \in {Never} \cup Made

DestinationInv ==
  /\ DestinationTypeOK /\ TokensUsed /\ InOrder
  /\ OneChangePerProof /\ ReplacementIsHeld

-----------------------------------------------------------------------------
(* Destination: every step *)
LEMMA DestinationInitHolds == DestinationInit => DestinationInv
<1> SUFFICES ASSUME DestinationInit PROVE DestinationInv
  OBVIOUS
<1> USE DestinationAssumption DEF DestinationInit
<1>1. \A n \in Destinations : spent[n] = {}
  OBVIOUS
<1>2. Made = {}
  BY <1>1 DEF Made
<1>3. DestinationTypeOK
  BY DEF DestinationTypeOK, Resting, Never, NoHold, Destinations
<1>4. \A b \in Tabs : ~Uses(b)
  BY DEF Uses, Resting, Granted, Writing
<1>5. TokensUsed
  BY <1>1, <1>4 DEF TokensUsed, Never
<1>6. InOrder
  BY <1>2 DEF InOrder
<1>7. OneChangePerProof /\ ReplacementIsHeld
  BY <1>2 DEF OneChangePerProof, ReplacementIsHeld
<1> QED
  BY <1>3, <1>5, <1>6, <1>7 DEF DestinationInv

LEMMA TabKinds ==
  ASSUME DestinationInv, NEW b \in Tabs
  PROVE  /\ tab[b] \in Tab
         /\ tab[b].step = "granted" => tab[b] \in Granted
         /\ tab[b].step = "writing" => tab[b] \in Writing
         /\ tab[b] # Resting => Uses(b)
BY DEF DestinationInv, DestinationTypeOK, Tab, Granted, Writing, Resting, Uses

LEMMA TickKeeps == DestinationInv /\ Tick => DestinationInv'
<1> SUFFICES ASSUME DestinationInv, Tick PROVE DestinationInv'
  OBVIOUS
<1>1. /\ clock' = clock + 1 /\ clock < Clock /\ token' = token /\ key' = key /\ tab' = tab
      /\ dest' = dest /\ spent' = spent /\ hold' = hold /\ draft' = draft /\ line' = line
  BY DEF Tick
<1>2. DestinationTypeOK'
  <2>1. clock \in 0 .. Clock /\ Clock \in Nat
    BY DestinationAssumption DEF DestinationInv, DestinationTypeOK
  <2>2. clock' \in 0 .. Clock /\ 0 .. Clock = (0 .. Clock)
    BY <1>1, <2>1
  <2> QED
    BY <1>1, <2>2 DEF DestinationInv, DestinationTypeOK
<1>3. \A t \in Tokens : token[t] <= clock'
  <2> TAKE t \in Tokens
  <2>1. token[t] \in Int /\ clock \in Int /\ token[t] <= clock
    BY DestinationAssumption DEF DestinationInv, DestinationTypeOK, TokensUsed, Never
  <2> QED
    BY <1>1, <2>1
<1> QED
  BY <1>1, <1>2, <1>3
    DEF DestinationInv, TokensUsed, InOrder, OneChangePerProof, ReplacementIsHeld, Uses, Made

LEMMA ReauthKeeps ==
  ASSUME DestinationInv, NEW t \in Tokens, Reauth(t)
  PROVE  DestinationInv'
<1>1. /\ token[t] = Never /\ token' = [token EXCEPT ![t] = clock] /\ clock' = clock /\ key' = key
      /\ tab' = tab /\ dest' = dest /\ spent' = spent /\ hold' = hold /\ draft' = draft /\ line' = line
  BY DEF Reauth
<1>2. token \in [Tokens -> {Never} \cup 0 .. Clock] /\ clock \in 0 .. Clock
  BY DEF DestinationInv, DestinationTypeOK
<1>3. token' \in [Tokens -> {Never} \cup 0 .. Clock]
  BY <1>1, <1>2
<1>4. DestinationTypeOK'
  BY <1>1, <1>3 DEF DestinationInv, DestinationTypeOK
<1>5. \A u \in Tokens : key[u] # Never => token'[u] = token[u]
  BY <1>1, <1>2 DEF DestinationInv, TokensUsed
<1>6. \A u \in Tokens : token'[u] <= clock
  BY <1>1, <1>2, DestinationAssumption DEF DestinationInv, TokensUsed
<1> QED
  BY <1>1, <1>4, <1>5, <1>6
    DEF DestinationInv, TokensUsed, InOrder, OneChangePerProof, ReplacementIsHeld, Uses, Made

\* A token can be used once: while its key is known it is refused, and when redis
\* forgets the key it has expired.
LEMMA ConsumeKeeps ==
  ASSUME DestinationInv, NEW b \in Tabs, NEW t \in Tokens, Consume(b, t)
  PROVE  DestinationInv'
<1> DEFINE x == [step |-> "granted", token |-> t]
<1>1. /\ tab[b] = Resting /\ token[t] # Never /\ clock < token[t] + ReauthTtl /\ key[t] <= clock
      /\ key' = [key EXCEPT ![t] = clock + ReauthTtl] /\ tab' = [tab EXCEPT ![b] = x]
      /\ clock' = clock /\ token' = token /\ dest' = dest /\ spent' = spent /\ hold' = hold
      /\ draft' = draft /\ line' = line
  <2>1. clock \in Nat /\ token[t] + ReauthTtl \in Int
    BY DestinationAssumption DEF DestinationInv, DestinationTypeOK, Never, Consume
  <2> QED
    BY <2>1 DEF Consume, Expired, KeyFree
<1>2. /\ clock \in Nat /\ clock \in 0 .. Clock /\ ReauthTtl \in Nat /\ token[t] \in Int
      /\ key \in [Tokens -> {Never} \cup Nat] /\ tab \in [Tabs -> Tab]
  BY DestinationAssumption DEF DestinationInv, DestinationTypeOK, Never, Tab, Granted, Writing
<1>3. key[t] = Never
  <2> SUFFICES ASSUME key[t] # Never PROVE FALSE
    OBVIOUS
  <2>1. key[t] >= token[t] + ReauthTtl /\ key[t] \in Nat
    BY <1>2 DEF DestinationInv, TokensUsed
  <2> QED
    BY <1>1, <1>2, <2>1
<1>4. x \in Granted /\ x.token = t /\ x \in Tab
  BY DEF Granted, Tab
<1>5. /\ tab' \in [Tabs -> Tab] /\ tab'[b] = x /\ \A c \in Tabs \ {b} : tab'[c] = tab[c]
  BY <1>1, <1>2, <1>4
<1>6. key' \in [Tokens -> {Never} \cup Nat] /\ key'[t] = clock + ReauthTtl
      /\ \A u \in Tokens \ {t} : key'[u] = key[u]
  BY <1>1, <1>2
<1>7. DestinationTypeOK'
  BY <1>1, <1>5, <1>6 DEF DestinationInv, DestinationTypeOK, Tab, Granted, Writing
<1>8. key'[t] # Never /\ \A u \in Tokens : key[u] # Never => key'[u] # Never
  BY <1>2, <1>3, <1>6 DEF Never
<1>9. \A u \in Tokens : key'[u] # Never => token[u] # Never /\ key'[u] >= token[u] + ReauthTtl
  <2> TAKE u \in Tokens
  <2>1. CASE u = t
    <3>1. token[t] <= clock
      BY <1>2 DEF DestinationInv, DestinationTypeOK, TokensUsed, Never
    <3> QED
      BY <1>1, <1>2, <1>6, <2>1, <3>1
  <2>2. CASE u # t
    BY <1>6, <2>2 DEF DestinationInv, TokensUsed
  <2> QED
    BY <2>1, <2>2
<1>10. TokensUsed'
  <2>1. \A c \in Tabs : Uses(c)' => c = b \/ Uses(c)
    BY <1>5 DEF Uses
  <2>2. \A c \in Tabs \ {b} : Uses(c) => tab[c].token # t
    BY <1>3 DEF DestinationInv, TokensUsed
  <2>3. \A n \in Destinations : t \notin spent[n]
    BY <1>3 DEF DestinationInv, TokensUsed
  <2>4. ASSUME NEW c \in Tabs, Uses(c)'
        PROVE  key'[tab'[c].token] # Never /\ \A n \in Destinations : tab'[c].token \notin spent[n]
    <3>1. CASE c = b
      BY <1>4, <1>5, <1>8, <2>3, <3>1
    <3>2. CASE c # b
      <4>1. Uses(c) /\ tab'[c] = tab[c] /\ tab[c].token \in Tokens
        BY <1>5, <2>1, <2>4, <3>2 DEF Uses, Granted, Writing
      <4> QED
        BY <1>8, <4>1 DEF DestinationInv, TokensUsed
    <3> QED
      BY <3>1, <3>2
  <2>5. ASSUME NEW c \in Tabs, NEW d \in Tabs, Uses(c)', Uses(d)', c # d
        PROVE  tab'[c].token # tab'[d].token
    <3>1. CASE c = b
      BY <1>4, <1>5, <2>1, <2>2, <2>5, <3>1
    <3>2. CASE d = b
      BY <1>4, <1>5, <2>1, <2>2, <2>5, <3>2
    <3>3. CASE c # b /\ d # b
      BY <1>5, <2>1, <2>5, <3>3 DEF DestinationInv, TokensUsed
    <3> QED
      BY <3>1, <3>2, <3>3
  <2>6. \A n \in Destinations : \A u \in spent[n] : key'[u] # Never
    <3>1. \A n \in Destinations : spent[n] \subseteq Tokens
      BY DEF DestinationInv, DestinationTypeOK
    <3> QED
      BY <1>8, <3>1 DEF DestinationInv, TokensUsed
  <2> QED
    BY <1>1, <1>9, <2>4, <2>5, <2>6 DEF DestinationInv, TokensUsed
<1> QED
  BY <1>1, <1>7, <1>10 DEF DestinationInv, InOrder, OneChangePerProof, ReplacementIsHeld, Made

\* A request that goes on with the token it used, or gives up.
LEMMA TabMoves ==
  ASSUME DestinationInv, NEW b \in Tabs, NEW x \in Tab, tab' = [tab EXCEPT ![b] = x],
         x # Resting => Uses(b) /\ x.token = tab[b].token,
         UNCHANGED <<clock, token, key, dest, spent, hold, draft, line>>
  PROVE  DestinationInv'
<1>1. /\ clock' = clock /\ token' = token /\ key' = key /\ dest' = dest /\ spent' = spent
      /\ hold' = hold /\ draft' = draft /\ line' = line
  OBVIOUS
<1>2. tab \in [Tabs -> Tab]
  BY DEF DestinationInv, DestinationTypeOK, Tab, Granted, Writing
<1>3. tab' \in [Tabs -> Tab] /\ tab'[b] = x /\ \A c \in Tabs \ {b} : tab'[c] = tab[c]
  BY <1>2
<1>4. DestinationTypeOK'
  BY <1>1, <1>3 DEF DestinationInv, DestinationTypeOK, Tab, Granted, Writing
<1>5. ASSUME NEW c \in Tabs, Uses(c)' PROVE Uses(c) /\ tab'[c].token = tab[c].token
  <2>1. Resting \notin Granted \cup Writing
    BY DEF Resting, Granted, Writing
  <2> QED
    BY <1>3, <1>5, <2>1 DEF Uses
<1>6. TokensUsed'
  <2>1. \A c \in Tabs : Uses(c)' =>
          key[tab'[c].token] # Never /\ \A n \in Destinations : tab'[c].token \notin spent[n]
    BY <1>5 DEF DestinationInv, TokensUsed
  <2>2. \A c, d \in Tabs : Uses(c)' /\ Uses(d)' /\ c # d => tab'[c].token # tab'[d].token
    BY <1>5 DEF DestinationInv, TokensUsed
  <2> QED
    BY <1>1, <2>1, <2>2 DEF DestinationInv, TokensUsed
<1> QED
  BY <1>1, <1>4, <1>6 DEF DestinationInv, InOrder, OneChangePerProof, ReplacementIsHeld, Made

LEMMA LockRowKeeps ==
  ASSUME DestinationInv, NEW b \in Tabs, LockRow(b)
  PROVE  DestinationInv'
<1>1. tab[b] \in Granted /\ Uses(b)
  BY TabKinds DEF LockRow, Resting, Uses
<1>2. dest \in 0 .. MaxChanges /\ 0 \in 0 .. MaxChanges
  BY DestinationAssumption DEF DestinationInv, DestinationTypeOK
<1>3. PICK p \in (IF RowLocked THEN {0} ELSE {dest}) :
        tab' = [tab EXCEPT ![b] = [step |-> "writing", token |-> tab[b].token, previous |-> p]]
  BY DEF LockRow
<1> DEFINE x == [step |-> "writing", token |-> tab[b].token, previous |-> p]
<1>4. p \in 0 .. MaxChanges
  BY <1>2, <1>3
<1>5. x \in Writing /\ x \in Tab /\ x.token = tab[b].token
  BY <1>1, <1>4 DEF Granted, Writing, Tab
<1>6. UNCHANGED <<clock, token, key, dest, spent, hold, draft, line>>
  BY DEF LockRow
<1> QED
  BY <1>1, <1>3, <1>5, <1>6, TabMoves

LEMMA TabFailKeeps ==
  ASSUME DestinationInv, NEW b \in Tabs, TabFails(b)
  PROVE  DestinationInv'
<1>1. Resting \in Tab
  BY DEF Tab
<1> QED
  BY <1>1, TabMoves DEF TabFails

\* A destination is set: the token that is spent for it was spent for no other, and one
\* that replaces another brings a hold.
LEMMA SetMethodKeeps ==
  ASSUME DestinationInv, NEW b \in Tabs, SetMethod(b)
  PROVE  DestinationInv'
<1> DEFINE x == tab[b]
<1>1. x \in Writing /\ Uses(b) /\ x.token \in Tokens /\ x.previous = dest
  BY TabKinds DEF SetMethod, OnlyActive, Writing, Uses
<1>2. PICK n \in Destinations \ Made :
        /\ 1 .. (n - 1) \subseteq Made
        /\ dest' = n
        /\ spent' = [spent EXCEPT ![n] = {x.token}]
        /\ hold' = IF x.previous = 0 THEN hold
                   ELSE [hold EXCEPT ![n] = [until |-> clock + HoldTime, released |-> FALSE]]
  BY DEF SetMethod
<1>3. /\ tab' = [tab EXCEPT ![b] = Resting] /\ clock' = clock /\ token' = token /\ key' = key
      /\ draft' = draft /\ line' = line
  BY DEF SetMethod
<1>4. /\ clock \in Nat /\ HoldTime \in Nat /\ dest \in Nat /\ MaxChanges \in Nat
      /\ hold \in [Destinations -> HoldRow] /\ spent \in [Destinations -> SUBSET Tokens]
      /\ tab \in [Tabs -> Tab] /\ Made = 1 .. dest
  BY DestinationAssumption
    DEF DestinationInv, DestinationTypeOK, InOrder, HoldRow, Tab, Granted, Writing
<1>5. n = dest + 1 /\ n \in 1 .. MaxChanges
  <2>1. n \in Nat \ {0} /\ n \notin 1 .. dest /\ n \in 1 .. MaxChanges
    BY <1>2, <1>4 DEF Destinations
  <2>2. n > dest
    BY <1>4, <2>1
  <2>3. n - 1 # 0 => n - 1 \in 1 .. dest
    <3>1. n - 1 # 0 => n - 1 \in 1 .. (n - 1)
      BY <2>1
    <3> QED
      BY <1>2, <1>4, <3>1
  <2> QED
    BY <1>4, <2>1, <2>2, <2>3
<1>6. /\ spent' \in [Destinations -> SUBSET Tokens] /\ spent'[n] = {x.token}
      /\ \A m \in Destinations \ {n} : spent'[m] = spent[m]
  BY <1>1, <1>2, <1>4
<1>7. Made' = 1 .. dest'
  <2>1. Made' = Made \cup {n}
    BY <1>2, <1>6 DEF Made
  <2>2. (1 .. dest) \cup {dest + 1} = 1 .. (dest + 1)
    BY <1>4
  <2> QED
    BY <1>2, <1>4, <1>5, <2>1, <2>2
<1>8. /\ tab' \in [Tabs -> Tab] /\ tab'[b] = Resting /\ \A c \in Tabs \ {b} : tab'[c] = tab[c]
  BY <1>3, <1>4 DEF Tab
<1>9. hold' \in [Destinations -> HoldRow]
  <2>1. [until |-> clock + HoldTime, released |-> FALSE] \in HoldRow
    BY <1>4 DEF HoldRow
  <2> QED
    BY <1>2, <1>4, <2>1
<1>10. DestinationTypeOK'
  <2>1. dest' \in 0 .. MaxChanges
    BY <1>2, <1>4, <1>5
  <2> QED
    BY <1>3, <1>6, <1>8, <1>9, <2>1
      DEF DestinationInv, DestinationTypeOK, HoldRow, Tab, Granted, Writing
<1>11. TokensUsed'
  <2>1. ASSUME NEW c \in Tabs, Uses(c)' PROVE c # b /\ Uses(c) /\ tab'[c] = tab[c]
    <3>1. Resting \notin Granted \cup Writing
      BY DEF Resting, Granted, Writing
    <3> QED
      BY <1>8, <2>1, <3>1 DEF Uses
  <2>2. ASSUME NEW c \in Tabs, Uses(c)', NEW m \in Destinations PROVE tab'[c].token \notin spent'[m]
    <3>1. c # b /\ Uses(c) /\ tab'[c] = tab[c]
      BY <2>1, <2>2
    <3>2. tab[c].token # x.token /\ tab[c].token \notin spent[m]
      BY <1>1, <3>1 DEF DestinationInv, TokensUsed
    <3> QED
      BY <1>6, <3>1, <3>2
  <2>3. \A m \in Destinations : \A t \in spent'[m] : key[t] # Never
    BY <1>1, <1>6 DEF DestinationInv, TokensUsed
  <2> QED
    BY <1>3, <2>1, <2>2, <2>3 DEF DestinationInv, TokensUsed
<1>12. InOrder'
  BY <1>3, <1>7, <1>4, <1>2, <1>5 DEF DestinationInv, InOrder
<1>13. OneChangePerProof'
  <2>1. \A m \in Destinations : x.token \notin spent[m]
    BY <1>1 DEF DestinationInv, TokensUsed
  <2>2. ASSUME NEW l \in Made', NEW m \in Made', l # m PROVE spent'[l] \cap spent'[m] = {}
    <3>1. l \in Destinations /\ m \in Destinations
      BY DEF Made
    <3>2. l # n => l \in Made
      BY <1>6, <3>1, <2>2 DEF Made
    <3>3. m # n => m \in Made
      BY <1>6, <3>1, <2>2 DEF Made
    <3> QED
      BY <1>6, <2>1, <2>2, <3>1, <3>2, <3>3 DEF DestinationInv, OneChangePerProof
  <2> QED
    BY <2>2 DEF OneChangePerProof
<1>14. ReplacementIsHeld'
  <2>1. ASSUME NEW m \in Made', m # 1 PROVE hold'[m] # NoHold
    <3>1. CASE m = n
      <4>1. x.previous # 0
        BY <1>1, <1>4, <1>5, <2>1, <3>1
      <4>2. hold'[n] = [until |-> clock + HoldTime, released |-> FALSE]
        BY <1>2, <1>4, <4>1
      <4>3. clock + HoldTime # Never
        BY <1>4 DEF Never
      <4> QED
        BY <3>1, <4>2, <4>3 DEF NoHold
    <3>2. CASE m # n
      <4>1. m \in Made /\ m \in Destinations
        BY <1>6, <2>1, <3>2 DEF Made
      <4>2. hold'[m] = hold[m]
        BY <1>2, <1>4, <3>2, <4>1
      <4> QED
        BY <2>1, <4>1, <4>2 DEF DestinationInv, ReplacementIsHeld
    <3> QED
      BY <3>1, <3>2
  <2> QED
    BY <2>1 DEF ReplacementIsHeld
<1> QED
  BY <1>10, <1>11, <1>12, <1>13, <1>14 DEF DestinationInv

LEMMA ReleaseHoldKeeps ==
  ASSUME DestinationInv, NEW n \in Destinations, ReleaseHold(n)
  PROVE  DestinationInv'
<1>1. /\ hold' = [hold EXCEPT ![n] = [@ EXCEPT !.released = TRUE]]
      /\ clock' = clock /\ token' = token /\ key' = key /\ tab' = tab /\ dest' = dest
      /\ spent' = spent /\ draft' = draft /\ line' = line
  BY DEF ReleaseHold
<1>2. hold \in [Destinations -> HoldRow]
  BY DEF DestinationInv, DestinationTypeOK, HoldRow
<1>3. /\ hold' \in [Destinations -> HoldRow] /\ hold'[n].released = TRUE
      /\ \A m \in Destinations \ {n} : hold'[m] = hold[m]
  BY <1>1, <1>2 DEF HoldRow
<1>4. DestinationTypeOK'
  BY <1>1, <1>3 DEF DestinationInv, DestinationTypeOK, HoldRow
<1>5. Made' = Made /\ Made \subseteq Destinations
  BY <1>1 DEF Made
<1>6. ReplacementIsHeld'
  <2>1. ASSUME NEW m \in Made', m # 1 PROVE hold'[m] # NoHold
    <3>1. CASE m = n
      BY <1>3, <3>1 DEF NoHold
    <3>2. CASE m # n
      <4>1. m \in Made /\ m \in Destinations
        BY <1>5, <2>1
      <4>2. hold[m] # NoHold
        BY <2>1, <4>1 DEF DestinationInv, ReplacementIsHeld
      <4> QED
        BY <1>3, <3>2, <4>1, <4>2
    <3> QED
      BY <3>1, <3>2
  <2> QED
    BY <2>1 DEF ReplacementIsHeld
<1> QED
  BY <1>1, <1>4, <1>5, <1>6 DEF DestinationInv, TokensUsed, InOrder, OneChangePerProof, Uses

LEMMA DraftKeeps == DestinationInv /\ (DraftReads \/ DraftWrites) => DestinationInv'
<1> SUFFICES ASSUME DestinationInv, DraftReads \/ DraftWrites PROVE DestinationInv'
  OBVIOUS
<1>1. /\ clock' = clock /\ token' = token /\ key' = key /\ tab' = tab /\ dest' = dest
      /\ spent' = spent /\ hold' = hold
  BY DEF DraftReads, DraftWrites
<1>2. Made = 1 .. dest /\ dest \in Nat /\ Made \subseteq Destinations /\ Made' = Made
  BY <1>1, DestinationAssumption DEF DestinationInv, DestinationTypeOK, InOrder, Made
<1>3. draft' \in {Never} \cup Made
  BY <1>2 DEF DraftReads, DraftWrites
<1>4. line' \subseteq Destinations
  BY <1>2 DEF DraftReads, DraftWrites, DestinationInv, DestinationTypeOK, InOrder
<1>5. DestinationTypeOK'
  BY <1>1, <1>2, <1>3, <1>4 DEF DestinationInv, DestinationTypeOK
<1> QED
  BY <1>1, <1>2, <1>3, <1>5
     DEF DestinationInv, TokensUsed, InOrder, OneChangePerProof, ReplacementIsHeld, Uses

LEMMA DestinationStepHolds == DestinationInv /\ [DestinationNext]_destinationVars => DestinationInv'
<1> SUFFICES ASSUME DestinationInv, [DestinationNext]_destinationVars PROVE DestinationInv'
  OBVIOUS
<1>1. CASE UNCHANGED destinationVars
  BY <1>1 DEF destinationVars, DestinationInv, DestinationTypeOK, TokensUsed, InOrder,
              OneChangePerProof, ReplacementIsHeld, Uses, Made
<1>2. CASE Tick \/ DraftReads \/ DraftWrites
  BY <1>2, TickKeeps, DraftKeeps
<1>3. CASE \E t \in Tokens : Reauth(t)
  BY <1>3, ReauthKeeps
<1>4. CASE \E b \in Tabs : LockRow(b) \/ SetMethod(b) \/ TabFails(b) \/ \E t \in Tokens : Consume(b, t)
  BY <1>4, LockRowKeeps, SetMethodKeeps, TabFailKeeps, ConsumeKeeps
<1>5. CASE \E n \in Destinations : ReleaseHold(n)
  BY <1>5, ReleaseHoldKeeps
<1> QED
  BY <1>1, <1>2, <1>3, <1>4, <1>5 DEF DestinationNext

\* The inductive invariant holds of every behaviour of the payout destination
\* (vendors/onboarding.py, ledger/payouts.py), however requests overlap and fail.
THEOREM DestinationHolds == DestinationSpec => []DestinationInv
<1> QED
  BY DestinationInitHolds, DestinationStepHolds, PTL DEF DestinationSpec

\* Only the writing of a batch adds to what is paid out, and it looks at every hold.
LEMMA OnlySeasonedStep ==
  DestinationInv /\ [DestinationNext]_destinationVars =>
    [\A n \in line' \ line : ~Holding(n) /\ (n # 1 => hold[n] # NoHold)]_destinationVars
<1> SUFFICES ASSUME DestinationInv, DestinationNext, NEW n \in line' \ line
             PROVE  ~Holding(n) /\ (n # 1 => hold[n] # NoHold)
  OBVIOUS
<1>1. DraftWrites
  BY
    DEF DestinationNext, Tick, DraftReads, Reauth, LockRow, SetMethod, TabFails, Consume,
        ReleaseHold
<1>2. n = draft /\ draft # Never /\ ~OnHold
  BY <1>1 DEF DraftWrites
<1>3. n \in Made /\ n \in Destinations
  BY <1>2 DEF DestinationInv, InOrder, Made
<1> QED
  BY <1>2, <1>3 DEF OnHold, DestinationInv, ReplacementIsHeld

\* A proof of the phone changes the destination once, a replacement is held, and no
\* payout is drafted for one whose hold has not run out (vendors/onboarding.py
\* set_payout_method, ledger/payouts.py build_batch), for any number of tokens, requests
\* and destinations.
THEOREM DestinationSafeHolds == DestinationSpec => DestinationSafe
<1>1. DestinationInv => DestinationTypeOK /\ OneChangePerProof /\ ReplacementIsHeld
  BY DEF DestinationInv
<1> QED
  BY <1>1, OnlySeasonedStep, DestinationHolds, PTL
    DEF DestinationSpec, DestinationSafe, OnlySeasoned

-----------------------------------------------------------------------------
(* Team: the inductive invariant *)

StaffRow == [role : {"none", "owner"} \cup StaffRoles, status : Access]
CrewRow == [role : {"none", "owner"} \cup CrewRoles, status : Access]

TeamTypes ==
  /\ staff \in [People -> StaffRow]
  /\ crew \in [People -> CrewRow]
  /\ DOMAIN act = People /\ DOMAIN raisedBy = People
  /\ acts \in 0 .. MaxActs

\* What was looked at when a request began and still counts when it commits: it is
\* not about the founder, it gives no owner's role, and whoever makes a manager was
\* an owner then.
Sound(a) ==
  /\ a.op \in {"rest", "invite", "staff", "add", "crew"}
  /\ a.op # "rest" => a.who \in People
  /\ a.op = "invite" => a.role \in StaffRoles
  /\ a.op = "staff" =>
       /\ a.who # Founder
       /\ a.role \in StaffRoles \cup {"kept"} /\ a.status \in Access \cup {"kept"}
  /\ a.op = "add" => a.role \in CrewRoles
  /\ a.op = "crew" =>
       /\ a.who # Founder
       /\ a.role \in CrewRoles \cup {"kept"} /\ a.status \in Access \cup {"kept"}
  /\ a.op \in {"add", "crew"} /\ a.role = "manager" => a.as = "owner"

TeamInv ==
  /\ TeamTypes
  /\ OneOwner
  /\ ManagersByOwner
  /\ \A p \in People : Sound(act[p])

-----------------------------------------------------------------------------
(* Team: requests that begin and end *)

\* A request that begins with what is sound leaves the rows alone.
LEMMA BeginsSound ==
  ASSUME TeamInv, NEW p \in People, NEW a, Sound(a), Starts(p, a)
  PROVE  TeamInv'
<1>1. /\ act' = [act EXCEPT ![p] = a] /\ acts' = acts + 1 /\ acts < MaxActs
      /\ staff' = staff /\ crew' = crew /\ raisedBy' = raisedBy
  BY DEF Starts
<1>2. TeamTypes'
  BY <1>1, TeamAssumption DEF TeamInv, TeamTypes, TeamAssumption
<1>3. OneOwner' /\ ManagersByOwner'
  BY <1>1 DEF TeamInv, OneOwner, ManagersByOwner
<1>4. ASSUME NEW q \in People
      PROVE  Sound(act[q])'
  <2>1. act'[q] = IF q = p THEN a ELSE act[q]
    BY <1>1 DEF TeamInv, TeamTypes
  <2>2. Sound(act'[q])
    BY <2>1 DEF TeamInv
  <2> QED
    BY <2>2 DEF Sound
<1> QED
  BY <1>2, <1>3, <1>4 DEF TeamInv

\* A person whose request has ended has none.
LEMMA EndsSound ==
  ASSUME TeamInv, NEW p \in People, act' = [act EXCEPT ![p] = AtRest]
  PROVE  DOMAIN act' = People /\ \A q \in People : Sound(act[q])'
<1>1. DOMAIN act' = People
  BY DEF TeamInv, TeamTypes
<1>2. ASSUME NEW q \in People
      PROVE  Sound(act[q])'
  <2>1. act'[q] = IF q = p THEN AtRest ELSE act[q]
    BY DEF TeamInv, TeamTypes
  <2>2. Sound(AtRest)
    BY DEF Sound, AtRest
  <2>3. Sound(act'[q])
    BY <2>1, <2>2 DEF TeamInv
  <2> QED
    BY <2>3 DEF Sound
<1> QED
  BY <1>1, <1>2

\* A role that only changes where the request has one.
LEMMA PatchedRole ==
  ASSUME NEW row, NEW a, NEW Roles, row.role \in Roles, row.status \in Access,
         a.role \in Roles \cup {"kept"}, a.status \in Access \cup {"kept"}
  PROVE  /\ Patch(row, a) = [role |-> IF a.role = "kept" THEN row.role ELSE a.role,
                             status |-> IF a.status = "kept" THEN row.status ELSE a.status]
         /\ Patch(row, a) \in [role : Roles, status : Access]
  BY DEF Patch, Written

-----------------------------------------------------------------------------
(* Team: the steps of a person *)

LEMMA InviteKeeps ==
  ASSUME TeamInv, NEW p \in People, NEW q \in People, NEW role \in StaffRoles,
         InvitesStaff(p, q, role)
  PROVE  TeamInv'
<1> DEFINE a == [op |-> "invite", who |-> q, role |-> role]
<1>1. Sound(a)
  BY DEF Sound
<1>2. Starts(p, a)
  BY DEF InvitesStaff
<1> QED
  BY <1>1, <1>2, BeginsSound

LEMMA InviteCommitKeeps ==
  ASSUME TeamInv, NEW p \in People, InviteCommits(p)
  PROVE  TeamInv'
<1> DEFINE w == act[p].who
           new == [role |-> act[p].role, status |-> "active"]
<1>1. /\ act[p].op = "invite" /\ staff[w] = Nobody
      /\ staff' = [staff EXCEPT ![w] = new]
      /\ act' = [act EXCEPT ![p] = AtRest]
      /\ crew' = crew /\ acts' = acts /\ raisedBy' = raisedBy
  BY DEF InviteCommits
<1>2. w \in People /\ act[p].role \in StaffRoles
  BY <1>1 DEF TeamInv, Sound
<1>3. w # Founder
  BY <1>1 DEF TeamInv, OneOwner, Boss, Nobody
<1>4. new \in StaffRow /\ new.role # "owner"
  BY <1>2 DEF StaffRow, Access, StaffRoles
<1>5. DOMAIN act' = People /\ \A q \in People : Sound(act[q])'
  BY <1>1, EndsSound
<1>6. TeamTypes'
  BY <1>1, <1>2, <1>4, <1>5 DEF TeamInv, TeamTypes
<1>7. \A q \in People : staff'[q] = IF q = w THEN new ELSE staff[q]
  BY <1>1 DEF TeamInv, TeamTypes
<1>8. OneOwner'
  BY <1>1, <1>3, <1>4, <1>7, TeamAssumption DEF TeamInv, OneOwner, TeamAssumption
<1>9. ManagersByOwner'
  BY <1>1 DEF TeamInv, ManagersByOwner
<1> QED
  BY <1>5, <1>6, <1>8, <1>9 DEF TeamInv

LEMMA StaffUpdateKeeps ==
  ASSUME TeamInv, NEW p \in People, NEW q \in People, NEW role \in StaffRoles,
         NEW access \in Access, UpdatesStaff(p, q, role, access)
  PROVE  TeamInv'
<1> DEFINE a == Patched("staff", staff[p].role, staff[q], q, role, access)
<1>1. Starts(p, a) /\ staff[q].role \notin {"none", "owner"}
  BY DEF UpdatesStaff, StaffMayChange
<1>2. q # Founder
  BY <1>1 DEF TeamInv, OneOwner, Boss
<1>3. Sound(a)
  BY <1>2 DEF Sound, Patched, Column
<1> QED
  BY <1>1, <1>3, BeginsSound

LEMMA StaffCommitKeeps ==
  ASSUME TeamInv, NEW p \in People, StaffCommits(p)
  PROVE  TeamInv'
<1> DEFINE w == act[p].who
           new == Patch(staff[w], act[p])
           Roles == {"none", "owner"} \cup StaffRoles
<1>1. /\ act[p].op = "staff"
      /\ staff' = [staff EXCEPT ![w] = new]
      /\ act' = [act EXCEPT ![p] = AtRest]
      /\ crew' = crew /\ acts' = acts /\ raisedBy' = raisedBy
  BY DEF StaffCommits
<1>2. /\ w \in People /\ w # Founder
      /\ act[p].role \in StaffRoles \cup {"kept"} /\ act[p].status \in Access \cup {"kept"}
  BY <1>1 DEF TeamInv, Sound
<1>3. staff[w].role \in Roles /\ staff[w].status \in Access
  BY <1>2 DEF TeamInv, TeamTypes, StaffRow
<1>4. act[p].role \in Roles \cup {"kept"}
  BY <1>2
<1>5. /\ new = [role |-> IF act[p].role = "kept" THEN staff[w].role ELSE act[p].role,
                status |-> IF act[p].status = "kept" THEN staff[w].status ELSE act[p].status]
      /\ new \in [role : Roles, status : Access]
  <2> HIDE DEF Roles
  <2> QED
    BY <1>2, <1>3, <1>4, PatchedRole
<1>6. new \in StaffRow
  BY <1>5 DEF StaffRow
<1>7. staff[w].role # "owner"
  BY <1>2 DEF TeamInv, OneOwner
<1>8. new.role # "owner"
  BY <1>2, <1>5, <1>7 DEF StaffRoles
<1> HIDE DEF new
<1>9. DOMAIN act' = People /\ \A q \in People : Sound(act[q])'
  BY <1>1, EndsSound
<1>10. TeamTypes'
  BY <1>1, <1>2, <1>6, <1>9 DEF TeamInv, TeamTypes
<1>11. \A q \in People : staff'[q] = IF q = w THEN new ELSE staff[q]
  BY <1>1 DEF TeamInv, TeamTypes
<1>12. OneOwner'
  BY <1>1, <1>2, <1>8, <1>11, TeamAssumption DEF TeamInv, OneOwner, TeamAssumption
<1>13. ManagersByOwner'
  BY <1>1 DEF TeamInv, ManagersByOwner
<1> QED
  BY <1>9, <1>10, <1>12, <1>13 DEF TeamInv

LEMMA AddKeeps ==
  ASSUME TeamInv, NEW p \in People, NEW q \in People, NEW role \in CrewRoles,
         AddsCrew(p, q, role)
  PROVE  TeamInv'
<1> DEFINE a == [op |-> "add", who |-> q, role |-> role, as |-> crew[p].role]
<1>1. Starts(p, a) /\ crew[p].role \in {"owner", "manager"}
  BY DEF AddsCrew, Manages
<1>2. crew[p].role = "manager" => role # "manager"
  BY DEF AddsCrew
<1>3. Sound(a)
  BY <1>1, <1>2 DEF Sound
<1> QED
  BY <1>1, <1>3, BeginsSound

LEMMA AddCommitKeeps ==
  ASSUME TeamInv, NEW p \in People, AddCommits(p)
  PROVE  TeamInv'
<1> DEFINE w == act[p].who
           new == [role |-> act[p].role, status |-> "active"]
<1>1. /\ act[p].op = "add" /\ crew[w] = Nobody
      /\ crew' = [crew EXCEPT ![w] = new]
      /\ raisedBy' = [raisedBy EXCEPT ![w] = act[p].as]
      /\ act' = [act EXCEPT ![p] = AtRest]
      /\ staff' = staff /\ acts' = acts
  BY DEF AddCommits
<1>2. /\ w \in People /\ act[p].role \in CrewRoles
      /\ act[p].role = "manager" => act[p].as = "owner"
  BY <1>1 DEF TeamInv, Sound
<1>3. w # Founder
  BY <1>1 DEF TeamInv, OneOwner, Boss, Nobody
<1>4. new \in CrewRow /\ new.role # "owner"
  BY <1>2 DEF CrewRow, Access, CrewRoles
<1>5. DOMAIN act' = People /\ \A q \in People : Sound(act[q])'
  BY <1>1, EndsSound
<1>6. TeamTypes'
  BY <1>1, <1>2, <1>4, <1>5 DEF TeamInv, TeamTypes
<1>7. \A q \in People : /\ crew'[q] = IF q = w THEN new ELSE crew[q]
                        /\ raisedBy'[q] = IF q = w THEN act[p].as ELSE raisedBy[q]
  BY <1>1 DEF TeamInv, TeamTypes
<1>8. OneOwner'
  BY <1>1, <1>3, <1>4, <1>7, TeamAssumption DEF TeamInv, OneOwner, TeamAssumption
<1>9. ManagersByOwner'
  BY <1>2, <1>7 DEF TeamInv, ManagersByOwner
<1> QED
  BY <1>5, <1>6, <1>8, <1>9 DEF TeamInv

LEMMA CrewUpdateKeeps ==
  ASSUME TeamInv, NEW p \in People, NEW q \in People, NEW role \in CrewRoles,
         NEW access \in Access, UpdatesCrew(p, q, role, access)
  PROVE  TeamInv'
<1> DEFINE a == Patched("crew", crew[p].role, crew[q], q, role, access)
<1>1. /\ Starts(p, a) /\ crew[p].role \in {"owner", "manager"}
      /\ crew[q].role # "owner"
      /\ crew[p].role = "manager" => role # "manager"
  BY DEF UpdatesCrew, CrewMayChange, Manages
<1>2. q # Founder
  BY <1>1 DEF TeamInv, OneOwner, Boss
<1>3. Sound(a)
  BY <1>1, <1>2 DEF Sound, Patched, Column
<1> QED
  BY <1>1, <1>3, BeginsSound

LEMMA CrewCommitKeeps ==
  ASSUME TeamInv, NEW p \in People, CrewCommits(p)
  PROVE  TeamInv'
<1> DEFINE w == act[p].who
           new == Patch(crew[w], act[p])
           Roles == {"none", "owner"} \cup CrewRoles
<1>1. /\ act[p].op = "crew"
      /\ crew' = [crew EXCEPT ![w] = new]
      /\ raisedBy' = IF act[p].role = "kept" THEN raisedBy ELSE [raisedBy EXCEPT ![w] = act[p].as]
      /\ act' = [act EXCEPT ![p] = AtRest]
      /\ staff' = staff /\ acts' = acts
  BY DEF CrewCommits
<1>2. /\ w \in People /\ w # Founder
      /\ act[p].role \in CrewRoles \cup {"kept"} /\ act[p].status \in Access \cup {"kept"}
      /\ act[p].role = "manager" => act[p].as = "owner"
  BY <1>1 DEF TeamInv, Sound
<1>3. crew[w].role \in Roles /\ crew[w].status \in Access
  BY <1>2 DEF TeamInv, TeamTypes, CrewRow
<1>4. act[p].role \in Roles \cup {"kept"}
  BY <1>2
<1>5. /\ new = [role |-> IF act[p].role = "kept" THEN crew[w].role ELSE act[p].role,
                status |-> IF act[p].status = "kept" THEN crew[w].status ELSE act[p].status]
      /\ new \in [role : Roles, status : Access]
  <2> HIDE DEF Roles
  <2> QED
    BY <1>2, <1>3, <1>4, PatchedRole
<1>6. new \in CrewRow /\ new.role = IF act[p].role = "kept" THEN crew[w].role ELSE act[p].role
  BY <1>5 DEF CrewRow
<1>7. new.role # "owner"
  BY <1>2, <1>6 DEF TeamInv, OneOwner, CrewRoles
<1> HIDE DEF new
<1>8. DOMAIN act' = People /\ \A q \in People : Sound(act[q])'
  BY <1>1, EndsSound
<1>9. TeamTypes'
  BY <1>1, <1>2, <1>6, <1>8 DEF TeamInv, TeamTypes
<1>10. \A q \in People :
         /\ crew'[q] = IF q = w THEN new ELSE crew[q]
         /\ raisedBy'[q] = IF q = w /\ act[p].role # "kept" THEN act[p].as ELSE raisedBy[q]
  BY <1>1 DEF TeamInv, TeamTypes
<1>11. OneOwner'
  BY <1>1, <1>2, <1>7, <1>10, TeamAssumption DEF TeamInv, OneOwner, TeamAssumption
<1>12. ManagersByOwner'
  BY <1>2, <1>6, <1>10 DEF TeamInv, ManagersByOwner
<1> QED
  BY <1>8, <1>9, <1>11, <1>12 DEF TeamInv

LEMMA GiveUpKeeps ==
  ASSUME TeamInv, NEW p \in People, Gives(p)
  PROVE  TeamInv'
<1>1. /\ act' = [act EXCEPT ![p] = AtRest]
      /\ staff' = staff /\ crew' = crew /\ acts' = acts /\ raisedBy' = raisedBy
  BY DEF Gives
<1>2. DOMAIN act' = People /\ \A q \in People : Sound(act[q])'
  BY <1>1, EndsSound
<1> QED
  BY <1>1, <1>2 DEF TeamInv, TeamTypes, OneOwner, ManagersByOwner

-----------------------------------------------------------------------------
LEMMA TeamInitHolds == TeamInit => TeamInv
<1> SUFFICES ASSUME TeamInit
             PROVE  TeamInv
  OBVIOUS
<1>1. TeamTypes
  BY TeamAssumption
     DEF TeamInit, TeamTypes, TeamAssumption, StaffRow, CrewRow, Nobody, Boss, Access
<1>2. OneOwner /\ ManagersByOwner
  BY TeamAssumption DEF TeamInit, OneOwner, ManagersByOwner, TeamAssumption, Nobody, Boss
<1>3. \A p \in People : Sound(act[p])
  BY DEF TeamInit, Sound, AtRest
<1> QED
  BY <1>1, <1>2, <1>3 DEF TeamInv

LEMMA TeamStepHolds == TeamInv /\ [TeamNext]_teamVars => TeamInv'
<1> SUFFICES ASSUME TeamInv, [TeamNext]_teamVars
             PROVE  TeamInv'
  OBVIOUS
<1>1. CASE UNCHANGED teamVars
  BY <1>1 DEF teamVars, TeamInv, TeamTypes, OneOwner, ManagersByOwner, Sound
<1>2. ASSUME NEW p \in People,
             \/ InviteCommits(p) \/ StaffCommits(p) \/ AddCommits(p) \/ CrewCommits(p) \/ Gives(p)
      PROVE  TeamInv'
  BY <1>2, InviteCommitKeeps, StaffCommitKeeps, AddCommitKeeps, CrewCommitKeeps, GiveUpKeeps
<1>3. ASSUME NEW p \in People, NEW q \in People, NEW role \in StaffRoles,
             InvitesStaff(p, q, role) \/ \E access \in Access : UpdatesStaff(p, q, role, access)
      PROVE  TeamInv'
  BY <1>3, InviteKeeps, StaffUpdateKeeps
<1>4. ASSUME NEW p \in People, NEW q \in People, NEW role \in CrewRoles,
             AddsCrew(p, q, role) \/ \E access \in Access : UpdatesCrew(p, q, role, access)
      PROVE  TeamInv'
  BY <1>4, AddKeeps, CrewUpdateKeeps
<1> QED
  BY <1>1, <1>2, <1>3, <1>4 DEF TeamNext

\* The inductive invariant holds of every behaviour of the staff and the crew
\* (identity/staff_router.py), however requests on one member cross.
THEOREM TeamHolds == TeamSpec => []TeamInv
<1> QED
  BY TeamInitHolds, TeamStepHolds, PTL DEF TeamSpec

\* There is one owner of the shop and one of the vendor, and a manager was made one by
\* the owner (identity/staff_router.py: update_staff, update_vendor_staff), for any
\* number of people and of requests that cross.
THEOREM TeamSafeHolds == TeamSpec => []TeamSafe
<1>1. TeamInv => TeamSafe
  <2> SUFFICES ASSUME TeamInv
               PROVE  TeamSafe
    OBVIOUS
  <2>1. \A p \in People :
          /\ staff[p].role \in {"none", "owner"} \cup StaffRoles /\ staff[p].status \in Access
          /\ crew[p].role \in {"none", "owner"} \cup CrewRoles /\ crew[p].status \in Access
    BY DEF TeamInv, TeamTypes, StaffRow, CrewRow
  <2>2. \A p \in People : act[p].op \in {"rest", "invite", "staff", "add", "crew"}
    BY DEF TeamInv, Sound
  <2> QED
    BY <2>1, <2>2 DEF TeamInv, TeamTypes, TeamTypeOK, TeamSafe
<1> QED
  BY <1>1, TeamHolds, PTL

-----------------------------------------------------------------------------
(* Support: the inductive invariant *)

TicketRow == [number : Nat, status : TicketStatus, responded : BOOLEAN]
CreateCall == [op : {"create"}, about : Tickets, number : Nat]
AddCall == [op : {"add"}, about : Tickets, kind : Kinds, internal : BOOLEAN,
            responded : BOOLEAN, written : BOOLEAN]
Call == {NoCall} \cup CreateCall \cup AddCall
SupportTypes ==
    /\ nextNumber \in Nat /\ nextNumber > 0
    /\ ticket \in [Tickets -> TicketRow]
    /\ posted \in [Tickets -> [Kinds -> Nat]]
    /\ lastWord \in [Tickets -> Kinds \cup {"nobody"}] /\ byHand \in [Tickets -> BOOLEAN]
    /\ postsMade \in 0 .. MaxPosts
    /\ caller \in [Callers -> Call]

\* Who opens a ticket holds the counter, and nobody else is about that ticket; a message
\* is about a ticket that is there.
CallSound(c) ==
    /\ caller[c].op = "create" =>
         /\ caller[c].number = nextNumber /\ ~Exists(caller[c].about)
         /\ \A d \in Callers \ {c} :
              caller[d].op # "create" /\ (Calls(d) => caller[d].about # caller[c].about)
    /\ caller[c].op = "add" => Exists(caller[c].about)
Unborn == \A t \in Tickets : ~Exists(t) => ticket[t].status = "open" /\ ~ticket[t].responded

SupportInv ==
    /\ SupportTypes /\ Unborn
    /\ TicketNumbers /\ FirstResponse /\ WaitsForTheOther
    /\ \A c \in Callers : CallSound(c)

LEMMA CallKinds ==
    /\ \A x \in Call : /\ x.op = "create" <=> x \in CreateCall
                       /\ x.op = "add" <=> x \in AddCall
                       /\ x # NoCall <=> x.op # "none"
                       /\ x # NoCall => x.about \in Tickets
    /\ NoCall \in Call /\ NoCall.op = "none"
<1>1. /\ NoCall.op = "none"
      /\ \A x \in CreateCall : x.op = "create" /\ x.about \in Tickets
      /\ \A x \in AddCall : x.op = "add" /\ x.about \in Tickets
  BY DEF NoCall, CreateCall, AddCall
<1> QED
  BY <1>1 DEF Call

LEMMA SupportInitHolds == SupportInit => SupportInv
<1> SUFFICES ASSUME SupportInit
             PROVE  SupportInv
  OBVIOUS
<1>1. NoTicket \in TicketRow /\ NoTicket.number = 0 /\ NoTicket.status = "open"
      /\ NoTicket.responded = FALSE
  BY DEF NoTicket, TicketRow, TicketStatus
<1>2. SupportTypes
  BY <1>1, CallKinds, SupportAssumption DEF SupportAssumption, SupportInit, SupportTypes
<1>3. \A t \in Tickets : ~Exists(t) /\ ticket[t] = NoTicket /\ posted[t]["staff"] = 0
  BY <1>1 DEF SupportInit, Exists, Kinds
<1>4. TicketNumbers
  <2>1. {t \in Tickets : Exists(t)} = {}
    BY <1>3
  <2>2. 1 .. nextNumber - 1 = {} /\ nextNumber - 1 = 0
    BY DEF SupportInit
  <2> QED
    BY <2>1, <2>2, FS_EmptySet DEF TicketNumbers
<1>5. Unborn /\ FirstResponse /\ WaitsForTheOther
  BY <1>1, <1>3 DEF Unborn, FirstResponse, WaitsForTheOther
<1>6. \A c \in Callers : CallSound(c)
  BY CallKinds DEF SupportInit, CallSound
<1> QED
  BY <1>2, <1>4, <1>5, <1>6 DEF SupportInv

\* A request begins, goes on or ends, and writes no row.
LEMMA CallsChange ==
    ASSUME SupportInv, NEW c \in Callers, NEW x \in Call, caller' = [caller EXCEPT ![c] = x],
           UNCHANGED <<ticketVars, postsMade>>,
           x.op = "create" =>
             /\ x.number = nextNumber /\ ~Exists(x.about)
             /\ \A d \in Callers : caller[d].op # "create"
                                   /\ (Calls(d) => caller[d].about # x.about),
           x.op = "add" => Exists(x.about)
    PROVE  SupportInv'
<1>1. caller'[c] = x /\ \A d \in Callers \ {c} : caller'[d] = caller[d]
  BY DEF SupportInv, SupportTypes
<1>2. SupportTypes'
  BY DEF SupportInv, SupportTypes, ticketVars
<1>3. Unborn' /\ FirstResponse' /\ WaitsForTheOther'
  BY DEF SupportInv, Unborn, FirstResponse, WaitsForTheOther, Exists, ticketVars
<1>4. TicketNumbers'
  BY DEF SupportInv, TicketNumbers, Exists, ticketVars
<1>5. \A d \in Callers : CallSound(d)'
  <2> SUFFICES ASSUME NEW d \in Callers
               PROVE  CallSound(d)'
    OBVIOUS
  <2>1. caller[c] # NoCall => caller[c].op # "none"
    BY CallKinds DEF SupportInv, SupportTypes
  <2>2. CASE d = c
    BY <1>1, <2>2 DEF CallSound, Exists, Calls, ticketVars
  <2>3. CASE d # c
    <3>1. CallSound(d) /\ caller'[d] = caller[d]
      BY <1>1, <2>3 DEF SupportInv
    <3>2. caller[d].op = "create" => Calls(d)
      BY CallKinds DEF Calls
    <3>3. x.op = "create" => caller[d].op # "create"
      OBVIOUS
    <3>4. x # NoCall /\ caller[d].op = "create" => x.about # caller[d].about
      <4>1. x.op \in {"none", "create", "add"}
        BY CallKinds DEF Call
      <4>2. ASSUME x.op = "add", caller[d].op = "create"
            PROVE  x.about # caller[d].about
        BY <3>1, <4>2 DEF CallSound
      <4>3. x # NoCall => x.op # "none"
        BY CallKinds
      <4> QED
        BY <3>3, <4>1, <4>2, <4>3
    <3> QED
      BY <1>1, <2>3, <3>1, <3>2, <3>3, <3>4 DEF CallSound, Exists, Calls, ticketVars
  <2> QED
    BY <2>2, <2>3
<1> QED
  BY <1>2, <1>3, <1>4, <1>5 DEF SupportInv

LEMMA CallsKeep ==
    ASSUME SupportInv, NEW c \in Callers,
           \/ \E t \in Tickets : OpensTicket(c, t) \/ WordReads(c, t)
           \/ WordWrites(c) \/ CallerFails(c)
    PROVE  SupportInv'
<1>1. ASSUME NEW t \in Tickets, OpensTicket(c, t)
      PROVE  SupportInv'
  <2>1. PICK x : x = [op |-> "create", about |-> t, number |-> nextNumber]
    OBVIOUS
  <2>2. /\ caller' = [caller EXCEPT ![c] = x] /\ ~Exists(t) /\ UNCHANGED <<ticketVars, postsMade>>
        /\ \A d \in Callers : Calls(d) => caller[d].op # "create" /\ caller[d].about # t
    BY <1>1, <2>1 DEF OpensTicket, Says, CounterHeld
  <2>3. x \in Call /\ x.op = "create" /\ x.about = t /\ x.number = nextNumber
    BY <2>1 DEF Call, CreateCall, SupportInv, SupportTypes
  <2>4. \A d \in Callers : caller[d].op # "create"
    BY <2>2, CallKinds DEF Calls
  <2> QED
    BY <2>2, <2>3, <2>4, CallsChange
<1>2. ASSUME NEW t \in Tickets, WordReads(c, t)
      PROVE  SupportInv'
  <2>1. PICK kind \in Kinds, internal \in BOOLEAN :
          Says(c, [op |-> "add", about |-> t, kind |-> kind, internal |-> internal,
                   responded |-> ticket[t].responded, written |-> FALSE])
    BY <1>2 DEF WordReads
  <2>2. PICK x : x = [op |-> "add", about |-> t, kind |-> kind, internal |-> internal,
                      responded |-> ticket[t].responded, written |-> FALSE]
    OBVIOUS
  <2>3. ticket[t].responded \in BOOLEAN
    BY DEF SupportInv, SupportTypes, TicketRow
  <2>4. x \in Call /\ x.op = "add" /\ x.about = t
    BY <2>2, <2>3 DEF Call, AddCall
  <2>5. caller' = [caller EXCEPT ![c] = x] /\ Exists(t) /\ UNCHANGED <<ticketVars, postsMade>>
    BY <1>2, <2>1, <2>2 DEF WordReads, Says
  <2> QED
    BY <2>4, <2>5, CallsChange
<1>3. ASSUME WordWrites(c)
      PROVE  SupportInv'
  <2>1. PICK x : x = [caller[c] EXCEPT !.written = TRUE]
    OBVIOUS
  <2>2. caller[c] \in AddCall /\ Exists(caller[c].about)
    BY <1>3, CallKinds DEF WordWrites, SupportInv, SupportTypes, CallSound
  <2>3. x \in AddCall /\ x.about = caller[c].about
    BY <2>1, <2>2 DEF AddCall
  <2>4. x \in Call /\ x.op = "add"
    BY <2>3 DEF Call, AddCall
  <2>5. caller' = [caller EXCEPT ![c] = x] /\ UNCHANGED <<ticketVars, postsMade>>
    BY <1>3, <2>1 DEF WordWrites, Says
  <2> QED
    BY <2>2, <2>3, <2>4, <2>5, CallsChange
<1>4. ASSUME CallerFails(c)
      PROVE  SupportInv'
  <2>1. caller' = [caller EXCEPT ![c] = NoCall] /\ UNCHANGED <<ticketVars, postsMade>>
    BY <1>4 DEF CallerFails, HangUp
  <2>2. NoCall \in Call /\ NoCall.op # "create" /\ NoCall.op # "add"
    BY CallKinds
  <2> QED
    BY <2>1, <2>2, CallsChange
<1> QED
  BY <1>1, <1>2, <1>3, <1>4

-----------------------------------------------------------------------------
(* Support: rows are written *)

\* The numbers stay when no ticket comes to be.
LEMMA NumbersKeep ==
    ASSUME TicketNumbers, UNCHANGED nextNumber,
           \A t \in Tickets : ticket'[t].number = ticket[t].number
    PROVE  TicketNumbers' /\ \A t \in Tickets : Exists(t)' <=> Exists(t)
<1>1. \A t \in Tickets : Exists(t)' <=> Exists(t)
  BY DEF Exists
<1> QED
  BY <1>1 DEF TicketNumbers

LEMMA TicketCommitsKeeps ==
    ASSUME SupportInv, NEW c \in Callers, TicketCommits(c)
    PROVE  SupportInv'
<1>1. PICK x, t, n : x = caller[c] /\ t = x.about /\ n = x.number
  OBVIOUS
<1>2. /\ x.op = "create"
      /\ nextNumber' = n + 1
      /\ ticket' = [ticket EXCEPT ![t] = [ticket[t] EXCEPT !.number = n]]
      /\ posted' = [posted EXCEPT ![t] = [posted[t] EXCEPT !["customer"] = 1]]
      /\ lastWord' = [lastWord EXCEPT ![t] = "customer"]
      /\ caller' = [caller EXCEPT ![c] = NoCall]
      /\ UNCHANGED <<byHand, postsMade>>
  BY <1>1 DEF TicketCommits, HangUp
<1>3. /\ t \in Tickets /\ n = nextNumber /\ n \in Nat /\ n > 0 /\ ~Exists(t)
      /\ \A d \in Callers \ {c} : caller[d].op # "create" /\ (Calls(d) => caller[d].about # t)
  BY <1>1, <1>2, CallKinds DEF SupportInv, SupportTypes, CallSound, Calls
<1>4. SupportTypes
  BY DEF SupportInv
<1>5. ticket[t] \in TicketRow /\ posted[t] \in [Kinds -> Nat]
  BY <1>3, <1>4 DEF SupportTypes
<1>6. PICK row : row = [ticket[t] EXCEPT !.number = n]
  OBVIOUS
<1>7. /\ row \in TicketRow /\ row.number = n
      /\ row.status = ticket[t].status /\ row.responded = ticket[t].responded
  BY <1>3, <1>5, <1>6 DEF TicketRow
<1>8. PICK said : said = [posted[t] EXCEPT !["customer"] = 1]
  OBVIOUS
<1>9. said \in [Kinds -> Nat] /\ said["staff"] = posted[t]["staff"]
  BY <1>5, <1>8 DEF Kinds
<1>10. /\ ticket' \in [Tickets -> TicketRow] /\ ticket'[t] = row
       /\ posted' \in [Tickets -> [Kinds -> Nat]] /\ posted'[t] = said
       /\ \A u \in Tickets \ {t} : ticket'[u] = ticket[u] /\ posted'[u] = posted[u]
       /\ \A u \in Tickets \ {t} : lastWord'[u] = lastWord[u]
  BY <1>2, <1>3, <1>4, <1>6, <1>7, <1>8, <1>9 DEF SupportTypes
<1>11. /\ lastWord' \in [Tickets -> Kinds \cup {"nobody"}]
       /\ caller' \in [Callers -> Call] /\ caller'[c] = NoCall
       /\ \A d \in Callers \ {c} : caller'[d] = caller[d]
  BY <1>2, <1>4, CallKinds DEF SupportTypes, Kinds
<1>12. SupportTypes'
  BY <1>2, <1>3, <1>4, <1>10, <1>11 DEF SupportTypes
<1>13. Exists(t)' /\ \A u \in Tickets \ {t} : ticket'[u] = ticket[u] /\ (Exists(u)' <=> Exists(u))
  BY <1>3, <1>7, <1>10 DEF Exists
<1>14. ticket[t].status = "open" /\ ~ticket[t].responded
  BY <1>3 DEF SupportInv, Unborn
<1>15. Unborn'
  BY <1>13 DEF SupportInv, Unborn
<1>16. FirstResponse'
  BY <1>7, <1>9, <1>10 DEF SupportInv, FirstResponse
<1>17. WaitsForTheOther'
  BY <1>2, <1>7, <1>10, <1>14 DEF SupportInv, WaitsForTheOther
<1>18. TicketNumbers'
  <2> DEFINE old == {u \in Tickets : Exists(u)}
             now == {u \in Tickets : Exists(u)'}
  <2>1. now = old \cup {t} /\ t \notin old /\ old \subseteq Tickets
    BY <1>3, <1>13
  <2>2. \A u \in old : ticket'[u].number = ticket[u].number
    BY <2>1, <1>10
  <2>3. {ticket[u].number : u \in old} = 1 .. nextNumber - 1
        /\ Cardinality(old) = nextNumber - 1
    BY DEF SupportInv, TicketNumbers
  <2>4. {ticket'[u].number : u \in now} = {ticket[u].number : u \in old} \cup {n}
    <3> HIDE DEF old, now
    <3> QED
      BY <1>7, <1>10, <2>1, <2>2
  <2>5. {ticket'[u].number : u \in now} = 1 .. nextNumber' - 1
    <3>1. nextNumber' - 1 = n /\ 1 .. n = (1 .. n - 1) \cup {n}
      BY <1>2, <1>3
    <3> HIDE DEF old, now
    <3> QED
      BY <1>3, <2>3, <2>4, <3>1
  <2>6. IsFiniteSet(old)
    BY <2>1, SupportAssumption, FS_Subset DEF SupportAssumption
  <2>7. Cardinality(now) = Cardinality(old) + 1
    <3> HIDE DEF old, now
    <3> QED
      BY <2>1, <2>6, FS_AddElement
  <2>8. Cardinality(now) = nextNumber' - 1
    BY <1>2, <1>3, <2>3, <2>7
  <2> QED
    BY <2>5, <2>8 DEF TicketNumbers
<1>19. \A d \in Callers : CallSound(d)'
  <2> SUFFICES ASSUME NEW d \in Callers
               PROVE  CallSound(d)'
    OBVIOUS
  <2>1. caller'[d].op # "create"
    BY <1>3, <1>11, CallKinds
  <2>2. caller'[d].op = "add" => Exists(caller[d].about)'
    <3> SUFFICES ASSUME caller'[d].op = "add"
                 PROVE  Exists(caller[d].about)'
      OBVIOUS
    <3>1. d # c /\ caller'[d] = caller[d] /\ caller[d].op = "add"
      BY <1>11, CallKinds
    <3>2. PICK u : u = caller'[d].about
      OBVIOUS
    <3>3. u \in Tickets /\ Exists(u) /\ u # t
      BY <1>3, <3>1, <3>2, CallKinds DEF SupportInv, SupportTypes, CallSound, Calls
    <3>4. Exists(u)'
      BY <1>13, <3>3
    <3> QED
      BY <3>2, <3>4 DEF Exists
  <2> QED
    BY <2>1, <2>2 DEF CallSound
<1> QED
  BY <1>12, <1>15, <1>16, <1>17, <1>18, <1>19 DEF SupportInv

\* A message commits: the answer and what it does to the ticket are one.
LEMMA WordCommitsKeeps ==
    ASSUME SupportInv, NEW c \in Callers, WordCommits(c)
    PROVE  SupportInv'
<1>1. PICK x, t : x = caller[c] /\ t = x.about
  OBVIOUS
<1>2. /\ x.op = "add" /\ postsMade < MaxPosts /\ postsMade' = postsMade + 1
      /\ caller' = [caller EXCEPT ![c] = NoCall] /\ UNCHANGED nextNumber
  BY <1>1 DEF WordCommits, HangUp
<1>3. SupportTypes /\ x \in AddCall /\ t \in Tickets /\ x.kind \in Kinds
      /\ x.internal \in BOOLEAN
  BY <1>1, <1>2, CallKinds DEF SupportInv, SupportTypes, AddCall
<1>4. postsMade' \in 0 .. MaxPosts
  BY <1>2, <1>3, SupportAssumption DEF SupportAssumption, SupportTypes
<1>5. /\ caller' \in [Callers -> Call] /\ caller'[c] = NoCall
      /\ \A d \in Callers \ {c} : caller'[d] = caller[d]
  BY <1>2, <1>3, CallKinds DEF SupportTypes
<1>6. \A d \in Callers : caller'[d] # NoCall => caller'[d] = caller[d]
  BY <1>5
<1>7. ASSUME \A u \in Tickets : Exists(u)' <=> Exists(u)
      PROVE  \A d \in Callers : CallSound(d)'
  <2> SUFFICES ASSUME NEW d \in Callers
               PROVE  CallSound(d)'
    OBVIOUS
  <2>1. CASE d = c
    BY <1>5, <2>1, CallKinds DEF CallSound
  <2>2. CASE d # c
    <3>1. PICK y : y = caller[d]
      OBVIOUS
    <3>2. caller'[d] = y /\ CallSound(d) /\ y \in Call
      BY <1>3, <1>5, <2>2, <3>1 DEF SupportInv, SupportTypes
    <3>3. PICK u : u = y.about
      OBVIOUS
    <3>4. y.op \in {"create", "add"} => u \in Tickets /\ (Exists(u)' <=> Exists(u))
      BY <1>7, <3>2, <3>3, CallKinds
    <3>5. y.op = "create" =>
            \A e \in Callers \ {d} : caller'[e].op # "create" /\ (Calls(e)' => caller'[e].about # u)
      BY <1>5, <3>1, <3>2, <3>3, CallKinds DEF CallSound, Calls
    <3> QED
      BY <1>2, <3>1, <3>2, <3>3, <3>4, <3>5 DEF CallSound, Exists
  <2> QED
    BY <2>1, <2>2
<1>8. CASE x.internal
  <2>1. UNCHANGED <<ticket, byHand, posted, lastWord>>
    BY <1>1, <1>8 DEF WordCommits, Moves
  <2>2. \A u \in Tickets : Exists(u)' <=> Exists(u)
    BY <2>1 DEF Exists
  <2>3. SupportTypes'
    BY <1>2, <1>3, <1>4, <1>5, <2>1 DEF SupportTypes
  <2>4. Unborn' /\ FirstResponse' /\ WaitsForTheOther'
    BY <2>1 DEF SupportInv, Unborn, FirstResponse, WaitsForTheOther, Exists
  <2>5. TicketNumbers'
    BY <1>2, <2>1, NumbersKeep DEF SupportInv
  <2> QED
    BY <1>7, <2>2, <2>3, <2>4, <2>5 DEF SupportInv
<1>9. CASE ~x.internal
  <2>1. PICK st, rs :
          st = Awaits(x.kind) /\ rs = Responded(x)
    OBVIOUS
  <2>2. /\ ticket' = [ticket EXCEPT ![t].status = st, ![t].responded = rs]
        /\ byHand' = [byHand EXCEPT ![t] = FALSE]
        /\ posted' = [posted EXCEPT ![t] = [posted[t] EXCEPT ![x.kind] = posted[t][x.kind] + 1]]
        /\ lastWord' = [lastWord EXCEPT ![t] = x.kind]
    BY <1>1, <1>9, <2>1 DEF WordCommits, Moves
  <2>3. ticket[t] \in TicketRow /\ posted[t] \in [Kinds -> Nat]
    BY <1>3 DEF SupportTypes
  <2>4. /\ st \in TicketStatus /\ rs \in BOOLEAN
        /\ rs <=> ticket[t].responded \/ x.kind = "staff"
    BY <1>1, <2>1, <2>3 DEF Awaits, Responded, TicketStatus, TicketRow
  <2>5. PICK row : row = [ticket[t] EXCEPT !.status = st, !.responded = rs]
    OBVIOUS
  <2>6. /\ row \in TicketRow /\ row.number = ticket[t].number
        /\ row.status = st /\ row.responded = rs
    BY <2>3, <2>4, <2>5 DEF TicketRow
  <2>7. ticket' = [ticket EXCEPT ![t] = row]
    BY <1>3, <2>2, <2>5 DEF SupportTypes
  <2>8. PICK said : said = [posted[t] EXCEPT ![x.kind] = posted[t][x.kind] + 1]
    OBVIOUS
  <2>9. /\ said \in [Kinds -> Nat]
        /\ said["staff"] > 0 <=> posted[t]["staff"] > 0 \/ x.kind = "staff"
    BY <1>3, <2>3, <2>8 DEF Kinds
  <2>10. /\ ticket' \in [Tickets -> TicketRow] /\ ticket'[t] = row
         /\ posted' \in [Tickets -> [Kinds -> Nat]] /\ posted'[t] = said
         /\ byHand' \in [Tickets -> BOOLEAN]
         /\ lastWord' \in [Tickets -> Kinds \cup {"nobody"}] /\ lastWord'[t] = x.kind
         /\ \A u \in Tickets \ {t} :
              /\ ticket'[u] = ticket[u] /\ posted'[u] = posted[u]
              /\ byHand'[u] = byHand[u] /\ lastWord'[u] = lastWord[u]
    BY <1>3, <2>2, <2>6, <2>7, <2>8, <2>9 DEF SupportTypes
  <2>11. SupportTypes'
    BY <1>2, <1>3, <1>4, <1>5, <2>10 DEF SupportTypes
  <2>12. \A u \in Tickets : ticket'[u].number = ticket[u].number
    BY <2>6, <2>10
  <2>13. TicketNumbers' /\ \A u \in Tickets : Exists(u)' <=> Exists(u)
    BY <1>2, <2>12, NumbersKeep DEF SupportInv
  <2>14. FirstResponse'
    BY <2>4, <2>6, <2>9, <2>10 DEF SupportInv, FirstResponse
  <2>15. WaitsForTheOther'
    BY <2>1, <2>6, <2>10 DEF SupportInv, WaitsForTheOther
  <2>16. Exists(t)
    BY <1>1, <1>2 DEF SupportInv, CallSound
  <2>17. Unborn'
    BY <2>10, <2>13, <2>16 DEF SupportInv, Unborn
  <2> QED
    BY <1>7, <2>11, <2>13, <2>14, <2>15, <2>17 DEF SupportInv
<1> QED
  BY <1>3, <1>8, <1>9

LEMMA SetStatusKeeps ==
    ASSUME SupportInv, NEW t \in Tickets, SetStatus(t)
    PROVE  SupportInv'
<1>1. PICK to \in TicketStatus : ticket' = [ticket EXCEPT ![t] = [ticket[t] EXCEPT !.status = to]]
  BY DEF SetStatus
<1>2. /\ Exists(t) /\ byHand' = [byHand EXCEPT ![t] = TRUE] /\ postsMade < MaxPosts
      /\ postsMade' = postsMade + 1 /\ UNCHANGED <<nextNumber, posted, lastWord, caller>>
  BY DEF SetStatus
<1>3. SupportTypes
  BY DEF SupportInv
<1>4. PICK row : row = [ticket[t] EXCEPT !.status = to]
  OBVIOUS
<1>5. ticket[t] \in TicketRow
  BY <1>3 DEF SupportTypes
<1>6. row \in TicketRow /\ row.number = ticket[t].number /\ row.responded = ticket[t].responded
  BY <1>4, <1>5 DEF TicketRow
<1>7. /\ ticket' \in [Tickets -> TicketRow] /\ ticket'[t] = row
      /\ byHand' \in [Tickets -> BOOLEAN] /\ byHand'[t]
      /\ \A u \in Tickets \ {t} : ticket'[u] = ticket[u] /\ byHand'[u] = byHand[u]
  BY <1>1, <1>2, <1>3, <1>4, <1>6 DEF SupportTypes
<1>8. postsMade' \in 0 .. MaxPosts
  BY <1>2, <1>3, SupportAssumption DEF SupportAssumption, SupportTypes
<1>9. SupportTypes'
  BY <1>2, <1>3, <1>7, <1>8 DEF SupportTypes
<1>10. \A u \in Tickets : ticket'[u].number = ticket[u].number
  BY <1>6, <1>7
<1>11. TicketNumbers' /\ \A u \in Tickets : Exists(u)' <=> Exists(u)
  BY <1>2, <1>10, NumbersKeep DEF SupportInv
<1>12. FirstResponse' /\ WaitsForTheOther' /\ Unborn'
  BY <1>2, <1>6, <1>7, <1>11 DEF SupportInv, FirstResponse, WaitsForTheOther, Unborn
<1>13. \A d \in Callers : CallSound(d)'
  <2> SUFFICES ASSUME NEW d \in Callers
               PROVE  CallSound(d)'
    OBVIOUS
  <2>1. CallSound(d) /\ caller[d] \in Call
    BY <1>3 DEF SupportInv, SupportTypes
  <2>2. PICK u : u = caller[d].about
    OBVIOUS
  <2>3. caller[d].op \in {"create", "add"} => (Exists(u)' <=> Exists(u))
    BY <1>11, <2>1, <2>2, CallKinds
  <2> QED
    BY <1>2, <2>1, <2>2, <2>3 DEF CallSound, Calls, Exists
<1> QED
  BY <1>9, <1>11, <1>12, <1>13 DEF SupportInv

-----------------------------------------------------------------------------
LEMMA SupportStepHolds == SupportInv /\ [SupportNext]_supportVars => SupportInv'
<1> SUFFICES ASSUME SupportInv, [SupportNext]_supportVars
             PROVE  SupportInv'
  OBVIOUS
<1>1. CASE UNCHANGED supportVars
  BY <1>1
  DEF supportVars, ticketVars, SupportInv, SupportTypes, Unborn, TicketNumbers, FirstResponse,
      WaitsForTheOther, CallSound, Calls, Exists
<1> QED
  BY <1>1, CallsKeep, TicketCommitsKeeps, WordCommitsKeeps, SetStatusKeeps DEF SupportNext

\* What support keeps in every state (notifications/support.py): rows of their types,
\* ticket numbers without a gap or a second use though requests overlap and fail, the
\* first response, and a status that waits for whoever did not write last.
THEOREM SupportSafeHolds == SupportSpec => []SupportSafe
<1>1. SupportInv => SupportSafe
  <2> SUFFICES ASSUME SupportInv
               PROVE  SupportTypeOK
    BY DEF SupportInv, SupportSafe
  <2> DEFINE all == {t \in Tickets : Exists(t)}
  <2>1. IsFiniteSet(Tickets) /\ all \subseteq Tickets
    BY SupportAssumption DEF SupportAssumption
  <2>2. Cardinality(all) <= Cardinality(Tickets) /\ Cardinality(Tickets) \in Nat
    BY <2>1, FS_Subset, FS_CardinalityType
  <2>3. Cardinality(all) = nextNumber - 1 /\ nextNumber \in Nat /\ nextNumber > 0
    BY DEF SupportInv, SupportTypes, TicketNumbers
  <2>4. \A t \in Tickets : ticket[t].number \in 0 .. Cardinality(Tickets)
    <3> SUFFICES ASSUME NEW t \in Tickets, Exists(t)
                 PROVE  ticket[t].number \in 0 .. Cardinality(Tickets)
      BY <2>2 DEF Exists
    <3>1. ticket[t].number \in 1 .. nextNumber - 1
      BY DEF SupportInv, TicketNumbers
    <3> QED
      BY <2>2, <2>3, <3>1
  <2>5. ticket \in [Tickets -> [number : 0 .. Cardinality(Tickets), status : TicketStatus,
                                responded : BOOLEAN]]
    <3>1. \A t \in Tickets : ticket[t] \in [number : 0 .. Cardinality(Tickets),
                                            status : TicketStatus, responded : BOOLEAN]
      BY <2>4 DEF SupportInv, SupportTypes, TicketRow
    <3> QED
      BY <3>1 DEF SupportInv, SupportTypes
  <2> QED
    BY <2>2, <2>3, <2>5 DEF SupportInv, SupportTypes, SupportTypeOK
<1> QED
  BY <1>1, SupportInitHolds, SupportStepHolds, PTL DEF SupportSpec

-----------------------------------------------------------------------------
(* Reviews: the inductive invariant *)

SendDesk == [op : {"send"}, begins : BOOLEAN]
ReplyDesk == [op : {"reply"}, item : Items]
ReadDesk == [op : {"read"}, upto : 0 .. MaxLetters]
ReviewDesk == [op : {"write", "moderate"}, item : Items, to : Statuses \ {"none"},
               refreshes : BOOLEAN, counts : SUBSET Items]
DeskTxn == {Unused} \cup SendDesk \cup ReplyDesk \cup ReadDesk \cup ReviewDesk
Threads == [status : {"none", "open", "blocked"}, sent : 0 .. MaxLetters,
            seen : 0 .. MaxLetters, unread : 0 .. MaxLetters]

\* What an open transaction has counted was published before, or is the review that it
\* publishes itself; an answer is to a review that was; a list ends before the last letter.
DeskSound(x) ==
    /\ x.op \in {"write", "moderate"} =>
         x.counts \subseteq everShown \cup (IF x.to = "published" THEN {x.item} ELSE {})
    /\ x.op = "reply" => x.item \in everShown
    /\ x.op = "read" => x.upto <= thread.sent
VotesFinite == \A i \in Items : IsFiniteSet(votes[i])

ReviewsInv ==
    /\ ReviewsTypeOK
    /\ Shown(review) \subseteq everShown /\ StarsWereShown
    /\ VotesFinite /\ VotesCount /\ UnreadIsThere
    /\ \A d \in Desks : DeskSound(desk[d])

LEMMA DeskKinds ==
    /\ ReviewsTypeOK <=>
        /\ review \in [Items -> Statuses] /\ everShown \subseteq Items
        /\ answered \subseteq Items /\ stars \subseteq Items
        /\ votes \in [Items -> SUBSET Readers] /\ helpful \in [Items -> Nat]
        /\ edits \in 0 .. MaxEdits /\ thread \in Threads
        /\ desk \in [Desks -> DeskTxn]
    /\ \A x \in DeskTxn : /\ x.op = "send" <=> x \in SendDesk
                          /\ x.op = "reply" <=> x \in ReplyDesk
                          /\ x.op = "read" <=> x \in ReadDesk
                          /\ x.op \in {"write", "moderate"} <=> x \in ReviewDesk
    /\ Unused.op = "unused" /\ Unused \in DeskTxn
<1>1. /\ Unused.op = "unused"
      /\ \A x \in SendDesk : x.op = "send"
      /\ \A x \in ReplyDesk : x.op = "reply"
      /\ \A x \in ReadDesk : x.op = "read"
      /\ \A x \in ReviewDesk : x.op \in {"write", "moderate"}
  BY DEF Unused, SendDesk, ReplyDesk, ReadDesk, ReviewDesk
<1>2. ReviewsTypeOK <=>
        /\ review \in [Items -> Statuses] /\ everShown \subseteq Items
        /\ answered \subseteq Items /\ stars \subseteq Items
        /\ votes \in [Items -> SUBSET Readers] /\ helpful \in [Items -> Nat]
        /\ edits \in 0 .. MaxEdits /\ thread \in Threads
        /\ desk \in [Desks -> DeskTxn]
  BY DEF ReviewsTypeOK, DeskTxn, SendDesk, ReplyDesk, ReadDesk, ReviewDesk, Threads
<1> QED
  BY <1>1, <1>2 DEF DeskTxn

LEMMA ReviewsInitHolds == ReviewsInit => ReviewsInv
<1> SUFFICES ASSUME ReviewsInit
             PROVE  ReviewsInv
  OBVIOUS
<1>1. thread = [status |-> "none", sent |-> 0, seen |-> 0, unread |-> 0]
      /\ 0 \in 0 .. MaxLetters /\ 0 \in 0 .. MaxEdits
  BY ReviewsAssumption DEF ReviewsAssumption, ReviewsInit
<1>2. ReviewsTypeOK
  BY <1>1, DeskKinds DEF ReviewsInit, Threads, Statuses
<1>3. Shown(review) \subseteq everShown /\ StarsWereShown
  BY DEF ReviewsInit, Shown, StarsWereShown
<1>4. VotesFinite /\ VotesCount
  BY FS_EmptySet DEF ReviewsInit, VotesFinite, VotesCount
<1>5. UnreadIsThere
  BY <1>1 DEF UnreadIsThere
<1>6. \A d \in Desks : DeskSound(desk[d])
  BY DeskKinds DEF ReviewsInit, DeskSound
<1> QED
  BY <1>2, <1>3, <1>4, <1>5, <1>6 DEF ReviewsInv

\* A transaction begins, or ends without a trace.
LEMMA DeskChanges ==
    ASSUME ReviewsInv, NEW d \in Desks, NEW x \in DeskTxn, desk' = [desk EXCEPT ![d] = x],
           DeskSound(x), edits' \in 0 .. MaxEdits, UNCHANGED <<ratings, votes, helpful, thread>>
    PROVE  ReviewsInv'
<1>1. ReviewsTypeOK'
  BY DeskKinds DEF ReviewsInv, ReviewsTypeOK, DeskTxn, SendDesk, ReplyDesk, ReadDesk,
     ReviewDesk, ratings
<1>2. (Shown(review) \subseteq everShown)' /\ StarsWereShown' /\ UnreadIsThere'
  BY DEF ReviewsInv, Shown, StarsWereShown, UnreadIsThere, ratings
<1>3. VotesFinite' /\ VotesCount'
  BY DEF ReviewsInv, VotesFinite, VotesCount
<1>4. \A e \in Desks : DeskSound(desk[e])'
  <2>1. \A e \in Desks : desk'[e] = IF e = d THEN x ELSE desk[e]
    BY DeskKinds DEF ReviewsInv
  <2>2. \A e \in Desks : DeskSound(desk'[e])
    BY <2>1 DEF ReviewsInv
  <2> QED
    BY <2>2 DEF DeskSound, ratings
<1> QED
  BY <1>1, <1>2, <1>3, <1>4 DEF ReviewsInv

LEMMA DesksKeep ==
    ASSUME ReviewsInv, NEW d \in Desks,
           \/ \E i \in Items : WriteReview(d, i) \/ Moderate(d, i) \/ ReplyReads(d, i)
           \/ SendReads(d) \/ ThreadLists(d) \/ ReviewFails(d)
    PROVE  ReviewsInv'
<1>1. /\ review \in [Items -> Statuses] /\ edits \in 0 .. MaxEdits /\ thread \in Threads
      /\ MaxEdits \in Nat /\ Shown(review) \subseteq everShown
  BY DeskKinds, ReviewsAssumption DEF ReviewsAssumption, ReviewsInv
<1>2. ASSUME NEW i \in Items, NEW op \in {"write", "moderate"}, NEW to \in Statuses \ {"none"},
             NEW refreshes \in BOOLEAN, Begins(d, op, i, to, refreshes),
             edits' \in 0 .. MaxEdits, UNCHANGED <<ratings, votes, helpful, thread>>
      PROVE  ReviewsInv'
  <2> DEFINE counts == Shown([review EXCEPT ![i] = to])
  <2>1. PICK x : x = [op |-> op, item |-> i, to |-> to, refreshes |-> refreshes,
                      counts |-> counts]
    OBVIOUS
  <2>2. counts \subseteq Items
        /\ counts \subseteq everShown \cup (IF to = "published" THEN {i} ELSE {})
    BY <1>1 DEF Shown
  <2>3. desk' = [desk EXCEPT ![d] = x]
    BY <1>2, <2>1 DEF Begins
  <2> HIDE DEF counts
  <2>4. x \in DeskTxn /\ x.op = op /\ x.item = i /\ x.to = to /\ x.counts = counts
    BY <2>1, <2>2 DEF DeskTxn, ReviewDesk
  <2>5. DeskSound(x)
    BY <2>2, <2>4 DEF DeskSound
  <2> QED
    BY <1>2, <2>3, <2>4, <2>5, DeskChanges
<1>3. ASSUME NEW i \in Items, WriteReview(d, i)
      PROVE  ReviewsInv'
  <2>1. PICK to \in {"pending", "published"} : Begins(d, "write", i, to, to = "published")
    BY <1>3 DEF WriteReview
  <2>2. PICK refreshes \in BOOLEAN : refreshes = (to = "published")
    OBVIOUS
  <2>3. Begins(d, "write", i, to, refreshes) /\ to \in Statuses \ {"none"}
    BY <2>1, <2>2 DEF Begins, Statuses
  <2>4. edits' \in 0 .. MaxEdits /\ UNCHANGED <<ratings, votes, helpful, thread>>
    BY <1>1, <1>3 DEF WriteReview
  <2> QED
    BY <1>2, <2>3, <2>4
<1>4. ASSUME NEW i \in Items, Moderate(d, i)
      PROVE  ReviewsInv'
  <2>1. PICK to \in {"published", "rejected", "hidden"} : Begins(d, "moderate", i, to, TRUE)
    BY <1>4 DEF Moderate
  <2>2. to \in Statuses \ {"none"}
    BY DEF Statuses
  <2>3. edits' \in 0 .. MaxEdits /\ UNCHANGED <<ratings, votes, helpful, thread>>
    BY <1>1, <1>4 DEF Moderate
  <2> QED
    BY <1>2, <2>1, <2>2, <2>3
<1>5. ASSUME NEW i \in Items, ReplyReads(d, i)
      PROVE  ReviewsInv'
  <2>1. PICK x : x = [op |-> "reply", item |-> i]
    OBVIOUS
  <2>2. i \in everShown
    BY <1>1, <1>5 DEF ReplyReads, Answerable, Shown
  <2>3. x \in DeskTxn /\ DeskSound(x)
    BY <2>1, <2>2 DEF DeskTxn, ReplyDesk, DeskSound
  <2>4. /\ desk' = [desk EXCEPT ![d] = x] /\ edits' \in 0 .. MaxEdits
        /\ UNCHANGED <<ratings, votes, helpful, thread>>
    BY <1>1, <1>5, <2>1 DEF ReplyReads
  <2> QED
    BY <2>3, <2>4, DeskChanges
<1>6. ASSUME SendReads(d)
      PROVE  ReviewsInv'
  <2>1. PICK begins \in BOOLEAN : begins = (thread.status = "none")
    OBVIOUS
  <2>2. PICK x : x = [op |-> "send", begins |-> begins]
    OBVIOUS
  <2>3. x \in DeskTxn /\ DeskSound(x)
    BY <2>2 DEF DeskTxn, SendDesk, DeskSound
  <2>4. /\ desk' = [desk EXCEPT ![d] = x] /\ edits' \in 0 .. MaxEdits
        /\ UNCHANGED <<ratings, votes, helpful, thread>>
    BY <1>1, <1>6, <2>1, <2>2 DEF SendReads
  <2> QED
    BY <2>3, <2>4, DeskChanges
<1>7. ASSUME ThreadLists(d)
      PROVE  ReviewsInv'
  <2>1. PICK x : x = [op |-> "read", upto |-> thread.sent]
    OBVIOUS
  <2>2. thread.sent \in 0 .. MaxLetters
    BY <1>1 DEF Threads
  <2>3. x \in DeskTxn /\ DeskSound(x)
    BY <2>1, <2>2 DEF DeskTxn, ReadDesk, DeskSound
  <2>4. /\ desk' = [desk EXCEPT ![d] = x] /\ edits' \in 0 .. MaxEdits
        /\ UNCHANGED <<ratings, votes, helpful, thread>>
    BY <1>1, <1>7, <2>1 DEF ThreadLists
  <2> QED
    BY <2>3, <2>4, DeskChanges
<1>8. ASSUME ReviewFails(d)
      PROVE  ReviewsInv'
  <2>1. Unused \in DeskTxn /\ DeskSound(Unused)
    BY DeskKinds DEF DeskSound
  <2>2. /\ desk' = [desk EXCEPT ![d] = Unused] /\ edits' \in 0 .. MaxEdits
        /\ UNCHANGED <<ratings, votes, helpful, thread>>
    BY <1>1, <1>8 DEF ReviewFails
  <2> QED
    BY <2>1, <2>2, DeskChanges
<1> QED
  BY <1>3, <1>4, <1>5, <1>6, <1>7, <1>8

-----------------------------------------------------------------------------
(* Reviews: transactions commit *)

LEMMA DesksStay ==
    ASSUME ReviewsInv, NEW d \in Desks, desk' = [desk EXCEPT ![d] = Unused],
           everShown \subseteq everShown', thread.sent <= thread'.sent,
           thread'.sent \in Nat
    PROVE  desk' \in [Desks -> DeskTxn] /\ \A e \in Desks : DeskSound(desk[e])'
<1>1. /\ desk' \in [Desks -> DeskTxn] /\ desk'[d] = Unused
      /\ \A e \in Desks \ {d} : desk'[e] = desk[e]
  BY DeskKinds DEF ReviewsInv
<1>2. \A e \in Desks : DeskSound(desk[e])'
  <2> SUFFICES ASSUME NEW e \in Desks
               PROVE  DeskSound(desk[e])'
    OBVIOUS
  <2>1. CASE e = d
    BY <1>1, <2>1, DeskKinds DEF DeskSound
  <2>2. CASE e # d
    <3>1. PICK x : x = desk[e]
      OBVIOUS
    <3>2. desk'[e] = x /\ DeskSound(x) /\ x \in DeskTxn
      BY <1>1, <2>2, <3>1, DeskKinds DEF ReviewsInv
    <3>3. x.op = "read" => x.upto <= thread'.sent
      <4>1. thread.sent \in Nat
        BY DeskKinds DEF ReviewsInv, Threads
      <4>2. x.op = "read" => x.upto \in Nat
        BY <3>2, DeskKinds DEF ReadDesk
      <4> QED
        BY <3>2, <4>1, <4>2 DEF DeskSound
    <3> QED
      BY <3>2, <3>3 DEF DeskSound
  <2> QED
    BY <2>1, <2>2
<1> QED
  BY <1>1, <1>2

LEMMA ReviewCommitsKeeps ==
    ASSUME ReviewsInv, NEW d \in Desks, ReviewCommits(d)
    PROVE  ReviewsInv'
<1>1. PICK x : x = desk[d]
  OBVIOUS
<1>2. /\ x.op \in {"write", "moderate"}
      /\ review' = [review EXCEPT ![x.item] = x.to]
      /\ everShown' = (IF x.to = "published" THEN everShown \cup {x.item} ELSE everShown)
      /\ stars' = (IF x.refreshes THEN x.counts ELSE stars)
      /\ desk' = [desk EXCEPT ![d] = Unused]
      /\ UNCHANGED <<answered, votes, helpful, edits, thread>>
  BY <1>1 DEF ReviewCommits
<1>3. x \in ReviewDesk /\ DeskSound(x)
  BY <1>1, <1>2, DeskKinds DEF ReviewsInv
<1>4. x.item \in Items /\ x.to \in Statuses /\ x.counts \subseteq Items
  BY <1>3 DEF ReviewDesk
<1>5. /\ thread'.sent \in Nat /\ thread.sent <= thread'.sent
      /\ everShown \subseteq everShown'
  BY <1>2, DeskKinds DEF ReviewsInv, Threads
<1>6. desk' \in [Desks -> DeskTxn] /\ \A e \in Desks : DeskSound(desk[e])'
  BY <1>2, <1>5, DesksStay
<1>7. /\ review' \in [Items -> Statuses] /\ everShown' \subseteq Items /\ stars' \subseteq Items
  BY <1>2, <1>4, DeskKinds DEF ReviewsInv
<1>8. ReviewsTypeOK'
  BY <1>2, <1>6, <1>7, DeskKinds DEF ReviewsInv, ReviewsTypeOK, DeskTxn, SendDesk, ReplyDesk,
     ReadDesk, ReviewDesk, Threads
<1>9. (Shown(review) \subseteq everShown)'
  BY <1>2, <1>4, DeskKinds DEF ReviewsInv, Shown
<1>10. StarsWereShown'
  BY <1>2, <1>3 DEF ReviewsInv, StarsWereShown, DeskSound
<1>11. VotesFinite' /\ VotesCount' /\ UnreadIsThere'
  BY <1>2 DEF ReviewsInv, VotesFinite, VotesCount, UnreadIsThere
<1> QED
  BY <1>6, <1>8, <1>9, <1>10, <1>11 DEF ReviewsInv

LEMMA ReplyCommitsKeeps ==
    ASSUME ReviewsInv, NEW d \in Desks, ReplyCommits(d)
    PROVE  ReviewsInv'
<1>1. PICK x : x = desk[d]
  OBVIOUS
<1>2. /\ x.op = "reply" /\ answered' = answered \cup {x.item}
      /\ desk' = [desk EXCEPT ![d] = Unused]
      /\ UNCHANGED <<review, everShown, stars, votes, helpful, edits, thread>>
  BY <1>1 DEF ReplyCommits
<1>3. x.item \in everShown
  BY <1>1, <1>2 DEF ReviewsInv, DeskSound
<1>4. /\ thread'.sent \in Nat /\ thread.sent <= thread'.sent
      /\ everShown \subseteq everShown'
  BY <1>2, DeskKinds DEF ReviewsInv, Threads
<1>5. desk' \in [Desks -> DeskTxn] /\ \A e \in Desks : DeskSound(desk[e])'
  BY <1>2, <1>4, DesksStay
<1>6. ReviewsTypeOK'
  BY <1>2, <1>3, <1>5, DeskKinds DEF ReviewsInv, ReviewsTypeOK, DeskTxn, SendDesk, ReplyDesk,
     ReadDesk, ReviewDesk, Threads
<1>7. StarsWereShown'
  BY <1>2, <1>3 DEF ReviewsInv, StarsWereShown
<1> QED
  BY <1>2, <1>5, <1>6, <1>7
  DEF ReviewsInv, Shown, VotesFinite, VotesCount, UnreadIsThere

LEMMA VoteHelpfulKeeps ==
    ASSUME ReviewsInv, NEW r \in Readers, NEW i \in Items, VoteHelpful(r, i)
    PROVE  ReviewsInv'
<1>1. /\ votes' = [votes EXCEPT ![i] = votes[i] \cup {r}]
      /\ helpful' = [helpful EXCEPT ![i] = IF r \notin votes[i] THEN helpful[i] + 1 ELSE helpful[i]]
      /\ UNCHANGED <<ratings, desk, edits, thread>>
  BY DEF VoteHelpful, CountsVote
<1>2. votes \in [Items -> SUBSET Readers] /\ helpful \in [Items -> Nat]
  BY DeskKinds DEF ReviewsInv
<1>3. /\ votes' \in [Items -> SUBSET Readers] /\ helpful' \in [Items -> Nat]
      /\ votes'[i] = votes[i] \cup {r}
      /\ helpful'[i] = IF r \notin votes[i] THEN helpful[i] + 1 ELSE helpful[i]
      /\ \A k \in Items \ {i} : votes'[k] = votes[k] /\ helpful'[k] = helpful[k]
  BY <1>1, <1>2
<1>4. IsFiniteSet(votes[i]) /\ helpful[i] = Cardinality(votes[i])
  BY DEF ReviewsInv, VotesFinite, VotesCount
<1>5. IsFiniteSet(votes'[i]) /\ helpful'[i] = Cardinality(votes'[i])
  <2>1. PICK S : S = votes[i]
    OBVIOUS
  <2>2. IsFiniteSet(S \cup {r})
        /\ Cardinality(S \cup {r}) = IF r \in S THEN Cardinality(S) ELSE Cardinality(S) + 1
    BY <1>4, <2>1, FS_AddElement
  <2> QED
    BY <1>3, <1>4, <2>1, <2>2
<1>6. VotesFinite' /\ VotesCount'
  BY <1>3, <1>5 DEF ReviewsInv, VotesFinite, VotesCount
<1>7. ReviewsTypeOK'
  BY <1>1, <1>3 DEF ReviewsInv, ReviewsTypeOK, ratings
<1> QED
  BY <1>1, <1>6, <1>7 DEF ReviewsInv, Shown, StarsWereShown, UnreadIsThere, DeskSound, ratings

\* The counter and the letters of the thread.
LEMMA ThreadKeeps ==
    ASSUME ReviewsInv, NEW d \in Desks, SendCommits(d) \/ MarkRead(d)
    PROVE  ReviewsInv'
<1>1. PICK t : t = thread
  OBVIOUS
<1>2. /\ t \in Threads /\ t.sent \in 0 .. MaxLetters /\ t.seen \in 0 .. MaxLetters
      /\ t.unread \in 0 .. MaxLetters /\ t.unread <= t.sent - t.seen /\ MaxLetters \in Nat
  BY <1>1, DeskKinds, ReviewsAssumption
  DEF ReviewsAssumption, ReviewsInv, Threads, UnreadIsThere
<1>3. /\ desk' = [desk EXCEPT ![d] = Unused]
      /\ UNCHANGED <<ratings, votes, helpful, edits>>
  BY DEF SendCommits, MarkRead
<1>4. thread' \in Threads /\ thread'.unread <= thread'.sent - thread'.seen
      /\ t.sent <= thread'.sent
  <2>1. CASE SendCommits(d)
    <3>1. PICK st : st = IF t.status = "none" THEN "open" ELSE t.status
      OBVIOUS
    <3>2. /\ t.sent < MaxLetters
          /\ thread' = [t EXCEPT !.status = st, !.sent = t.sent + 1, !.unread = t.unread + 1]
      BY <1>1, <2>1, <3>1 DEF SendCommits
    <3>3. st \in {"none", "open", "blocked"}
      BY <1>2, <3>1 DEF Threads
    <3>4. thread' = [status |-> st, sent |-> t.sent + 1, seen |-> t.seen,
                     unread |-> t.unread + 1]
      BY <1>2, <3>2 DEF Threads
    <3>5. /\ t.sent + 1 \in 0 .. MaxLetters /\ t.unread + 1 \in 0 .. MaxLetters
          /\ t.unread + 1 <= t.sent + 1 - t.seen /\ t.sent <= t.sent + 1
      BY <1>2, <3>2
    <3> QED
      BY <1>2, <3>3, <3>4, <3>5 DEF Threads
  <2>2. CASE MarkRead(d)
    <3>1. PICK x : x = desk[d]
      OBVIOUS
    <3>2. PICK seen : seen = IF x.upto > t.seen THEN x.upto ELSE t.seen
      OBVIOUS
    <3>3. x.op = "read" /\ thread' = [t EXCEPT !.seen = seen, !.unread = 0]
      BY <1>1, <2>2, <3>1, <3>2 DEF MarkRead
    <3>4. x.upto \in 0 .. MaxLetters /\ x.upto <= t.sent
      BY <1>1, <3>1, <3>3, DeskKinds DEF ReviewsInv, ReadDesk, DeskSound
    <3>5. thread' = [status |-> t.status, sent |-> t.sent, seen |-> seen, unread |-> 0]
      BY <1>2, <3>3 DEF Threads
    <3>6. seen \in 0 .. MaxLetters /\ 0 <= t.sent - seen /\ 0 \in 0 .. MaxLetters
      BY <1>2, <3>2, <3>4
    <3> QED
      BY <1>2, <3>5, <3>6 DEF Threads
  <2> QED
    BY <2>1, <2>2
<1>5. thread'.sent \in Nat
  BY <1>2, <1>4 DEF Threads
<1>6. desk' \in [Desks -> DeskTxn] /\ \A e \in Desks : DeskSound(desk[e])'
  BY <1>1, <1>3, <1>4, <1>5, DesksStay DEF ratings
<1>7. ReviewsTypeOK'
  BY <1>3, <1>4, <1>6, DeskKinds DEF ReviewsInv, ReviewsTypeOK, DeskTxn, SendDesk, ReplyDesk,
     ReadDesk, ReviewDesk, Threads, ratings
<1> QED
  BY <1>3, <1>4, <1>6, <1>7
  DEF ReviewsInv, Shown, StarsWereShown, VotesFinite, VotesCount, UnreadIsThere, ratings

LEMMA BlockConversationKeeps == ReviewsInv /\ BlockConversation => ReviewsInv'
<1> SUFFICES ASSUME ReviewsInv, BlockConversation
             PROVE  ReviewsInv'
  OBVIOUS
<1>1. /\ thread' = [thread EXCEPT !.status = "blocked"]
      /\ UNCHANGED <<ratings, votes, helpful, desk, edits>>
  BY DEF BlockConversation
<1>2. thread \in Threads
  BY DeskKinds DEF ReviewsInv
<1>3. /\ thread' \in Threads /\ thread'.sent = thread.sent /\ thread'.seen = thread.seen
      /\ thread'.unread = thread.unread
  BY <1>1, <1>2 DEF Threads
<1>4. ReviewsTypeOK'
  BY <1>1, <1>3 DEF ReviewsInv, ReviewsTypeOK, Threads, ratings
<1>5. \A e \in Desks : DeskSound(desk[e])'
  BY <1>1, <1>3 DEF ReviewsInv, DeskSound, ratings
<1> QED
  BY <1>1, <1>3, <1>4, <1>5
  DEF ReviewsInv, Shown, StarsWereShown, VotesFinite, VotesCount, UnreadIsThere, ratings

-----------------------------------------------------------------------------
LEMMA ReviewsStepHolds == ReviewsInv /\ [ReviewsNext]_reviewsVars => ReviewsInv'
<1> SUFFICES ASSUME ReviewsInv, [ReviewsNext]_reviewsVars
             PROVE  ReviewsInv'
  OBVIOUS
<1>1. CASE UNCHANGED reviewsVars
  BY <1>1
  DEF reviewsVars, ratings, ReviewsInv, ReviewsTypeOK, Shown, StarsWereShown, VotesFinite,
      VotesCount, UnreadIsThere, DeskSound
<1> QED
  BY <1>1, DesksKeep, ReviewCommitsKeeps, ReplyCommitsKeeps, VoteHelpfulKeeps, ThreadKeeps,
     BlockConversationKeeps DEF ReviewsNext

\* What reviews and conversations keep in every state (trust/service.py, router.py): rows
\* of their types, no star and no answer for a review that was never published however
\* decisions, refreshes and answers race, a count that is the number of voters, and no
\* unread letter that is not there.
THEOREM ReviewsSafeHolds == ReviewsSpec => []ReviewsSafe
<1>1. ReviewsInv => ReviewsSafe
  BY DEF ReviewsInv, ReviewsSafe
<1> QED
  BY <1>1, ReviewsInitHolds, ReviewsStepHolds, PTL DEF ReviewsSpec

-----------------------------------------------------------------------------
(* Intake: photos *)

UploadRow == [status : {"processing", "ready", "failed"}, pic : Pictures, from : Photos, sum : BOOLEAN]
PhotoTxn == [phase : {"upload", "process", "rendered"}, pic : Pictures]

\* A transaction at work on a photo has a row that is not served yet; what it has
\* rendered is put.
TxnSound(u) ==
    /\ open[u].phase = "upload" => upload[u] = NoUpload
    /\ open[u].phase \in {"process", "rendered"} => ~Ready(u)
    /\ open[u].phase = "rendered" => u \in bucket

PhotosInv ==
    /\ upload \in [Photos -> {NoUpload} \cup UploadRow]
    /\ open \in [Photos -> {NoTxn} \cup PhotoTxn]
    /\ bucket \subseteq Photos
    /\ \A u \in Photos : TxnSound(u)
    /\ PhotosAreServed

LEMMA PhotoFacts ==
  ASSUME PhotosInv
  PROVE  \A u \in Photos :
           /\ upload[u] \in {NoUpload} \cup UploadRow
           /\ open[u] \in {NoTxn} \cup PhotoTxn
           /\ open[u].phase \in {"upload", "process", "rendered"} => open[u] \in PhotoTxn
           /\ upload[u].status # "none" => upload[u] \in UploadRow
BY DEF PhotosInv, NoTxn, NoUpload

\* Only the transaction at work on a photo moves, and no row.
LEMMA TxnMoves ==
  ASSUME PhotosInv, NEW u \in Photos, NEW z \in {NoTxn} \cup PhotoTxn,
         open' = [open EXCEPT ![u] = z], upload' = upload,
         bucket' \in {bucket, bucket \cup {u}},
         z.phase = "upload" => upload[u] = NoUpload,
         z.phase \in {"process", "rendered"} => ~Ready(u),
         z.phase = "rendered" => u \in bucket'
  PROVE  PhotosInv'
<1>1. open \in [Photos -> {NoTxn} \cup PhotoTxn]
  BY DEF PhotosInv
<1>2. \A w \in Photos : open'[w] = IF w = u THEN z ELSE open[w]
  BY <1>1
<1>3. \A w \in Photos : TxnSound(w)'
  <2>1. TAKE w \in Photos
  <2>2. TxnSound(w)
    BY DEF PhotosInv
  <2>3. Ready(w)' <=> Ready(w)
    BY DEF Ready
  <2>4. Ready(u)' <=> Ready(u)
    BY DEF Ready
  <2> QED
    BY <1>2, <2>2, <2>3, <2>4 DEF TxnSound
<1>4. PhotosAreServed'
  BY DEF PhotosInv, PhotosAreServed, Ready
<1> QED
  BY <1>1, <1>3, <1>4 DEF PhotosInv

LEMMA UploadKeeps ==
  ASSUME PhotosInv, NEW u \in Photos, NEW pic \in Pictures, Upload(u, pic)
  PROVE  PhotosInv'
<1>1. PICK ph \in {"process", "upload"} : open' = [open EXCEPT ![u] = [phase |-> ph, pic |-> pic]]
  BY DEF Upload
<1>2. PICK z \in PhotoTxn : z = [phase |-> ph, pic |-> pic]
  BY DEF PhotoTxn
<1>3. upload[u] = NoUpload /\ ~Ready(u) /\ upload' = upload /\ bucket' = bucket
  BY DEF Upload, Ready, NoUpload
<1>4. z.phase = ph
  BY <1>2
<1> QED
  BY <1>1, <1>2, <1>3, <1>4, TxnMoves

LEMMA WorkerTakesKeeps ==
  ASSUME PhotosInv, NEW u \in Photos, WorkerTakes(u)
  PROVE  PhotosInv'
<1>1. upload' = upload /\ bucket' = bucket
  BY DEF WorkerTakes
<1>2. CASE upload[u].status \in {"none", "ready"}
  <2>1. open' = open
    BY <1>2 DEF WorkerTakes
  <2>2. \A w \in Photos : TxnSound(w)'
    BY <1>1, <2>1 DEF PhotosInv, TxnSound, Ready
  <2> QED
    BY <1>1, <2>1, <2>2 DEF PhotosInv, PhotosAreServed, Ready
<1>3. CASE upload[u].status \notin {"none", "ready"}
  <2>1. open' = [open EXCEPT ![u] = [phase |-> "process", pic |-> upload[u].pic]]
    BY <1>3 DEF WorkerTakes
  <2>2. upload[u] \in UploadRow
    BY <1>3, PhotoFacts
  <2>3. PICK z \in PhotoTxn : z = [phase |-> "process", pic |-> upload[u].pic]
    BY <2>2 DEF PhotoTxn, UploadRow
  <2>4. z.phase = "process"
    BY <2>3
  <2>5. ~Ready(u)
    BY <1>3 DEF Ready
  <2> QED
    BY <1>1, <2>1, <2>3, <2>4, <2>5, TxnMoves
<1> QED
  BY <1>2, <1>3

LEMMA RendersKeeps ==
  ASSUME PhotosInv, NEW u \in Photos, Renders(u)
  PROVE  PhotosInv'
<1>1. open[u].phase = "process" /\ open[u] \in PhotoTxn
  BY PhotoFacts DEF Renders
<1>2. PICK z \in PhotoTxn : z = [phase |-> "rendered", pic |-> open[u].pic]
  BY <1>1 DEF PhotoTxn
<1>3. z.phase = "rendered"
  BY <1>2
<1>4. ~Ready(u)
  BY <1>1 DEF PhotosInv, TxnSound
<1>5. open' = [open EXCEPT ![u] = z] /\ upload' = upload /\ bucket' = bucket \cup {u}
  BY <1>2 DEF Renders
<1> QED
  BY <1>3, <1>4, <1>5, TxnMoves

LEMMA RefusedKeeps ==
  ASSUME PhotosInv, NEW u \in Photos, Refused(u)
  PROVE  PhotosInv'
<1>1. open' = [open EXCEPT ![u] = NoTxn] /\ upload' = upload /\ bucket' = bucket
  BY DEF Refused
<1>2. NoTxn.phase \notin {"upload", "process", "rendered"}
  BY DEF NoTxn
<1> QED
  BY <1>1, <1>2, TxnMoves

\* A row that is not served yet is written; when it is served, so is what it is served from.
LEMMA RowIsWritten ==
  ASSUME PhotosInv, NEW u \in Photos, NEW row \in UploadRow, ~Ready(u),
         upload' = [upload EXCEPT ![u] = row], open' = [open EXCEPT ![u] = NoTxn],
         bucket' = bucket,
         row.status = "ready" =>
             /\ row.from \in bucket
             /\ row.from = u \/ (Ready(row.from) /\ upload[row.from].pic = row.pic)
             /\ row.sum => \A w \in Photos \ {u} : Ready(w) /\ upload[w].sum => upload[w].pic # row.pic
  PROVE  PhotosInv'
<1>1. /\ upload \in [Photos -> {NoUpload} \cup UploadRow]
      /\ open \in [Photos -> {NoTxn} \cup PhotoTxn]
  BY DEF PhotosInv
<1>2. /\ \A w \in Photos : open'[w] = IF w = u THEN NoTxn ELSE open[w]
      /\ \A w \in Photos : upload'[w] = IF w = u THEN row ELSE upload[w]
  BY <1>1
<1>3. \A w \in Photos : Ready(w)' <=> IF w = u THEN row.status = "ready" ELSE Ready(w)
  BY <1>2 DEF Ready
<1>4. \A w \in Photos : TxnSound(w)'
  <2>1. TAKE w \in Photos
  <2>2. TxnSound(w)
    BY DEF PhotosInv
  <2>3. CASE w = u
    BY <1>2, <2>3 DEF TxnSound, NoTxn
  <2>4. CASE w # u
    BY <1>2, <1>3, <2>2, <2>4 DEF TxnSound
  <2> QED
    BY <2>3, <2>4
<1>5. PhotosAreServed'
  <2>1. ASSUME NEW w \in Photos, upload'[w].status = "ready"
        PROVE  /\ upload'[w].from \in bucket
               /\ upload'[upload'[w].from].status = "ready"
               /\ upload'[upload'[w].from].pic = upload'[w].pic
               /\ \A v \in Photos \ {w} : upload'[v].status = "ready" /\ upload'[v].sum /\ upload'[w].sum
                    => upload'[v].pic # upload'[w].pic
    <3>1. CASE w = u
      <4>1. upload'[w] = row /\ row.status = "ready" /\ row.from \in Photos
        BY <1>2, <2>1, <3>1 DEF UploadRow
      <4>2. \A v \in Photos \ {u} : upload'[v] = upload[v]
        BY <1>2
      <4>3. row.from = u \/ (upload[row.from].status = "ready" /\ upload[row.from].pic = row.pic)
        BY <4>1 DEF Ready
      <4>4. row.sum => \A v \in Photos \ {u} :
                upload[v].status = "ready" /\ upload[v].sum => upload[v].pic # row.pic
        BY <4>1 DEF Ready
      <4>5. row.from # u => upload'[row.from] = upload[row.from]
        BY <4>1, <4>2
      <4>6. row.from = u => upload'[row.from] = row
        BY <1>2
      <4> QED
        BY <3>1, <4>1, <4>2, <4>3, <4>4, <4>5, <4>6
    <3>2. CASE w # u
      <4>1. upload'[w] = upload[w] /\ Ready(w)
        BY <1>2, <2>1, <3>2 DEF Ready
      <4>2. /\ upload[w].from \in bucket /\ Ready(upload[w].from)
            /\ upload[upload[w].from].pic = upload[w].pic
            /\ \A v \in Photos \ {w} : Ready(v) /\ upload[v].sum /\ upload[w].sum
                 => upload[v].pic # upload[w].pic
        BY <4>1 DEF PhotosInv, PhotosAreServed
      <4>3. upload[w].from # u /\ upload[w].from \in Photos
        BY <4>2 DEF PhotosInv
      <4>4. upload'[upload[w].from] = upload[upload[w].from]
        BY <1>2, <4>3
      <4>5. ASSUME NEW v \in Photos \ {w}, upload'[v].status = "ready", upload'[v].sum, upload[w].sum
            PROVE  upload'[v].pic # upload[w].pic
        BY <1>2, <3>2, <4>1, <4>2, <4>5 DEF Ready
      <4> QED
        BY <4>1, <4>2, <4>4, <4>5 DEF Ready
    <3> QED
      BY <3>1, <3>2
  <2> QED
    BY <2>1 DEF PhotosAreServed, Ready
<1>6. /\ upload' \in [Photos -> {NoUpload} \cup UploadRow]
      /\ open' \in [Photos -> {NoTxn} \cup PhotoTxn] /\ bucket' \subseteq Photos
  BY <1>1 DEF PhotosInv
<1> QED
  BY <1>4, <1>5, <1>6 DEF PhotosInv

LEMMA UploadCommitsKeeps ==
  ASSUME PhotosInv, NEW u \in Photos, UploadCommits(u)
  PROVE  PhotosInv'
<1>1. open[u].phase = "upload" /\ open[u] \in PhotoTxn
  BY PhotoFacts DEF UploadCommits
<1>2. PICK row \in UploadRow :
         row = [status |-> "processing", pic |-> open[u].pic, from |-> u, sum |-> FALSE]
  BY <1>1 DEF UploadRow, PhotoTxn
<1>3. row.status # "ready"
  BY <1>2
<1>4. ~Ready(u)
  BY <1>1 DEF PhotosInv, TxnSound, Ready, NoUpload
<1>5. /\ upload' = [upload EXCEPT ![u] = row] /\ open' = [open EXCEPT ![u] = NoTxn]
      /\ bucket' = bucket
  BY <1>2 DEF UploadCommits
<1> QED
  BY <1>3, <1>4, <1>5, RowIsWritten

LEMMA SettlesKeep ==
  ASSUME PhotosInv, NEW u \in Photos, Deduplicates(u) \/ DoesNotRender(u) \/ Published(u)
  PROVE  PhotosInv'
<1>1. open[u].phase \in {"process", "rendered"} /\ open[u] \in PhotoTxn
  BY PhotoFacts DEF Deduplicates, DoesNotRender, Published
<1>2. PICK pic \in Pictures : pic = open[u].pic
  BY <1>1 DEF PhotoTxn
<1>3. ~Ready(u)
  BY <1>1 DEF PhotosInv, TxnSound
<1>4. bucket' = bucket /\ open' = [open EXCEPT ![u] = NoTxn]
  BY DEF Deduplicates, DoesNotRender, Published, Settles
<1>5. CASE Deduplicates(u)
  <2>1. PICK w \in Original(u, pic) :
           upload' = [upload EXCEPT ![u] =
               [status |-> "ready", pic |-> pic, from |-> upload[w].from, sum |-> FALSE]]
    BY <1>2, <1>5 DEF Deduplicates, Settles
  <2>2. w \in Photos /\ Ready(w) /\ upload[w].pic = pic
    BY DEF Original
  <2>3. /\ upload[w].from \in bucket /\ Ready(upload[w].from)
        /\ upload[upload[w].from].pic = pic
    BY <2>2 DEF PhotosInv, PhotosAreServed
  <2>4. upload[w].from \in Photos
    BY <2>3 DEF PhotosInv
  <2>5. PICK row \in UploadRow :
           row = [status |-> "ready", pic |-> pic, from |-> upload[w].from, sum |-> FALSE]
    BY <2>4 DEF UploadRow
  <2>6. row.from = upload[w].from /\ row.pic = pic /\ row.sum = FALSE
    BY <2>5
  <2>7. upload' = [upload EXCEPT ![u] = row]
    BY <2>1, <2>5
  <2> QED
    BY <1>3, <1>4, <2>3, <2>6, <2>7, RowIsWritten
<1>6. CASE DoesNotRender(u)
  <2>1. PICK row \in UploadRow :
           row = [status |-> "failed", pic |-> pic, from |-> u, sum |-> FALSE]
    BY DEF UploadRow
  <2>2. row.status # "ready"
    BY <2>1
  <2>3. upload' = [upload EXCEPT ![u] = row]
    BY <1>2, <1>6, <2>1 DEF DoesNotRender, Settles
  <2> QED
    BY <1>3, <1>4, <2>2, <2>3, RowIsWritten
<1>7. CASE Published(u)
  <2>1. PICK row \in UploadRow :
           row = [status |-> "ready", pic |-> pic, from |-> u, sum |-> TRUE]
    BY DEF UploadRow
  <2>2. row.from = u /\ row.pic = pic
    BY <2>1
  <2>3. upload' = [upload EXCEPT ![u] = row]
    BY <1>2, <1>7, <2>1 DEF Published, Settles
  <2>4. u \in bucket
    BY <1>7 DEF Published, PhotosInv, TxnSound
  <2>5. \A w \in Photos \ {u} : Ready(w) /\ upload[w].sum => upload[w].pic # pic
    BY <1>2, <1>7 DEF Published, ChecksumFree
  <2> QED
    BY <1>3, <1>4, <2>2, <2>3, <2>4, <2>5, RowIsWritten
<1> QED
  BY <1>5, <1>6, <1>7

LEMMA PhotosRest ==
  ASSUME PhotosInv, upload' = upload, bucket' = bucket,
         open' = open \/ open' = [u \in Photos |-> NoTxn]
  PROVE  PhotosInv'
<1>1. PhotosAreServed'
  BY DEF PhotosInv, PhotosAreServed, Ready
<1>2. \A u \in Photos : TxnSound(u)'
  <2>1. TAKE u \in Photos
  <2>2. CASE open' = open
    BY <2>2 DEF PhotosInv, TxnSound, Ready
  <2>3. CASE open' = [w \in Photos |-> NoTxn]
    <3>1. open'[u] = NoTxn
      BY <2>3
    <3> QED
      BY <3>1 DEF TxnSound, NoTxn
  <2> QED
    BY <2>2, <2>3
<1>3. open' \in [Photos -> {NoTxn} \cup PhotoTxn]
  BY DEF PhotosInv
<1> QED
  BY <1>1, <1>2, <1>3 DEF PhotosInv
-----------------------------------------------------------------------------
(* Intake: files *)

FileRow == [sku : Skus, price : Nat \ {0}, stock : Nat, valid : BOOLEAN]
ShelfRow == [price : Nat, stock : Nat, held : Nat]
Status == {"none", "queued", "done", "failed"}
WrittenSkus == UNION {[D -> ShelfRow] : D \in SUBSET Skus}
Start == [phase |-> "start"]
RowsTxn == [phase : {"rows"}, next : Nat, ok : Nat, mine : WrittenSkus]

\* A row of the shelf is that of a row of the file, price and stock.
FromFile(f, s, row) == \E i \in DOMAIN Rows[f] :
    /\ Rows[f][i].sku = s /\ Rows[f][i].valid
    /\ Rows[f][i].price = row.price /\ Rows[f][i].stock = row.stock

\* A file at work is not done, counts the rows it has passed, and holds whole rows of its
\* own with the pieces that are held on the shelf.
BatchSound(f, b, st, rows) ==
    /\ b.phase = "start" => st = "none"
    /\ b.phase = "rows" =>
         /\ st \in {"none", "queued"}
         /\ b.next \in 1 .. Len(Rows[f]) + 1 /\ b.ok < b.next
         /\ \A s \in DOMAIN b.mine :
              /\ FromFile(f, s, b.mine[s])
              /\ b.mine[s].held = rows[s].held /\ b.mine[s].held <= b.mine[s].stock

OneWriter == \A s \in Skus : \A f, g \in Files : Wrote(f, s) /\ Wrote(g, s) => f = g
RunOnce == \A f \in Files : /\ runs[f] \in 0 .. 1
                            /\ import[f].status # "done" => runs[f] = 0

FilesInv ==
    /\ import \in [Files -> [status : Status, ok : Int, failed : Int]]
    /\ batch \in [Files -> {NoTxn, Start} \cup RowsTxn]
    /\ shelf \in [Skus -> ShelfRow] /\ runs \in [Files -> Nat]
    /\ \A f \in Files : BatchSound(f, batch[f], import[f].status, shelf)
    /\ OneWriter /\ RunOnce
    /\ RowsAreWhole /\ HeldIsThere
    /\ \A s \in Skus : shelf[s].price = 0 => shelf[s].held = 0 /\ shelf[s].stock = 0

LEMMA FileRows ==
  ASSUME NEW f \in Files
  PROVE  /\ Rows[f] \in Seq(FileRow) /\ Len(Rows[f]) \in Nat
         /\ DOMAIN Rows[f] = 1 .. Len(Rows[f])
         /\ \A i \in 1 .. Len(Rows[f]) : Rows[f][i] \in FileRow
<1>1. Rows[f] \in Seq(FileRow)
  BY IntakeAssumption DEF FileRow
<1> HIDE DEF FileRow
<1> QED
  BY <1>1

LEMMA BatchFacts ==
  ASSUME FilesInv, NEW f \in Files
  PROVE  /\ batch[f] \in {NoTxn, Start} \cup RowsTxn
         /\ Importing(f) <=> batch[f] \in RowsTxn
         /\ batch[f].phase \in {"idle", "start", "rows"}
         /\ BatchSound(f, batch[f], import[f].status, shelf)
<1>1. batch[f] \in {NoTxn, Start} \cup RowsTxn
  BY DEF FilesInv
<1> QED
  BY <1>1 DEF FilesInv, Importing, NoTxn, Start, RowsTxn

LEMMA WrittenFacts ==
  ASSUME NEW m \in WrittenSkus
  PROVE  DOMAIN m \subseteq Skus /\ \A s \in DOMAIN m : m[s] \in ShelfRow
BY DEF WrittenSkus

\* Nothing is written yet.
LEMMA NothingWritten == << >> \in WrittenSkus /\ DOMAIN << >> = {}
<1>1. << >> \in [{} -> ShelfRow]
  OBVIOUS
<1> QED
  BY <1>1 DEF WrittenSkus

\* Only the transaction of a file moves, and the file's status.
LEMMA BatchMoves ==
  ASSUME FilesInv, NEW f \in Files, NEW z \in {NoTxn, Start} \cup RowsTxn,
         NEW to \in Status,
         batch' = [batch EXCEPT ![f] = z],
         import' \in [Files -> [status : Status, ok : Int, failed : Int]],
         \A g \in Files : import'[g].status = IF g = f THEN to ELSE import[g].status,
         shelf' = shelf, runs' = runs,
         to = "done" <=> import[f].status = "done",
         BatchSound(f, z, to, shelf),
         \A s \in Skus : z.phase = "rows" /\ s \in DOMAIN z.mine =>
             Wrote(f, s) \/ \A g \in Files \ {f} : ~Wrote(g, s)
  PROVE  FilesInv'
<1>1. batch \in [Files -> {NoTxn, Start} \cup RowsTxn]
  BY DEF FilesInv
<1>2. \A g \in Files : batch'[g] = IF g = f THEN z ELSE batch[g]
  BY <1>1
<1>3. \A g \in Files : BatchSound(g, batch'[g], import'[g].status, shelf)
  BY <1>2, BatchFacts
<1>4. OneWriter'
  <2>1. \A g \in Files, s \in Skus :
           Wrote(g, s)' <=> IF g = f THEN z.phase = "rows" /\ s \in DOMAIN z.mine ELSE Wrote(g, s)
    BY <1>2 DEF Wrote, Importing
  <2> QED
    BY <2>1 DEF FilesInv, OneWriter
<1>5. RunOnce'
  BY DEF FilesInv, RunOnce
<1>6. \A g \in Files : import[g].status = "done" => import'[g].status = "done"
  OBVIOUS
<1>7. RowsAreWhole'
  BY <1>6 DEF FilesInv, RowsAreWhole
<1>8. HeldIsThere'
  BY DEF FilesInv, HeldIsThere
<1>9. batch' \in [Files -> {NoTxn, Start} \cup RowsTxn]
  BY <1>1
<1> QED
  BY <1>3, <1>4, <1>5, <1>7, <1>8, <1>9 DEF FilesInv

\* The status stays.
LEMMA BatchMovesOnly ==
  ASSUME FilesInv, NEW f \in Files, NEW z \in {NoTxn, Start} \cup RowsTxn,
         batch' = [batch EXCEPT ![f] = z],
         import' = import, shelf' = shelf, runs' = runs,
         BatchSound(f, z, import[f].status, shelf),
         \A s \in Skus : z.phase = "rows" /\ s \in DOMAIN z.mine =>
             Wrote(f, s) \/ \A g \in Files \ {f} : ~Wrote(g, s)
  PROVE  FilesInv'
<1>1. PICK to \in Status : to = import[f].status
  BY DEF FilesInv
<1>2. import' \in [Files -> [status : Status, ok : Int, failed : Int]]
  BY DEF FilesInv
<1>3. \A g \in Files : import'[g].status = IF g = f THEN to ELSE import[g].status
  BY <1>1
<1>4. (to = "done" <=> import[f].status = "done") /\ BatchSound(f, z, to, shelf)
  BY <1>1
<1> QED
  BY <1>2, <1>3, <1>4, BatchMoves

\* A file begins: nothing is written.
LEMMA FileBegins ==
  ASSUME FilesInv, NEW f \in Files, import[f].status \in {"none", "queued"},
         batch' = [batch EXCEPT ![f] = [phase |-> "rows", next |-> 1, ok |-> 0, mine |-> <<>>]],
         import' = import, shelf' = shelf, runs' = runs
  PROVE  FilesInv'
<1>1. PICK z : z = [phase |-> "rows", next |-> 1, ok |-> 0, mine |-> <<>>]
  OBVIOUS
<1>2. z.phase = "rows" /\ z.next = 1 /\ z.ok = 0 /\ z.mine = <<>>
  BY <1>1
<1>3. z \in RowsTxn
  BY <1>1, NothingWritten DEF RowsTxn
<1>4. DOMAIN z.mine = {}
  BY <1>2, NothingWritten
<1>5. BatchSound(f, z, import[f].status, shelf)
  <2>1. 1 \in 1 .. Len(Rows[f]) + 1
    BY FileRows
  <2> QED
    BY <1>2, <1>4, <2>1 DEF BatchSound
<1>6. \A s \in Skus : z.phase = "rows" /\ s \in DOMAIN z.mine =>
          Wrote(f, s) \/ \A g \in Files \ {f} : ~Wrote(g, s)
  BY <1>4
<1>7. batch' = [batch EXCEPT ![f] = z]
  BY <1>1
<1>8. z \in {NoTxn, Start} \cup RowsTxn
  BY <1>3
<1> QED
  BY <1>5, <1>6, <1>7, <1>8, BatchMovesOnly

LEMMA StartImportKeeps ==
  ASSUME FilesInv, NEW f \in Files, StartImport(f)
  PROVE  FilesInv'
<1>1. import[f].status = "none" /\ import' = import /\ shelf' = shelf /\ runs' = runs
  BY DEF StartImport
<1>2. CASE wiring = "inline"
  <2>1. batch' = [batch EXCEPT ![f] = [phase |-> "rows", next |-> 1, ok |-> 0, mine |-> <<>>]]
    BY <1>2 DEF StartImport
  <2> QED
    BY <1>1, <2>1, FileBegins
<1>3. CASE wiring # "inline"
  <2>1. batch' = [batch EXCEPT ![f] = Start]
    BY <1>3 DEF StartImport, Start
  <2>2. Start.phase = "start"
    BY DEF Start
  <2>3. BatchSound(f, Start, import[f].status, shelf)
    BY <1>1, <2>2 DEF BatchSound
  <2> QED
    BY <1>1, <2>1, <2>2, <2>3, BatchMovesOnly
<1> QED
  BY <1>2, <1>3

LEMMA WorkerImportsKeeps ==
  ASSUME FilesInv, NEW f \in Files, WorkerImports(f)
  PROVE  FilesInv'
<1>1. import' = import /\ shelf' = shelf /\ runs' = runs
  BY DEF WorkerImports
<1>2. CASE Importable(f)
  BY <1>1, <1>2, FileBegins DEF WorkerImports, Importable
<1>3. CASE ~Importable(f)
  <2>1. batch' = batch
    BY <1>3 DEF WorkerImports
  <2> QED
    BY <1>1, <2>1 DEF FilesInv, OneWriter, RunOnce, RowsAreWhole, HeldIsThere, Wrote, Importing
<1> QED
  BY <1>2, <1>3

\* The status of a file that is not done.
LEMMA StatusMoves ==
  ASSUME FilesInv, NEW f \in Files, NEW to \in {"queued", "failed"},
         import[f].status # "done",
         import' = [import EXCEPT ![f].status = to],
         batch' = [batch EXCEPT ![f] = NoTxn], shelf' = shelf, runs' = runs
  PROVE  FilesInv'
<1>1. import \in [Files -> [status : Status, ok : Int, failed : Int]]
  BY DEF FilesInv
<1>2. to \in Status /\ to # "done"
  BY DEF Status
<1>3. /\ import' \in [Files -> [status : Status, ok : Int, failed : Int]]
      /\ \A g \in Files : import'[g].status = IF g = f THEN to ELSE import[g].status
  BY <1>1, <1>2
<1>4. NoTxn.phase = "idle"
  BY DEF NoTxn
<1>5. BatchSound(f, NoTxn, to, shelf)
  BY <1>4 DEF BatchSound
<1> QED
  BY <1>2, <1>3, <1>4, <1>5, BatchMoves

LEMMA StatusKeeps ==
  ASSUME FilesInv, NEW f \in Files, StartCommits(f) \/ ImportFails(f)
  PROVE  FilesInv'
<1>1. /\ batch' = [batch EXCEPT ![f] = NoTxn] /\ shelf' = shelf /\ runs' = runs
      /\ \E to \in {"queued", "failed"} : import' = [import EXCEPT ![f].status = to]
  BY DEF StartCommits, ImportFails
<1>2. import[f].status # "done"
  BY BatchFacts DEF StartCommits, ImportFails, Importing, BatchSound
<1> QED
  BY <1>1, <1>2, StatusMoves
\* The row a transaction is at.
LEMMA RowFacts ==
  ASSUME FilesInv, NEW f \in Files, MoreRows(f)
  PROVE  /\ Importing(f) /\ batch[f] \in RowsTxn
         /\ batch[f].next \in 1 .. Len(Rows[f])
         /\ RowOf(f) \in FileRow /\ RowOf(f) = Rows[f][batch[f].next]
<1>1. Importing(f) /\ batch[f].next <= Len(Rows[f])
  BY DEF MoreRows
<1>2. batch[f] \in RowsTxn /\ batch[f].phase = "rows"
  BY <1>1, BatchFacts DEF Importing
<1>3. batch[f].next \in 1 .. Len(Rows[f]) + 1
  BY <1>2, BatchFacts DEF BatchSound
<1>4. batch[f].next \in 1 .. Len(Rows[f])
  BY <1>1, <1>3, FileRows
<1> QED
  BY <1>1, <1>2, <1>4, FileRows DEF RowOf

\* What a row leaves behind: a whole row of the file, over the pieces that are held.
LEMMA RowIsKept ==
  ASSUME FilesInv, NEW f \in Files, MoreRows(f),
         NEW s \in Skus, s = RowOf(f).sku, RowOf(f).valid,
         NEW row \in ShelfRow, row.price = RowOf(f).price, row.stock = RowOf(f).stock,
         row.held = shelf[s].held, row.held <= row.stock,
         LockedBy(f, s) = {}, Keeps(f, s, row),
         import' = import, shelf' = shelf, runs' = runs
  PROVE  FilesInv'
<1>1. PICK b \in RowsTxn : b = batch[f] /\ b.next \in 1 .. Len(Rows[f])
  BY RowFacts
<1>2. PICK m \in WrittenSkus : m = b.mine
  BY DEF RowsTxn
<1>3. PICK w : w = [t \in DOMAIN m \cup {s} |-> IF t = s THEN row ELSE m[t]]
  OBVIOUS
<1>4. /\ DOMAIN w = DOMAIN m \cup {s} /\ w[s] = row
      /\ \A t \in DOMAIN m : t # s => w[t] = m[t]
  BY <1>3
<1>5. w \in WrittenSkus
  <2>1. w \in [DOMAIN m \cup {s} -> ShelfRow] /\ DOMAIN m \cup {s} \in SUBSET Skus
    BY <1>3, WrittenFacts
  <2> QED
    BY <2>1 DEF WrittenSkus
<1>6. PICK z : z = [b EXCEPT !.next = b.next + 1, !.ok = b.ok + 1, !.mine = w]
  OBVIOUS
<1>7. b.next \in Nat /\ b.ok \in Nat /\ b.phase = "rows"
  BY DEF RowsTxn
<1>8. z \in RowsTxn
  <2>1. b.next + 1 \in Nat /\ b.ok + 1 \in Nat
    BY <1>7
  <2> QED
    BY <1>5, <1>6, <2>1 DEF RowsTxn
<1>9. z.phase = "rows" /\ z.next = b.next + 1 /\ z.ok = b.ok + 1 /\ z.mine = w
  BY <1>6 DEF RowsTxn
<1>10. batch' = [batch EXCEPT ![f] = z]
  BY <1>1, <1>2, <1>3, <1>6 DEF Keeps
<1>11. /\ import[f].status \in {"none", "queued"} /\ b.ok < b.next
       /\ \A t \in DOMAIN m :
              /\ FromFile(f, t, m[t])
              /\ m[t].held = shelf[t].held /\ m[t].held <= m[t].stock
  BY <1>1, <1>2, <1>7, BatchFacts DEF BatchSound
<1>12. FromFile(f, s, row)
  BY <1>1, RowFacts, FileRows DEF FromFile
<1>13. z.next \in 1 .. Len(Rows[f]) + 1 /\ z.ok < z.next
  BY <1>1, <1>7, <1>9, <1>11, FileRows
<1>14. \A t \in DOMAIN w :
          /\ FromFile(f, t, w[t])
          /\ w[t].held = shelf[t].held /\ w[t].held <= w[t].stock
  BY <1>4, <1>11, <1>12
<1>15. BatchSound(f, z, import[f].status, shelf)
  BY <1>9, <1>11, <1>13, <1>14 DEF BatchSound
<1>16. \A t \in Skus : z.phase = "rows" /\ t \in DOMAIN z.mine =>
          Wrote(f, t) \/ \A g \in Files \ {f} : ~Wrote(g, t)
  <2>1. \A g \in Files \ {f} : ~Wrote(g, s)
    BY DEF LockedBy
  <2>2. \A t \in DOMAIN m : Wrote(f, t)
    BY <1>1, <1>2, <1>7 DEF Wrote, Importing
  <2> QED
    BY <1>4, <1>9, <2>1, <2>2
<1>17. z \in {NoTxn, Start} \cup RowsTxn
  BY <1>8
<1> QED
  BY <1>10, <1>15, <1>16, <1>17, BatchMovesOnly

\* A variant as a transaction sees it has the pieces that are held on the shelf.
LEMMA SeenFacts ==
  ASSUME FilesInv, NEW f \in Files, NEW s \in Skus
  PROVE  /\ SeenBy(f, s) \in ShelfRow
         /\ SeenBy(f, s).held = shelf[s].held
         /\ SeenBy(f, s).price = 0 => shelf[s].held = 0
<1>1. shelf[s] \in ShelfRow /\ (shelf[s].price = 0 => shelf[s].held = 0)
  BY DEF FilesInv
<1>2. CASE Wrote(f, s)
  <2>1. batch[f] \in RowsTxn /\ batch[f].phase = "rows" /\ s \in DOMAIN batch[f].mine
    BY <1>2, BatchFacts DEF Wrote, Importing
  <2>2. PICK m \in WrittenSkus : m = batch[f].mine
    BY <2>1 DEF RowsTxn
  <2>3. m[s] \in ShelfRow
    BY <2>1, <2>2, WrittenFacts
  <2>4. FromFile(f, s, m[s]) /\ m[s].held = shelf[s].held
    BY <2>1, <2>2, BatchFacts DEF BatchSound
  <2>5. m[s].price # 0
    BY <2>4, FileRows DEF FromFile, FileRow
  <2> QED
    BY <1>2, <2>2, <2>3, <2>4, <2>5 DEF SeenBy
<1>3. CASE ~Wrote(f, s)
  BY <1>1, <1>3 DEF SeenBy
<1> QED
  BY <1>2, <1>3

LEMMA UpdatesRowKeeps ==
  ASSUME FilesInv, NEW f \in Files, UpdatesRow(f)
  PROVE  FilesInv'
<1>1. MoreRows(f) /\ import' = import /\ shelf' = shelf /\ runs' = runs
  BY DEF UpdatesRow
<1>2. PICK r \in FileRow : r = RowOf(f)
  BY <1>1, RowFacts
<1>3. PICK s \in Skus : s = r.sku
  BY DEF FileRow
<1>4. PICK v \in ShelfRow : v = SeenBy(f, s) /\ v.held = shelf[s].held
  BY SeenFacts
<1>5. PICK row : row = [v EXCEPT !.price = r.price, !.stock = r.stock]
  OBVIOUS
<1>6. r.price \in Nat /\ r.stock \in Nat
  BY DEF FileRow
<1>7. row \in ShelfRow /\ row.price = r.price /\ row.stock = r.stock /\ row.held = v.held
  BY <1>5, <1>6 DEF ShelfRow
<1>8. r.valid /\ LockedBy(f, s) = {} /\ r.stock >= v.held /\ Keeps(f, s, row)
  BY <1>2, <1>3, <1>4, <1>5 DEF UpdatesRow, EnoughFor
<1>9. row.held <= row.stock
  BY <1>6, <1>7, <1>8 DEF ShelfRow
<1>10. s = RowOf(f).sku /\ RowOf(f).valid /\ row.price = RowOf(f).price
       /\ row.stock = RowOf(f).stock /\ row.held = shelf[s].held
  BY <1>2, <1>3, <1>4, <1>7, <1>8
<1> QED
  BY <1>1, <1>7, <1>8, <1>9, <1>10, RowIsKept

LEMMA InsertsRowKeeps ==
  ASSUME FilesInv, NEW f \in Files, InsertsRow(f)
  PROVE  FilesInv'
<1>1. MoreRows(f) /\ import' = import /\ shelf' = shelf /\ runs' = runs
  BY DEF InsertsRow
<1>2. PICK r \in FileRow : r = RowOf(f)
  BY <1>1, RowFacts
<1>3. PICK s \in Skus : s = r.sku
  BY DEF FileRow
<1>4. PICK row : row = [price |-> r.price, stock |-> r.stock, held |-> 0]
  OBVIOUS
<1>5. r.price \in Nat /\ r.stock \in Nat
  BY DEF FileRow
<1>6. row \in ShelfRow /\ row.price = r.price /\ row.stock = r.stock /\ row.held = 0
  BY <1>4, <1>5 DEF ShelfRow
<1>7. r.valid /\ LockedBy(f, s) = {} /\ SeenBy(f, s).price = 0 /\ Keeps(f, s, row)
  BY <1>2, <1>3, <1>4 DEF InsertsRow
<1>8. shelf[s].held = 0
  BY <1>7, SeenFacts
<1>9. row.held <= row.stock
  BY <1>5, <1>6
<1>10. s = RowOf(f).sku /\ RowOf(f).valid /\ row.price = RowOf(f).price
       /\ row.stock = RowOf(f).stock /\ row.held = shelf[s].held
  BY <1>2, <1>3, <1>6, <1>7, <1>8
<1> QED
  BY <1>1, <1>6, <1>7, <1>9, <1>10, RowIsKept

LEMMA FailsRowKeeps ==
  ASSUME FilesInv, NEW f \in Files, FailsRow(f)
  PROVE  FilesInv'
<1>1. MoreRows(f) /\ import' = import /\ shelf' = shelf /\ runs' = runs
  BY DEF FailsRow
<1>2. PICK b \in RowsTxn : b = batch[f] /\ b.next \in 1 .. Len(Rows[f])
  BY <1>1, RowFacts
<1>3. PICK z : z = [b EXCEPT !.next = b.next + 1, !.mine = b.mine]
  OBVIOUS
<1>4. b.next \in Nat /\ b.ok \in Nat /\ b.phase = "rows"
  BY DEF RowsTxn
<1>5. z \in RowsTxn
  <2>1. b.next + 1 \in Nat /\ b.mine \in WrittenSkus
    BY <1>4 DEF RowsTxn
  <2> QED
    BY <1>3, <2>1 DEF RowsTxn
<1>6. z.phase = "rows" /\ z.next = b.next + 1 /\ z.ok = b.ok /\ z.mine = b.mine
  BY <1>3, <1>4 DEF RowsTxn
<1>7. batch' = [batch EXCEPT ![f] = z]
  BY <1>2, <1>3 DEF FailsRow, Undone
<1>8. BatchSound(f, b, import[f].status, shelf)
  BY <1>2, BatchFacts
<1>9. z.next \in 1 .. Len(Rows[f]) + 1 /\ z.ok < z.next
  BY <1>2, <1>4, <1>6, <1>8, FileRows DEF BatchSound
<1>10. BatchSound(f, z, import[f].status, shelf)
  BY <1>4, <1>6, <1>8, <1>9 DEF BatchSound
<1>11. \A t \in Skus : z.phase = "rows" /\ t \in DOMAIN z.mine =>
          Wrote(f, t) \/ \A g \in Files \ {f} : ~Wrote(g, t)
  BY <1>2, <1>4, <1>6 DEF Wrote, Importing
<1>12. z \in {NoTxn, Start} \cup RowsTxn
  BY <1>5
<1> QED
  BY <1>1, <1>7, <1>10, <1>11, <1>12, BatchMovesOnly

\* A file is done: what it wrote is on the shelf, and nobody else had written there.
LEMMA ImportDoneKeeps ==
  ASSUME FilesInv, NEW f \in Files, ImportDone(f)
  PROVE  FilesInv'
<1>1. Importing(f) /\ batch[f] \in RowsTxn
  BY BatchFacts DEF ImportDone
<1>2. PICK b \in RowsTxn : b = batch[f] /\ b.phase = "rows"
  BY <1>1 DEF RowsTxn
<1>3. PICK m \in WrittenSkus : m = b.mine
  BY DEF RowsTxn
<1>4. /\ import[f].status \in {"none", "queued"}
      /\ \A t \in DOMAIN m :
              /\ FromFile(f, t, m[t])
              /\ m[t].held = shelf[t].held /\ m[t].held <= m[t].stock
  BY <1>2, <1>3, BatchFacts DEF BatchSound
<1>5. /\ import' = [import EXCEPT ![f] =
             [status |-> "done", ok |-> b.ok, failed |-> Len(Rows[f]) - b.ok]]
      /\ shelf' = [s \in Skus |-> SeenBy(f, s)]
      /\ batch' = [batch EXCEPT ![f] = NoTxn]
      /\ runs' = [runs EXCEPT ![f] = @ + 1]
  BY <1>2 DEF ImportDone
<1>6. /\ import \in [Files -> [status : Status, ok : Int, failed : Int]]
      /\ batch \in [Files -> {NoTxn, Start} \cup RowsTxn]
      /\ shelf \in [Skus -> ShelfRow] /\ runs \in [Files -> Nat]
  BY DEF FilesInv
<1>7. \A s \in Skus : Wrote(f, s) <=> s \in DOMAIN m
  BY <1>1, <1>2, <1>3 DEF Wrote
<1>8. \A s \in Skus : shelf'[s] = IF s \in DOMAIN m THEN m[s] ELSE shelf[s]
  BY <1>2, <1>3, <1>5, <1>7 DEF SeenBy
<1>9. shelf' \in [Skus -> ShelfRow]
  BY <1>5, SeenFacts
<1>10. [status |-> "done", ok |-> b.ok, failed |-> Len(Rows[f]) - b.ok]
         \in [status : Status, ok : Int, failed : Int]
  <2>1. b.ok \in Int /\ Len(Rows[f]) - b.ok \in Int
    BY FileRows DEF RowsTxn
  <2> QED
    BY <2>1 DEF Status
<1>11. /\ import' \in [Files -> [status : Status, ok : Int, failed : Int]]
       /\ \A g \in Files : import'[g].status = IF g = f THEN "done" ELSE import[g].status
  BY <1>5, <1>6, <1>10
<1>12. /\ batch' \in [Files -> {NoTxn, Start} \cup RowsTxn]
       /\ \A g \in Files : batch'[g] = IF g = f THEN NoTxn ELSE batch[g]
  BY <1>5, <1>6
<1>13. \A g \in Files : BatchSound(g, batch'[g], import'[g].status, shelf')
  <2>1. TAKE g \in Files
  <2>2. CASE g = f
    <3>1. NoTxn.phase = "idle"
      BY DEF NoTxn
    <3> QED
      BY <1>12, <2>2, <3>1 DEF BatchSound
  <2>3. CASE g # f
    <3>1. BatchSound(g, batch[g], import[g].status, shelf)
      BY BatchFacts
    <3>2. CASE batch[g].phase = "rows"
      <4>1. batch[g] \in RowsTxn
        BY <3>2, BatchFacts DEF Importing
      <4>2. PICK w \in WrittenSkus : w = batch[g].mine
        BY <4>1 DEF RowsTxn
      <4>3. \A s \in DOMAIN w : s \in Skus /\ Wrote(g, s)
        BY <3>2, <4>2, WrittenFacts DEF Wrote, Importing
      <4>4. \A s \in DOMAIN w : s \notin DOMAIN m
        BY <1>7, <2>3, <4>3 DEF FilesInv, OneWriter
      <4>5. \A s \in DOMAIN w : shelf'[s] = shelf[s]
        BY <1>8, <4>3, <4>4
      <4> QED
        BY <1>11, <1>12, <2>3, <3>1, <4>2, <4>5 DEF BatchSound
    <3>3. CASE batch[g].phase # "rows"
      BY <1>11, <1>12, <2>3, <3>1, <3>3 DEF BatchSound
    <3> QED
      BY <3>2, <3>3
  <2> QED
    BY <2>2, <2>3
<1>14. OneWriter'
  <2>1. \A g \in Files, s \in Skus : Wrote(g, s)' => Wrote(g, s)
    BY <1>12 DEF Wrote, Importing, NoTxn
  <2> QED
    BY <2>1 DEF FilesInv, OneWriter
<1>15. RunOnce' /\ runs' \in [Files -> Nat]
  <2>1. runs[f] = 0
    BY <1>4 DEF FilesInv, RunOnce
  <2>2. \A g \in Files : runs'[g] = IF g = f THEN 1 ELSE runs[g]
    BY <1>5, <1>6, <2>1
  <2> QED
    BY <1>5, <1>6, <1>11, <2>2 DEF FilesInv, RunOnce
<1>16. RowsAreWhole'
  <2>1. ASSUME NEW s \in Skus, shelf'[s].price # 0
        PROVE  \E g \in Files : import'[g].status = "done" /\ FromFile(g, s, shelf'[s])
    <3>1. CASE s \in DOMAIN m
      BY <1>4, <1>8, <1>11, <3>1
    <3>2. CASE s \notin DOMAIN m
      <4>1. PICK g \in Files : import[g].status = "done" /\ FromFile(g, s, shelf[s])
        BY <1>8, <2>1, <3>2 DEF FilesInv, RowsAreWhole, FromFile
      <4> QED
        BY <1>8, <1>11, <3>2, <4>1
    <3> QED
      BY <3>1, <3>2
  <2> QED
    BY <2>1 DEF RowsAreWhole, FromFile
<1>17. HeldIsThere'
  BY <1>4, <1>8 DEF FilesInv, HeldIsThere
<1>18. \A s \in Skus : shelf'[s].price = 0 => shelf'[s].held = 0 /\ shelf'[s].stock = 0
  <2>1. TAKE s \in Skus
  <2>2. CASE s \in DOMAIN m
    <3>1. PICK i \in 1 .. Len(Rows[f]) : Rows[f][i].price = m[s].price
      BY <1>4, <2>2, FileRows DEF FromFile
    <3>2. Rows[f][i].price # 0
      BY FileRows DEF FileRow
    <3> QED
      BY <1>8, <2>2, <3>1, <3>2
  <2>3. CASE s \notin DOMAIN m
    BY <1>8, <2>3 DEF FilesInv
  <2> QED
    BY <2>2, <2>3
<1> QED
  BY <1>9, <1>11, <1>12, <1>13, <1>14, <1>15, <1>16, <1>17, <1>18 DEF FilesInv

\* A checkout takes a piece where no import writes.
LEMMA HoldsOneKeeps ==
  ASSUME FilesInv, NEW s \in Skus, HoldsOne(s)
  PROVE  FilesInv'
<1>1. PICK r \in ShelfRow : r = shelf[s]
  BY DEF FilesInv
<1>2. r.held < r.stock /\ r.held \in Nat /\ r.stock \in Nat /\ \A f \in Files : ~Wrote(f, s)
  BY <1>1 DEF HoldsOne, ShelfRow
<1>3. PICK q : q = [r EXCEPT !.held = r.held + 1]
  OBVIOUS
<1>4. q \in ShelfRow /\ q.price = r.price /\ q.stock = r.stock /\ q.held = r.held + 1
  BY <1>2, <1>3 DEF ShelfRow
<1>5. shelf \in [Skus -> ShelfRow]
  BY DEF FilesInv
<1>6. shelf' = [shelf EXCEPT ![s] = q]
  BY <1>1, <1>3 DEF HoldsOne
<1>7. shelf' \in [Skus -> ShelfRow] /\ \A t \in Skus : shelf'[t] = IF t = s THEN q ELSE shelf[t]
  BY <1>4, <1>5, <1>6
<1>8. import' = import /\ batch' = batch /\ runs' = runs
  BY DEF HoldsOne
<1>9. \A f \in Files : BatchSound(f, batch[f], import[f].status, shelf')
  <2>1. TAKE f \in Files
  <2>2. BatchSound(f, batch[f], import[f].status, shelf)
    BY BatchFacts
  <2>3. CASE batch[f].phase = "rows"
    <3>1. batch[f] \in RowsTxn
      BY <2>3, BatchFacts DEF Importing
    <3>2. PICK w \in WrittenSkus : w = batch[f].mine
      BY <3>1 DEF RowsTxn
    <3>3. \A t \in DOMAIN w : t \in Skus /\ Wrote(f, t)
      BY <2>3, <3>2, WrittenFacts DEF Wrote, Importing
    <3>4. \A t \in DOMAIN w : shelf'[t] = shelf[t]
      BY <1>2, <1>7, <3>3
    <3> QED
      BY <2>2, <3>2, <3>4 DEF BatchSound
  <2>4. CASE batch[f].phase # "rows"
    BY <2>2, <2>4 DEF BatchSound
  <2> QED
    BY <2>3, <2>4
<1>10. OneWriter' /\ RunOnce'
  BY <1>8 DEF FilesInv, OneWriter, RunOnce, Wrote, Importing
<1>11. RowsAreWhole'
  <2>1. ASSUME NEW t \in Skus, shelf'[t].price # 0
        PROVE  \E g \in Files : import[g].status = "done" /\ FromFile(g, t, shelf'[t])
    <3>1. shelf[t].price = shelf'[t].price /\ shelf[t].stock = shelf'[t].stock
      BY <1>1, <1>4, <1>7
    <3>2. PICK g \in Files : import[g].status = "done" /\ FromFile(g, t, shelf[t])
      BY <2>1, <3>1 DEF FilesInv, RowsAreWhole, FromFile
    <3> QED
      BY <3>1, <3>2 DEF FromFile
  <2> QED
    BY <1>8, <2>1 DEF RowsAreWhole, FromFile
<1>12. HeldIsThere'
  BY <1>2, <1>4, <1>7 DEF FilesInv, HeldIsThere
<1>13. \A t \in Skus : shelf'[t].price = 0 => shelf'[t].held = 0 /\ shelf'[t].stock = 0
  BY <1>1, <1>2, <1>4, <1>7 DEF FilesInv
<1> QED
  BY <1>7, <1>8, <1>9, <1>10, <1>11, <1>12, <1>13 DEF FilesInv

\* Nothing moves, or every transaction is undone.
LEMMA FilesRest ==
  ASSUME FilesInv, import' = import, shelf' = shelf, runs' = runs,
         batch' = batch \/ batch' = [f \in Files |-> NoTxn]
  PROVE  FilesInv'
<1>1. \A f \in Files : BatchSound(f, batch'[f], import[f].status, shelf)
  <2>1. TAKE f \in Files
  <2>2. batch'[f] = batch[f] \/ batch'[f].phase = "idle"
    BY DEF NoTxn
  <2> QED
    BY <2>2, BatchFacts DEF BatchSound
<1>2. \A f \in Files, s \in Skus : Wrote(f, s)' => Wrote(f, s)
  BY DEF Wrote, Importing, NoTxn
<1>3. OneWriter'
  BY <1>2 DEF FilesInv, OneWriter
<1>4. batch' \in [Files -> {NoTxn, Start} \cup RowsTxn]
  BY DEF FilesInv
<1>5. RunOnce' /\ RowsAreWhole' /\ HeldIsThere'
  BY DEF FilesInv, RunOnce, RowsAreWhole, HeldIsThere
<1> QED
  BY <1>1, <1>3, <1>4, <1>5 DEF FilesInv

-----------------------------------------------------------------------------
(* Intake: the whole of it *)

IntakeInv ==
    /\ PhotosInv /\ FilesInv
    /\ wiring \in {"inline", "worker"} /\ mail \subseteq Photos \cup Files
    /\ crashes \in 0 .. MaxCrashes

LEMMA IntakeInvIsSafe ==
  ASSUME IntakeInv
  PROVE  IntakeSafe
<1>1. ASSUME NEW f \in Files
      PROVE  /\ import[f].status \in {"none", "queued", "done", "failed"}
             /\ batch[f].phase \in {"idle", "start", "rows"}
             /\ Importing(f) => /\ batch[f].next \in 1 .. Len(Rows[f]) + 1
                                /\ batch[f].ok \in 0 .. Len(Rows[f])
  <2>1. import[f].status \in {"none", "queued", "done", "failed"}
    BY DEF IntakeInv, FilesInv, Status
  <2>2. BatchSound(f, batch[f], import[f].status, shelf) /\ batch[f].phase \in {"idle", "start", "rows"}
    BY BatchFacts DEF IntakeInv
  <2>3. Importing(f) => batch[f].ok \in Nat
    BY BatchFacts DEF IntakeInv, RowsTxn
  <2>4. Importing(f) => /\ batch[f].next \in 1 .. Len(Rows[f]) + 1
                        /\ batch[f].ok < batch[f].next
    BY <2>2 DEF BatchSound, Importing
  <2> QED
    BY <2>1, <2>2, <2>3, <2>4, FileRows
<1>2. IntakeTypeOK
  <2>1. /\ upload \in [Photos -> {NoUpload} \cup UploadRow]
        /\ open \in [Photos -> {NoTxn} \cup PhotoTxn]
        /\ bucket \subseteq Photos
    BY DEF IntakeInv, PhotosInv
  <2>2. \A s \in Skus : shelf[s] \in ShelfRow
    BY DEF IntakeInv, FilesInv
  <2> QED
    BY <1>1, <2>1, <2>2 DEF IntakeInv, IntakeTypeOK, UploadRow, PhotoTxn, ShelfRow
<1>3. ImportedOnce
  BY DEF IntakeInv, FilesInv, RunOnce, ImportedOnce
<1> QED
  BY <1>2, <1>3 DEF IntakeInv, PhotosInv, FilesInv, IntakeSafe

LEMMA IntakeInvInit == IntakeInit => IntakeInv
<1> SUFFICES ASSUME IntakeInit PROVE IntakeInv
  OBVIOUS
<1>1. PhotosInv
  <2>1. \A u \in Photos : upload[u] = NoUpload /\ open[u] = NoTxn /\ ~Ready(u)
    BY DEF IntakeInit, Ready, NoUpload
  <2>2. \A u \in Photos : TxnSound(u)
    BY <2>1 DEF TxnSound, NoTxn
  <2>3. /\ upload \in [Photos -> {NoUpload} \cup UploadRow]
        /\ open \in [Photos -> {NoTxn} \cup PhotoTxn] /\ bucket \subseteq Photos
    BY DEF IntakeInit
  <2> QED
    BY <2>1, <2>2, <2>3 DEF PhotosInv, PhotosAreServed
<1>2. FilesInv
  <2>1. \A f \in Files : /\ import[f].status = "none" /\ batch[f] = NoTxn /\ runs[f] = 0
                         /\ batch[f].phase = "idle"
    BY DEF IntakeInit, NoTxn
  <2>2. \A s \in Skus : shelf[s].price = 0 /\ shelf[s].stock = 0 /\ shelf[s].held = 0
    BY DEF IntakeInit, Bare
  <2>3. import \in [Files -> [status : Status, ok : Int, failed : Int]]
    BY DEF IntakeInit, Status
  <2>4. batch \in [Files -> {NoTxn, Start} \cup RowsTxn] /\ runs \in [Files -> Nat]
    BY DEF IntakeInit
  <2>5. shelf \in [Skus -> ShelfRow]
    BY DEF IntakeInit, Bare, ShelfRow
  <2>6. \A f \in Files : BatchSound(f, batch[f], import[f].status, shelf)
    BY <2>1 DEF BatchSound
  <2>7. OneWriter /\ RunOnce
    BY <2>1 DEF OneWriter, RunOnce, Wrote, Importing
  <2>8. RowsAreWhole /\ HeldIsThere
    BY <2>2 DEF RowsAreWhole, HeldIsThere
  <2> QED
    BY <2>2, <2>3, <2>4, <2>5, <2>6, <2>7, <2>8 DEF FilesInv
<1>3. 0 \in 0 .. MaxCrashes
  BY IntakeAssumption
<1> QED
  BY <1>1, <1>2, <1>3 DEF IntakeInv, IntakeInit

LEMMA IntakeInvNext == IntakeInv /\ [IntakeNext]_intakeVars => IntakeInv'
<1> SUFFICES ASSUME IntakeInv, [IntakeNext]_intakeVars
             PROVE  IntakeInv'
  OBVIOUS
<1>1. /\ PhotosInv /\ FilesInv /\ wiring \in {"inline", "worker"}
      /\ mail \subseteq Photos \cup Files /\ crashes \in 0 .. MaxCrashes
  BY DEF IntakeInv
<1>2. ASSUME NEW u \in Photos,
             \/ \E pic \in Pictures : Upload(u, pic)
             \/ UploadCommits(u) \/ WorkerTakes(u) \/ Deduplicates(u) \/ DoesNotRender(u)
             \/ Renders(u) \/ Published(u) \/ Refused(u)
      PROVE  IntakeInv'
  <2>1. PhotosInv'
    BY <1>1, <1>2, UploadKeeps, UploadCommitsKeeps, WorkerTakesKeeps, SettlesKeep, RendersKeeps,
       RefusedKeeps
  <2>2. /\ wiring' = wiring /\ crashes' = crashes
        /\ import' = import /\ shelf' = shelf /\ runs' = runs /\ batch' = batch
    BY <1>2 DEF Upload, UploadCommits, WorkerTakes, Deduplicates, DoesNotRender, Renders,
                Published, Refused, fileVars
  <2>3. FilesInv'
    BY <1>1, <2>2, FilesRest
  <2>4. mail' \subseteq mail \cup {u}
    BY <1>2 DEF Upload, UploadCommits, WorkerTakes, Deduplicates, DoesNotRender, Renders,
                Published, Refused, Settles
  <2> QED
    BY <1>1, <2>1, <2>2, <2>3, <2>4 DEF IntakeInv
<1>3. ASSUME NEW f \in Files,
             \/ StartImport(f) \/ StartCommits(f) \/ WorkerImports(f)
             \/ UpdatesRow(f) \/ InsertsRow(f) \/ FailsRow(f) \/ ImportFails(f) \/ ImportDone(f)
      PROVE  IntakeInv'
  <2>1. FilesInv'
    BY <1>1, <1>3, StartImportKeeps, StatusKeeps, WorkerImportsKeeps, UpdatesRowKeeps,
       InsertsRowKeeps, FailsRowKeeps, ImportDoneKeeps
  <2>2. /\ wiring' = wiring /\ crashes' = crashes
        /\ upload' = upload /\ bucket' = bucket /\ open' = open
    BY <1>3 DEF StartImport, StartCommits, WorkerImports, UpdatesRow, InsertsRow, FailsRow,
                ImportFails, ImportDone, photoVars
  <2>3. PhotosInv'
    BY <1>1, <2>2, PhotosRest
  <2>4. mail' \subseteq mail \cup {f}
    BY <1>3 DEF StartImport, StartCommits, WorkerImports, UpdatesRow, InsertsRow, FailsRow,
                ImportFails, ImportDone
  <2> QED
    BY <1>1, <2>1, <2>2, <2>3, <2>4 DEF IntakeInv
<1>4. ASSUME NEW s \in Skus, HoldsOne(s)
      PROVE  IntakeInv'
  <2>1. FilesInv'
    BY <1>1, <1>4, HoldsOneKeeps
  <2>2. /\ wiring' = wiring /\ crashes' = crashes /\ mail' = mail
        /\ upload' = upload /\ bucket' = bucket /\ open' = open
    BY <1>4 DEF HoldsOne, photoVars
  <2>3. PhotosInv'
    BY <1>1, <2>2, PhotosRest
  <2> QED
    BY <1>1, <2>1, <2>2, <2>3 DEF IntakeInv
<1>5. CASE IntakeCrashes
  <2>1. /\ wiring' = wiring /\ mail' = mail /\ crashes < MaxCrashes /\ crashes' = crashes + 1
        /\ upload' = upload /\ bucket' = bucket /\ open' = [u \in Photos |-> NoTxn]
        /\ import' = import /\ shelf' = shelf /\ runs' = runs
        /\ batch' = [f \in Files |-> NoTxn]
    BY <1>5 DEF IntakeCrashes
  <2>2. PhotosInv' /\ FilesInv'
    BY <1>1, <2>1, PhotosRest, FilesRest
  <2>3. MaxCrashes \in Nat
    BY IntakeAssumption
  <2>4. crashes' \in 0 .. MaxCrashes
    BY <1>1, <2>1, <2>3
  <2> QED
    BY <1>1, <2>1, <2>2, <2>4 DEF IntakeInv
<1>6. CASE UNCHANGED intakeVars
  <2>1. /\ wiring' = wiring /\ mail' = mail /\ crashes' = crashes
        /\ upload' = upload /\ bucket' = bucket /\ open' = open
        /\ import' = import /\ shelf' = shelf /\ runs' = runs /\ batch' = batch
    BY <1>6 DEF intakeVars, photoVars, fileVars
  <2>2. PhotosInv' /\ FilesInv'
    BY <1>1, <2>1, PhotosRest, FilesRest
  <2> QED
    BY <1>1, <2>1, <2>2 DEF IntakeInv
<1> QED
  BY <1>2, <1>3, <1>4, <1>5, <1>6 DEF IntakeNext

\* Through crashes and repeated deliveries of the worker's jobs: a photo that is ready is
\* served from renditions of its own picture, a file is imported once and in whole rows,
\* and no import takes a piece a buyer has reserved.
THEOREM IntakeSafeHolds == IntakeSpec => []IntakeSafe
<1>1. IntakeInit => IntakeInv
  BY IntakeInvInit
<1>2. IntakeInv /\ [IntakeNext]_intakeVars => IntakeInv'
  BY IntakeInvNext
<1>3. IntakeInv => IntakeSafe
  BY IntakeInvIsSafe
<1> QED
  BY <1>1, <1>2, <1>3, PTL DEF IntakeSpec

-----------------------------------------------------------------------------
(* Accounts: the inductive invariant *)

UserRow == [status : {None, "active", "deleted"}, handle : Handles \cup {None}]
CodeRow == [handle : Handles, tries : 0 .. MaxTries, consumed : BOOLEAN, expired : BOOLEAN]
FamilyRow ==
    [user : Customers, code : Nat, issued : Numbers, live : SUBSET Numbers, expired : BOOLEAN]
Unasked == [status |-> None]
ErasureRow ==
    [status : {"pending", "cancelled", "completed"}, user : Customers, due : BOOLEAN]

AskCall == [op : {"ask"}, handle : Handles]
SignCall == [op : {"verify", "login"}, code : Nat, user : Customers, handle : Handles,
             new : BOOLEAN]
RotateCall == [op : {"rotate"}, family : Families, token : Numbers]
RevokeCall == [op : {"revoke"}, family : Families, seen : Numbers]
SeenTokens == UNION {[F -> Numbers] : F \in SUBSET Families}
EraseCall == [op : {"erase"}, request : Requests, seen : SeenTokens]
DeviceCall == {Hung} \cup AskCall \cup SignCall \cup RotateCall \cup RevokeCall \cup EraseCall

AccountsTypes ==
    /\ user \in [Customers -> UserRow]
    /\ ordering \subseteq Customers
    /\ code \in [DOMAIN code -> CodeRow]
    /\ DOMAIN code \subseteq Nat /\ IsFiniteSet(DOMAIN code)
    /\ family \in [Families -> FamilyRow \cup {Unopened}]
    /\ erasure \in [Requests -> ErasureRow \cup {Unasked}]
    /\ call \in [Devices -> DeviceCall]

\* Of a session only the last token can be live.
LiveIsLast == \A f \in Families : Opened(f) => family[f].live \subseteq {family[f].issued}

\* The code a session was opened with is consumed.
CodesUsed ==
    \A f \in Families :
        Opened(f) /\ family[f].code # 0 =>
            family[f].code \in DOMAIN code /\ code[family[f].code].consumed

\* What an open request has locked is still as it was found: the code is unused, the
\* token the last of its session, the deletion undecided.
DeviceSound(x) ==
    /\ x.op = "verify" => x.code \in DOMAIN code /\ ~code[x.code].consumed
    /\ x.op = "login" => x.code = 0
    /\ x.op = "rotate" =>
         /\ Opened(x.family) /\ x.token = family[x.family].issued
         /\ family[x.family].issued < MaxTokens
    /\ x.op = "revoke" => Opened(x.family)
    /\ x.op = "erase" =>
         /\ erasure[x.request].status = "pending"
         /\ \A f \in DOMAIN x.seen : Opened(f)

\* Two open requests hold different rows.
Apart(x, y) ==
    /\ x.op = "verify" /\ y.op = "verify" => x.code # y.code
    /\ x.op = "rotate" /\ y.op = "rotate" => x.family # y.family
    /\ x.op = "erase" /\ y.op = "erase" => x.request # y.request

AccountsInv ==
    /\ AccountsTypes
    /\ LiveIsLast
    /\ CodesUsed
    /\ CodesWorkOnce
    /\ DeletedOnRequest
    /\ \A d \in Devices : DeviceSound(call[d])
    /\ \A c, d \in Devices : c # d => Apart(call[c], call[d])

LEMMA FamilyRows ==
  /\ \A x \in FamilyRow : x # Unopened
  /\ \A x \in ErasureRow : x # Unasked
  /\ Unopened \notin FamilyRow
<1>1. \A x \in FamilyRow : DOMAIN x = {"user", "code", "issued", "live", "expired"}
  BY DEF FamilyRow
<1>2. DOMAIN Unopened = {"user"}
  BY DEF Unopened
<1>3. \A x \in ErasureRow : x.status # None
  BY DEF ErasureRow, None
<1>4. Unasked.status = None
  BY DEF Unasked
<1> QED
  BY <1>1, <1>2, <1>3, <1>4

LEMMA OpenedFacts ==
  ASSUME AccountsInv, NEW f \in Families
  PROVE  /\ Opened(f) <=> family[f] \in FamilyRow
         /\ ~Opened(f) => family[f] = Unopened
  BY FamilyRows DEF Opened, AccountsInv, AccountsTypes

LEMMA HungIsSound == DeviceSound(Hung) /\ \A x : Apart(x, Hung) /\ Apart(Hung, x)
  BY DEF DeviceSound, Apart, Hung, None

LEMMA AccountsInit_holds == AccountsInit => AccountsInv
<1> SUFFICES ASSUME AccountsInit PROVE AccountsInv
  OBVIOUS
<1> USE DEF AccountsInit
<1>1. DOMAIN code = {} /\ code \in [DOMAIN code -> CodeRow] /\ IsFiniteSet(DOMAIN code)
  BY FS_EmptySet
<1>2. AccountsTypes
  BY <1>1 DEF AccountsTypes, UserRow, Unasked, DeviceCall
<1>3. \A f \in Families : ~Opened(f)
  BY DEF Opened
<1>4. LiveIsLast /\ CodesUsed /\ CodesWorkOnce
  BY <1>3 DEF LiveIsLast, CodesUsed, CodesWorkOnce
<1>5. DeletedOnRequest
  BY DEF DeletedOnRequest, None
<1>6. \A d \in Devices : call[d] = Hung
  OBVIOUS
<1> QED
  BY <1>2, <1>4, <1>5, <1>6, HungIsSound DEF AccountsInv

LEMMA AccountsInvImplies ==
  AccountsInv => AccountsTypeOK /\ CodesWorkOnce /\ OneLive /\ DeletedOnRequest
<1> SUFFICES ASSUME AccountsInv
             PROVE  AccountsTypeOK /\ CodesWorkOnce /\ OneLive /\ DeletedOnRequest
  OBVIOUS
<1>1. \A f \in Families : Opened(f) =>
        /\ family[f].issued \in Numbers /\ family[f].live \subseteq {family[f].issued}
        /\ family[f].live \subseteq Brings(f)
  <2> TAKE f \in Families
  <2> HAVE Opened(f)
  <2>1. family[f].issued \in Numbers /\ family[f].live \subseteq {family[f].issued}
    BY OpenedFacts DEF AccountsInv, LiveIsLast, FamilyRow
  <2>2. family[f].issued \in 1 .. family[f].issued
    BY <2>1 DEF Numbers
  <2> QED
    BY <2>1, <2>2 DEF Brings
<1>2. \A d \in Devices :
        call[d].op \in {None, "ask", "verify", "login", "rotate", "revoke", "erase"}
  BY DEF AccountsInv, AccountsTypes, DeviceCall, Hung, AskCall, SignCall, RotateCall, RevokeCall,
         EraseCall
<1>3. \A r \in Requests : erasure[r].status \in {None, "pending", "cancelled", "completed"}
  BY DEF AccountsInv, AccountsTypes, ErasureRow, Unasked
<1>4. AccountsTypeOK
  <2>1. \A k \in DOMAIN code : code[k].handle \in Handles /\ code[k].tries \in 0 .. MaxTries
    BY DEF AccountsInv, AccountsTypes, CodeRow
  <2>2. \A u \in Customers :
          /\ user[u].status \in {None, "active", "deleted"}
          /\ user[u].handle \in Handles \cup {None}
    BY DEF AccountsInv, AccountsTypes, UserRow
  <2> QED
    BY <1>1, <1>2, <1>3, <2>1, <2>2 DEF AccountsTypeOK, AccountsInv, AccountsTypes
<1>5. OneLive
  <2> SUFFICES ASSUME NEW f \in Families, Opened(f)
               PROVE  Cardinality(family[f].live) <= 1
    BY DEF OneLive
  <2>1. PICK n : n = family[f].issued
    OBVIOUS
  <2>2. IsFiniteSet({n}) /\ Cardinality({n}) = 1
    BY FS_Singleton
  <2>3. family[f].live \subseteq {n}
    BY <1>1, <2>1
  <2> QED
    BY <2>2, <2>3, FS_Subset
<1> QED
  BY <1>4, <1>5 DEF AccountsInv

-----------------------------------------------------------------------------
(* Accounts: a request opens *)

LEMMA CallOpens ==
  ASSUME AccountsInv, NEW d \in Devices, NEW x \in DeviceCall, DeviceSound(x),
         \A c \in Devices \ {d} : Apart(x, call[c]),
         call' = [call EXCEPT ![d] = x],
         UNCHANGED <<user, ordering, code, quiet, family, erasure>>
  PROVE  AccountsInv'
<1>1. call' \in [Devices -> DeviceCall] /\ call'[d] = x
      /\ \A c \in Devices \ {d} : call'[c] = call[c]
  BY DEF AccountsInv, AccountsTypes
<1>2. AccountsTypes'
  BY <1>1 DEF AccountsInv, AccountsTypes
<1>3. /\ LiveIsLast' /\ CodesUsed' /\ CodesWorkOnce' /\ DeletedOnRequest'
  BY DEF AccountsInv, LiveIsLast, CodesUsed, CodesWorkOnce, DeletedOnRequest, Opened
<1>4. ASSUME NEW c \in Devices PROVE DeviceSound(call[c])'
  <2>1. DeviceSound(call'[c])
    BY <1>1 DEF AccountsInv
  <2> QED
    BY <2>1 DEF DeviceSound, Opened
<1>5. \A a, b \in Devices : a # b => Apart(call'[a], call'[b])
  BY <1>1 DEF AccountsInv, Apart
<1>6. \A a, b \in Devices : a # b => Apart(call[a], call[b])'
  BY <1>5 DEF Apart
<1> QED
  BY <1>2, <1>3, <1>4, <1>6 DEF AccountsInv

\* A request ends and the others stay as they were, or none does.
CallsEnd ==
    /\ call' \in [Devices -> DeviceCall]
    /\ \A c \in Devices : call'[c] \in {call[c], Hung}

LEMMA CallEnds ==
  ASSUME AccountsInv, NEW d \in Devices, call' = [call EXCEPT ![d] = Hung]
  PROVE  CallsEnd /\ call'[d] = Hung
  BY DEF CallsEnd, AccountsInv, AccountsTypes, DeviceCall

LEMMA CallsStay ==
  ASSUME AccountsInv, call' = call
  PROVE  CallsEnd
  BY DEF CallsEnd, AccountsInv, AccountsTypes

LEMMA CallsApart ==
  ASSUME AccountsInv, CallsEnd
  PROVE  \A c, d \in Devices : c # d => Apart(call[c], call[d])'
<1>1. \A c, d \in Devices : c # d => Apart(call'[c], call'[d])
  BY HungIsSound DEF AccountsInv, CallsEnd
<1> QED
  BY <1>1 DEF Apart

-----------------------------------------------------------------------------
(* Accounts: rows are written *)

\* Codes are added, counted or expired, and none is consumed or unconsumed.
LEMMA CodesChange ==
  ASSUME AccountsInv, CallsEnd, code' \in [DOMAIN code' -> CodeRow],
         DOMAIN code' \subseteq Nat, IsFiniteSet(DOMAIN code'), DOMAIN code \subseteq DOMAIN code',
         \A k \in DOMAIN code : code'[k].consumed = code[k].consumed,
         UNCHANGED <<user, ordering, family, erasure>>
  PROVE  AccountsInv'
<1>1. AccountsTypes'
  BY DEF AccountsInv, AccountsTypes, CallsEnd
<1>2. LiveIsLast' /\ CodesWorkOnce' /\ DeletedOnRequest'
  BY DEF AccountsInv, LiveIsLast, CodesWorkOnce, DeletedOnRequest, Opened
<1>3. CodesUsed'
  BY DEF AccountsInv, CodesUsed, Opened
<1>4. ASSUME NEW c \in Devices PROVE DeviceSound(call[c])'
  <2>1. DeviceSound(call'[c])
    BY HungIsSound DEF AccountsInv, CallsEnd
  <2> QED
    BY <2>1 DEF DeviceSound, Opened
<1> QED
  BY <1>1, <1>2, <1>3, <1>4, CallsApart DEF AccountsInv

\* Tokens of sessions are issued, revoked or expire, none where a rotation is open.
LEMMA FamiliesChange ==
  ASSUME AccountsInv, CallsEnd, family' \in [Families -> FamilyRow \cup {Unopened}],
         \A f \in Families :
            /\ Opened(f)' <=> Opened(f)
            /\ Opened(f) => /\ family'[f].code = family[f].code
                            /\ family'[f].live \subseteq {family'[f].issued},
         \A c \in Devices : call'[c].op = "rotate" =>
            family'[call'[c].family].issued = family[call'[c].family].issued,
         UNCHANGED <<user, ordering, code, erasure>>
  PROVE  AccountsInv'
<1>1. AccountsTypes'
  BY DEF AccountsInv, AccountsTypes, CallsEnd
<1>2. LiveIsLast'
  BY DEF LiveIsLast
<1>3. CodesUsed' /\ CodesWorkOnce'
  BY DEF AccountsInv, CodesUsed, CodesWorkOnce
<1>4. DeletedOnRequest'
  BY DEF AccountsInv, DeletedOnRequest
<1>5. ASSUME NEW c \in Devices PROVE DeviceSound(call[c])'
  <2>1. DeviceSound(call'[c]) /\ call'[c] \in DeviceCall
    BY HungIsSound DEF AccountsInv, CallsEnd
  <2>2. PICK x \in DeviceCall : x = call'[c]
    BY <2>1
  <2>3. x.op \in {"rotate", "revoke"} => x.family \in Families
    BY DEF DeviceCall, Hung, None, AskCall, SignCall, RotateCall, RevokeCall, EraseCall
  <2>4. x.op = "erase" => DOMAIN x.seen \subseteq Families
    BY DEF DeviceCall, Hung, None, AskCall, SignCall, RotateCall, RevokeCall, EraseCall, SeenTokens
  <2> QED
    BY <2>1, <2>2, <2>3, <2>4 DEF DeviceSound
<1> QED
  BY <1>1, <1>2, <1>3, <1>4, <1>5, CallsApart DEF AccountsInv

\* Deletion requests are made, cancelled or fall due, none that is being carried out.
LEMMA ErasuresChange ==
  ASSUME AccountsInv, call' = call, erasure' \in [Requests -> ErasureRow \cup {Unasked}],
         \A r \in Requests : /\ erasure'[r].status = "completed" <=> erasure[r].status = "completed"
                             /\ erasure[r].status = "completed" => erasure'[r] = erasure[r],
         \A c \in Devices : call[c].op = "erase" => erasure'[call[c].request].status = "pending",
         UNCHANGED <<user, ordering, code, family>>
  PROVE  AccountsInv'
<1>1. AccountsTypes'
  BY DEF AccountsInv, AccountsTypes
<1>2. LiveIsLast' /\ CodesUsed' /\ CodesWorkOnce'
  BY DEF AccountsInv, LiveIsLast, CodesUsed, CodesWorkOnce, Opened
<1>3. DeletedOnRequest'
  BY DEF AccountsInv, DeletedOnRequest
<1>4. ASSUME NEW c \in Devices PROVE DeviceSound(call[c])'
  BY DEF AccountsInv, DeviceSound, Opened
<1> QED
  BY <1>1, <1>2, <1>3, <1>4, CallsStay, CallsApart DEF AccountsInv

-----------------------------------------------------------------------------
(* Accounts: the steps of a request *)

LEMMA AsksForCodeKeeps ==
  ASSUME AccountsInv, NEW d \in Devices, NEW h \in Handles, AsksForCode(d, h)
  PROVE  AccountsInv'
<1> DEFINE x == [op |-> "ask", handle |-> h]
<1>1. x \in DeviceCall /\ DeviceSound(x) /\ \A y : Apart(x, y)
  BY DEF DeviceCall, AskCall, DeviceSound, Apart
<1> QED
  BY <1>1, CallOpens DEF AsksForCode, Places

LEMMA SendsCodeKeeps ==
  ASSUME AccountsInv, NEW d \in Devices, SendsCode(d)
  PROVE  AccountsInv'
<1> DEFINE new == Cardinality(DOMAIN code) + 1
           D == DOMAIN code \cup {new}
           row == [handle |-> call[d].handle, tries |-> 0, consumed |-> FALSE, expired |-> FALSE]
<1>1. call[d] \in AskCall
  BY DEF AccountsInv, AccountsTypes, SendsCode, DeviceCall, Hung, None, SignCall, RotateCall,
         RevokeCall, EraseCall
<1>2. row \in CodeRow
  BY <1>1, AccountsAssumption DEF AskCall, CodeRow, AccountsAssumption
<1>3. DOMAIN code \subseteq Nat /\ IsFiniteSet(DOMAIN code)
      /\ code \in [DOMAIN code -> CodeRow]
  BY DEF AccountsInv, AccountsTypes
<1>4. new \in Nat
  BY <1>3, FS_CardinalityType
<1>5. D \subseteq Nat /\ IsFiniteSet(D)
  BY <1>3, <1>4, FS_AddElement
<1>6. code' = [k \in D |-> IF k \in DOMAIN code THEN code[k] ELSE row]
  BY DEF SendsCode
<1>7. DOMAIN code' = D /\ code' \in [D -> CodeRow] /\ \A k \in DOMAIN code : code'[k] = code[k]
  BY <1>2, <1>3, <1>6
<1>8. CallsEnd
  BY CallEnds DEF SendsCode, Ends
<1>9. UNCHANGED <<user, ordering, family, erasure>>
  BY DEF SendsCode
<1> QED
  BY <1>5, <1>7, <1>8, <1>9, CodesChange

LEMMA PassesKeeps ==
  ASSUME AccountsInv, Passes
  PROVE  AccountsInv'
<1>1. PICK old \in SUBSET DOMAIN code :
        code' = [k \in DOMAIN code |-> [code[k] EXCEPT !.expired = @ \/ k \in old]]
  BY DEF Passes
<1>2. DOMAIN code' = DOMAIN code /\ CallsEnd /\ DOMAIN code \subseteq Nat /\ IsFiniteSet(DOMAIN code)
  BY <1>1, CallsStay DEF Passes, AccountsInv, AccountsTypes
<1>3. ASSUME NEW k \in DOMAIN code
      PROVE  code'[k] \in CodeRow /\ code'[k].consumed = code[k].consumed
  <2>1. code[k] \in CodeRow
    BY DEF AccountsInv, AccountsTypes
  <2>2. PICK b \in BOOLEAN : b = (code[k].expired \/ k \in old)
    OBVIOUS
  <2>3. code'[k] = [code[k] EXCEPT !.expired = b]
    BY <1>1, <2>2
  <2> QED
    BY <2>1, <2>3 DEF CodeRow
<1>4. code' \in [DOMAIN code -> CodeRow]
  BY <1>1, <1>3
<1>5. UNCHANGED <<user, ordering, family, erasure>>
  BY DEF Passes
<1> QED
  BY <1>2, <1>3, <1>4, <1>5, CodesChange

LEMMA WrongCodeKeeps ==
  ASSUME AccountsInv, NEW h \in Handles, WrongCode(h)
  PROVE  AccountsInv'
<1>1. PICK k \in Newest(h) : Usable(k) /\ code' = [code EXCEPT ![k].tries = @ + 1]
  BY DEF WrongCode
<1>2. k \in DOMAIN code /\ code[k].tries < MaxTries
  BY <1>1 DEF Newest, Usable
<1>3. code \in [DOMAIN code -> CodeRow] /\ DOMAIN code \subseteq Nat /\ IsFiniteSet(DOMAIN code)
  BY DEF AccountsInv, AccountsTypes
<1>4. PICK row : row = [code[k] EXCEPT !.tries = code[k].tries + 1]
  OBVIOUS
<1>5. row \in CodeRow /\ row.consumed = code[k].consumed
  BY <1>2, <1>3, <1>4, AccountsAssumption DEF CodeRow, AccountsAssumption
<1>6. code' = [code EXCEPT ![k] = row]
  BY <1>1, <1>2, <1>3, <1>4
<1>7. DOMAIN code' = DOMAIN code /\ code' \in [DOMAIN code -> CodeRow]
      /\ \A j \in DOMAIN code : code'[j].consumed = code[j].consumed
  BY <1>2, <1>3, <1>5, <1>6
<1>8. UNCHANGED <<user, ordering, family, erasure>> /\ CallsEnd
  BY CallsStay DEF WrongCode
<1> QED
  BY <1>3, <1>7, <1>8, CodesChange

LEMMA RightCodeKeeps ==
  ASSUME AccountsInv, NEW d \in Devices, NEW h \in Handles, RightCode(d, h)
  PROVE  AccountsInv'
<1>1. PICK k \in Newest(h), u \in Customers :
        /\ ~CodeLocked(k)
        /\ Places(d, [op |-> "verify", code |-> k, user |-> u, handle |-> h,
                      new |-> Owner(h) = {}])
  BY DEF RightCode
<1>2. PICK new \in BOOLEAN : new = (Owner(h) = {})
  OBVIOUS
<1> DEFINE x == [op |-> "verify", code |-> k, user |-> u, handle |-> h, new |-> new]
<1>3. k \in DOMAIN code /\ ~code[k].consumed
  BY DEF Newest
<1>4. k \in Nat
  BY <1>3 DEF AccountsInv, AccountsTypes
<1>5. x \in DeviceCall
  BY <1>4 DEF DeviceCall, SignCall
<1>6. DeviceSound(x)
  BY <1>3 DEF DeviceSound
<1>7. \A c \in Devices : Apart(x, call[c])
  BY <1>1 DEF CodeLocked, Apart
<1>8. call' = [call EXCEPT ![d] = x]
  BY <1>1, <1>2 DEF Places
<1> QED
  BY <1>5, <1>6, <1>7, <1>8, CallOpens DEF RightCode

LEMMA LoginKeeps ==
  ASSUME AccountsInv, NEW d \in Devices, NEW h \in Handles, Registers(d, h) \/ LogsIn(d, h)
  PROVE  AccountsInv'
<1>1. PICK u \in Customers, new \in BOOLEAN :
        Places(d, [op |-> "login", code |-> 0, user |-> u, handle |-> h, new |-> new])
  BY DEF Registers, LogsIn, Owner
<1> DEFINE x == [op |-> "login", code |-> 0, user |-> u, handle |-> h, new |-> new]
<1>2. x \in DeviceCall /\ DeviceSound(x) /\ \A y : Apart(x, y)
  BY DEF DeviceCall, SignCall, DeviceSound, Apart
<1> QED
  BY <1>1, <1>2, CallOpens DEF Registers, LogsIn, Places

LEMMA HangsUpKeeps ==
  ASSUME AccountsInv, NEW d \in Devices, HangsUp(d)
  PROVE  AccountsInv'
<1>1. Hung \in DeviceCall
  BY DEF DeviceCall
<1> QED
  BY <1>1, HungIsSound, CallOpens DEF HangsUp, Ends

\* The session, the customer and the use of the code are one commit.
LEMMA SignsInKeeps ==
  ASSUME AccountsInv, NEW d \in Devices, NEW f \in Families, SignsIn(d, f)
  PROVE  AccountsInv'
<1>1. PICK c : c = call[d]
  OBVIOUS
<1>2. c \in SignCall /\ DeviceSound(c)
  BY <1>1 DEF SignsIn, AccountsInv, AccountsTypes, DeviceCall, Hung, None, AskCall, SignCall,
              RotateCall, RevokeCall, EraseCall
<1>3. /\ c.code \in Nat /\ c.user \in Customers /\ c.handle \in Handles
      /\ c.op \in {"verify", "login"}
  BY <1>2 DEF SignCall
<1>4. PICK row : row = [user |-> c.user, code |-> c.code, issued |-> 1, live |-> {1},
                        expired |-> FALSE]
  OBVIOUS
<1>5. row \in FamilyRow /\ row # Unopened /\ row.live \subseteq {row.issued} /\ row.issued = 1
  <2>1. 1 \in Numbers
    BY AccountsAssumption DEF AccountsAssumption, Numbers
  <2>2. row \in FamilyRow
    BY <1>3, <1>4, <2>1 DEF FamilyRow
  <2> QED
    BY <1>4, <2>2, FamilyRows
<1>6. family' = [family EXCEPT ![f] = row] /\ ~Opened(f)
  BY <1>1, <1>4 DEF SignsIn
<1>7. /\ family' \in [Families -> FamilyRow \cup {Unopened}] /\ family'[f] = row
      /\ \A g \in Families \ {f} : family'[g] = family[g]
  BY <1>5, <1>6 DEF AccountsInv, AccountsTypes
<1>8. /\ \A g \in Families \ {f} : Opened(g)' <=> Opened(g)
      /\ Opened(f)'
  BY <1>5, <1>7 DEF Opened
<1>9. CallsEnd /\ call'[d] = Hung /\ UNCHANGED <<ordering, quiet, erasure>>
  BY CallEnds DEF SignsIn, Ends
<1>10. /\ DOMAIN code' = DOMAIN code /\ code' \in [DOMAIN code -> CodeRow]
       /\ \A k \in DOMAIN code :
            code'[k].consumed = (code[k].consumed \/ (c.op = "verify" /\ k = c.code))
  <2>1. CASE c.op = "verify"
    <3>1. c.code \in DOMAIN code
      BY <1>2, <2>1 DEF DeviceSound
    <3>2. code' = [code EXCEPT ![c.code].consumed = TRUE]
      BY <1>1, <2>1 DEF SignsIn
    <3>3. PICK new : new = [code[c.code] EXCEPT !.consumed = TRUE]
      OBVIOUS
    <3>4. code \in [DOMAIN code -> CodeRow]
      BY DEF AccountsInv, AccountsTypes
    <3>5. new \in CodeRow /\ new.consumed = TRUE
      BY <3>1, <3>3, <3>4 DEF CodeRow
    <3>6. code' = [code EXCEPT ![c.code] = new]
      BY <3>1, <3>2, <3>3, <3>4
    <3>7. DOMAIN code' = DOMAIN code /\ code' \in [DOMAIN code -> CodeRow]
          /\ code'[c.code] = new /\ \A k \in DOMAIN code \ {c.code} : code'[k] = code[k]
      BY <3>1, <3>4, <3>5, <3>6
    <3>8. \A k \in DOMAIN code : code[k].consumed \in BOOLEAN
      BY <3>4 DEF CodeRow
    <3> QED
      BY <2>1, <3>5, <3>7, <3>8
  <2>2. CASE c.op # "verify"
    <3>1. code' = code
      BY <1>1, <2>2 DEF SignsIn
    <3>2. \A k \in DOMAIN code : code[k].consumed \in BOOLEAN
      BY DEF AccountsInv, AccountsTypes, CodeRow
    <3> QED
      BY <2>2, <3>1, <3>2 DEF AccountsInv, AccountsTypes
  <2> QED
    BY <2>1, <2>2
<1>11. /\ user' \in [Customers -> UserRow]
       /\ CASE c.new -> /\ user' = [user EXCEPT ![c.user] = [status |-> "active", handle |-> c.handle]]
                        /\ HandleFree(c.handle, c.user)
            [] OTHER -> user' = user
  BY <1>1, <1>3 DEF SignsIn, AccountsInv, AccountsTypes, UserRow
<1>12. AccountsTypes'
  BY <1>7, <1>9, <1>10, <1>11 DEF AccountsTypes, AccountsInv, CallsEnd
<1>13. LiveIsLast'
  BY <1>5, <1>7, <1>8 DEF LiveIsLast, AccountsInv
<1>14. CodesUsed'
  <2>1. ASSUME NEW g \in Families \ {f}, Opened(g)', family'[g].code # 0
        PROVE  family'[g].code \in DOMAIN code' /\ code'[family'[g].code].consumed
    BY <2>1, <1>7, <1>8, <1>10 DEF AccountsInv, CodesUsed
  <2>2. ASSUME c.code # 0
        PROVE  c.code \in DOMAIN code' /\ code'[c.code].consumed
    <3>1. c.op = "verify" /\ c.code \in DOMAIN code
      BY <1>2, <1>3, <2>2 DEF DeviceSound
    <3>2. code'[c.code].consumed = (code[c.code].consumed \/ TRUE)
      BY <1>10, <3>1
    <3> QED
      BY <1>10, <3>1, <3>2
  <2>3. family'[f].code = c.code
    BY <1>4, <1>7
  <2> QED
    BY <2>1, <2>2, <2>3 DEF CodesUsed
<1>15. CodesWorkOnce'
  <2>1. ASSUME NEW g \in Families \ {f}, Opened(g), c.code # 0
        PROVE  family[g].code # c.code
    BY <2>1, <1>2, <1>3 DEF AccountsInv, CodesUsed, DeviceSound
  <2>2. ASSUME NEW a \in Families, NEW b \in Families, a # b, Opened(a)', Opened(b)',
               family'[a].code # 0
        PROVE  family'[a].code # family'[b].code
    <3>1. row.code = c.code
      BY <1>4
    <3> QED
      BY <2>1, <2>2, <3>1, <1>7, <1>8 DEF AccountsInv, CodesWorkOnce
  <2>3. \A u, v \in Customers : u # v /\ user'[u].handle = user'[v].handle => user'[u].handle = None
    <3>1. CASE c.new
      <4>1. /\ user'[c.user] = [status |-> "active", handle |-> c.handle]
            /\ \A u \in Customers \ {c.user} : user'[u] = user[u] /\ user[u].handle # c.handle
        BY <1>3, <1>11, <3>1 DEF HandleFree, Owner, AccountsInv, AccountsTypes
      <4> QED
        BY <4>1 DEF AccountsInv, CodesWorkOnce
    <3>2. CASE ~c.new
      BY <1>11, <3>2 DEF AccountsInv, CodesWorkOnce
    <3> QED
      BY <3>1, <3>2
  <2> QED
    BY <2>2, <2>3 DEF CodesWorkOnce
<1>16. DeletedOnRequest'
  <2>1. \A u \in Customers : user'[u].status = "deleted" <=> user[u].status = "deleted"
    <3>1. CASE c.new
      BY <1>3, <1>11, <3>1 DEF HandleFree, Known, None, AccountsInv, AccountsTypes
    <3>2. CASE ~c.new
      BY <1>11, <3>2
    <3> QED
      BY <3>1, <3>2
  <2> QED
    BY <1>9, <2>1 DEF AccountsInv, DeletedOnRequest
<1>17. ASSUME NEW b \in Devices PROVE DeviceSound(call[b])'
  <2>1. CASE call'[b] = Hung
    BY <2>1 DEF DeviceSound, Hung, None
  <2>2. CASE call'[b] # Hung
    <3>1. b # d /\ call'[b] = call[b]
      BY <2>2, <1>9 DEF CallsEnd
    <3>2. PICK x \in DeviceCall : x = call[b]
      BY DEF AccountsInv, AccountsTypes
    <3>3. DeviceSound(x) /\ Apart(x, c)
      BY <3>1, <3>2, <1>1 DEF AccountsInv
    <3>4. \A g \in Families : Opened(g) => Opened(g)' /\ family'[g] = family[g]
      BY <1>6, <1>7, <1>8
    <3>5. x.op \in {"rotate", "revoke"} => x.family \in Families
      BY DEF DeviceCall, Hung, None, AskCall, SignCall, RotateCall, RevokeCall, EraseCall
    <3>6. x.op = "erase" => DOMAIN x.seen \subseteq Families
      BY DEF DeviceCall, Hung, None, AskCall, SignCall, RotateCall, RevokeCall, EraseCall, SeenTokens
    <3>7. x.op = "verify" => x.code \in DOMAIN code' /\ ~code'[x.code].consumed
      BY <3>3, <1>10 DEF DeviceSound, Apart
    <3>8. x.op = "rotate" =>
            /\ Opened(x.family)' /\ x.token = family'[x.family].issued
            /\ family'[x.family].issued < MaxTokens
      BY <3>3, <3>4, <3>5 DEF DeviceSound
    <3>9. x.op = "erase" =>
            erasure'[x.request].status = "pending" /\ \A g \in DOMAIN x.seen : Opened(g)'
      BY <3>3, <3>4, <3>6, <1>9 DEF DeviceSound
    <3>10. (x.op = "revoke" => Opened(x.family)') /\ (x.op = "login" => x.code = 0)
      BY <3>3, <3>4, <3>5 DEF DeviceSound
    <3> QED
      BY <3>1, <3>2, <3>7, <3>8, <3>9, <3>10 DEF DeviceSound
  <2> QED
    BY <2>1, <2>2
<1> QED
  BY <1>9, <1>12, <1>13, <1>14, <1>15, <1>16, <1>17, CallsApart DEF AccountsInv

-----------------------------------------------------------------------------
(* Accounts: tokens are rotated and revoked *)

LEMMA BroughtIsOpened ==
  ASSUME NEW f \in Families, NEW i \in Brings(f)
  PROVE  Opened(f) /\ i \in 1 .. family[f].issued
  BY DEF Brings

LEMMA RotatesKeeps ==
  ASSUME AccountsInv, NEW d \in Devices, NEW f \in Families, NEW i \in Numbers, Rotates(d, f, i)
  PROVE  AccountsInv'
<1> DEFINE x == [op |-> "rotate", family |-> f, token |-> i]
<1>1. Opened(f) /\ i \in family[f].live /\ ~TokenLocked(f, i) /\ family[f].issued < MaxTokens
  BY BroughtIsOpened DEF Rotates
<1>2. i = family[f].issued
  BY <1>1 DEF AccountsInv, LiveIsLast
<1>3. x \in DeviceCall /\ DeviceSound(x)
  BY <1>1, <1>2 DEF DeviceCall, RotateCall, DeviceSound
<1>4. ASSUME NEW c \in Devices PROVE Apart(x, call[c])
  <2> SUFFICES ASSUME call[c].op = "rotate", call[c].family = f PROVE FALSE
    BY DEF Apart
  <2>1. call[c].token = i
    BY <1>2 DEF AccountsInv, DeviceSound
  <2> QED
    BY <1>1, <2>1 DEF TokenLocked
<1> QED
  BY <1>3, <1>4, CallOpens DEF Rotates, Places

LEMMA RotateCommitsKeeps ==
  ASSUME AccountsInv, NEW d \in Devices, RotateCommits(d)
  PROVE  AccountsInv'
<1>1. PICK x : x = call[d]
  OBVIOUS
<1>2. x \in RotateCall /\ DeviceSound(x)
  BY <1>1 DEF RotateCommits, AccountsInv, AccountsTypes, DeviceCall, Hung, None, AskCall, SignCall,
              RotateCall, RevokeCall, EraseCall
<1>3. PICK f \in Families : f = x.family
  BY <1>2 DEF RotateCall
<1>4. /\ Opened(f) /\ family[f].issued < MaxTokens /\ x.token = family[f].issued
      /\ family[f] \in FamilyRow /\ family[f].live \subseteq {family[f].issued}
  BY <1>2, <1>3, OpenedFacts DEF DeviceSound, RotateCall, AccountsInv, LiveIsLast
<1>5. PICK n : n = family[f].issued + 1
  OBVIOUS
<1>6. n \in Numbers /\ (family[f].live \ {x.token}) \cup {n} = {n}
  BY <1>4, <1>5, AccountsAssumption DEF AccountsAssumption, Numbers, FamilyRow
<1>7. PICK row : row = [family[f] EXCEPT !.issued = n, !.live = {n}]
  OBVIOUS
<1>8. /\ row \in FamilyRow /\ row.code = family[f].code
      /\ row.issued = n /\ row.live = {n}
  BY <1>4, <1>6, <1>7 DEF FamilyRow
<1>9. family' = [family EXCEPT ![f] = row]
  BY <1>1, <1>3, <1>5, <1>6, <1>7 DEF RotateCommits, Issued, AccountsInv, AccountsTypes
<1>10. /\ family' \in [Families -> FamilyRow \cup {Unopened}] /\ family'[f] = row
       /\ \A g \in Families \ {f} : family'[g] = family[g]
  BY <1>8, <1>9 DEF AccountsInv, AccountsTypes
<1>11. \A g \in Families :
         /\ Opened(g)' <=> Opened(g)
         /\ Opened(g) => /\ family'[g].code = family[g].code
                         /\ family'[g].live \subseteq {family'[g].issued}
  BY <1>4, <1>8, <1>10, FamilyRows DEF Opened, AccountsInv, LiveIsLast
<1>12. CallsEnd /\ call'[d] = Hung
  BY CallEnds DEF RotateCommits, Ends
<1>13. ASSUME NEW c \in Devices, call'[c].op = "rotate"
       PROVE  family'[call'[c].family].issued = family[call'[c].family].issued
  <2>1. c # d /\ call'[c] = call[c]
    BY <1>12, <1>13 DEF CallsEnd, Hung, None
  <2>2. Apart(call[c], x) /\ call[c] \in DeviceCall
    BY <1>1, <2>1 DEF AccountsInv, AccountsTypes
  <2>3. call[c].family \in Families \ {f}
    BY <1>2, <1>3, <1>13, <2>1, <2>2 DEF Apart, DeviceCall, Hung, None, AskCall, SignCall, RotateCall,
                                        RevokeCall, EraseCall
  <2> QED
    BY <1>10, <2>1, <2>3
<1>14. UNCHANGED <<user, ordering, code, erasure>>
  BY DEF RotateCommits
<1> QED
  BY <1>10, <1>11, <1>12, <1>13, <1>14, FamiliesChange

LEMMA RevokesKeeps ==
  ASSUME AccountsInv, NEW d \in Devices, NEW f \in Families, NEW i \in Numbers, Revokes(d, f, i)
  PROVE  AccountsInv'
<1> DEFINE x == [op |-> "revoke", family |-> f, seen |-> family[f].issued]
<1>1. Opened(f)
  BY BroughtIsOpened DEF Revokes
<1>2. family[f].issued \in Numbers
  BY <1>1, OpenedFacts DEF FamilyRow
<1>3. x \in DeviceCall /\ DeviceSound(x) /\ \A y : Apart(x, y)
  BY <1>1, <1>2 DEF DeviceCall, RevokeCall, DeviceSound, Apart
<1> QED
  BY <1>3, CallOpens DEF Revokes, Places

LEMMA RevokeCommitsKeeps ==
  ASSUME AccountsInv, NEW d \in Devices, RevokeCommits(d)
  PROVE  AccountsInv'
<1>1. PICK x : x = call[d]
  OBVIOUS
<1>2. x \in RevokeCall /\ DeviceSound(x)
  BY <1>1 DEF RevokeCommits, AccountsInv, AccountsTypes, DeviceCall, Hung, None, AskCall, SignCall,
              RotateCall, RevokeCall, EraseCall
<1>3. PICK f \in Families : f = x.family
  BY <1>2 DEF RevokeCall
<1>4. /\ Opened(f) /\ family[f] \in FamilyRow /\ family[f].live \subseteq {family[f].issued}
  BY <1>2, <1>3, OpenedFacts DEF DeviceSound, RevokeCall, AccountsInv, LiveIsLast
<1>5. PICK row : row = [family[f] EXCEPT !.live = family[f].live \ 1 .. x.seen]
  OBVIOUS
<1>6. /\ row \in FamilyRow /\ row.code = family[f].code /\ row.issued = family[f].issued
      /\ row.live \subseteq {row.issued}
  BY <1>4, <1>5 DEF FamilyRow
<1>7. family' = [family EXCEPT ![f] = row]
  BY <1>1, <1>3, <1>5 DEF RevokeCommits, AccountsInv, AccountsTypes
<1>8. /\ family' \in [Families -> FamilyRow \cup {Unopened}] /\ family'[f] = row
      /\ \A g \in Families \ {f} : family'[g] = family[g]
  BY <1>6, <1>7 DEF AccountsInv, AccountsTypes
<1>9. \A g \in Families :
        /\ Opened(g)' <=> Opened(g)
        /\ Opened(g) => /\ family'[g].code = family[g].code
                        /\ family'[g].live \subseteq {family'[g].issued}
        /\ family'[g].issued = family[g].issued
  BY <1>4, <1>6, <1>8, FamilyRows DEF Opened, AccountsInv, LiveIsLast
<1>10. CallsEnd
  BY CallEnds DEF RevokeCommits, Ends
<1>11. \A c \in Devices : call'[c].op = "rotate" => call'[c].family \in Families
  BY <1>10 DEF CallsEnd, DeviceCall, Hung, None, AskCall, SignCall, RotateCall, RevokeCall, EraseCall
<1>12. UNCHANGED <<user, ordering, code, erasure>>
  BY DEF RevokeCommits
<1> QED
  BY <1>8, <1>9, <1>10, <1>11, <1>12, FamiliesChange

LEMMA FamilyExpiresKeeps ==
  ASSUME AccountsInv, NEW f \in Families, FamilyExpires(f)
  PROVE  AccountsInv'
<1>1. Opened(f) /\ family[f] \in FamilyRow /\ family[f].live \subseteq {family[f].issued}
  BY OpenedFacts DEF FamilyExpires, AccountsInv, LiveIsLast
<1>2. PICK row : row = [family[f] EXCEPT !.expired = TRUE]
  OBVIOUS
<1>3. /\ row \in FamilyRow /\ row.code = family[f].code /\ row.issued = family[f].issued
      /\ row.live \subseteq {row.issued}
  BY <1>1, <1>2 DEF FamilyRow
<1>4. family' = [family EXCEPT ![f] = row]
  BY <1>2 DEF FamilyExpires, AccountsInv, AccountsTypes
<1>5. /\ family' \in [Families -> FamilyRow \cup {Unopened}] /\ family'[f] = row
      /\ \A g \in Families \ {f} : family'[g] = family[g]
  BY <1>3, <1>4 DEF AccountsInv, AccountsTypes
<1>6. \A g \in Families :
        /\ Opened(g)' <=> Opened(g)
        /\ Opened(g) => /\ family'[g].code = family[g].code
                        /\ family'[g].live \subseteq {family'[g].issued}
        /\ family'[g].issued = family[g].issued
  BY <1>1, <1>3, <1>5, FamilyRows DEF Opened, AccountsInv, LiveIsLast
<1>7. CallsEnd /\ UNCHANGED <<user, ordering, code, erasure>>
  BY CallsStay DEF FamilyExpires
<1>8. \A c \in Devices : call'[c].op = "rotate" => call'[c].family \in Families
  BY <1>7 DEF CallsEnd, DeviceCall, Hung, None, AskCall, SignCall, RotateCall, RevokeCall, EraseCall
<1> QED
  BY <1>5, <1>6, <1>7, <1>8, FamiliesChange

-----------------------------------------------------------------------------
(* Accounts: accounts are deleted *)

LEMMA OrdersKeeps ==
  ASSUME AccountsInv, NEW u \in Customers, Orders(u)
  PROVE  AccountsInv'
<1>1. AccountsTypes'
  BY DEF Orders, AccountsInv, AccountsTypes
<1>2. LiveIsLast' /\ CodesUsed' /\ CodesWorkOnce' /\ DeletedOnRequest'
  BY DEF Orders, AccountsInv, LiveIsLast, CodesUsed, CodesWorkOnce, DeletedOnRequest, Opened
<1>3. \A c \in Devices : DeviceSound(call[c])'
  BY DEF Orders, AccountsInv, DeviceSound, Opened
<1>4. CallsEnd
  BY CallsStay DEF Orders
<1> QED
  BY <1>1, <1>2, <1>3, <1>4, CallsApart DEF AccountsInv

LEMMA RequestDeletionKeeps ==
  ASSUME AccountsInv, NEW u \in Customers, NEW r \in Requests, RequestDeletion(u, r)
  PROVE  AccountsInv'
<1>1. PICK row : row = [status |-> "pending", user |-> u, due |-> FALSE]
  OBVIOUS
<1>2. row \in ErasureRow /\ row.status = "pending"
  BY <1>1 DEF ErasureRow
<1>3. erasure' = [erasure EXCEPT ![r] = row] /\ erasure[r].status = None
  BY <1>1 DEF RequestDeletion
<1>4. /\ erasure' \in [Requests -> ErasureRow \cup {Unasked}] /\ erasure'[r] = row
      /\ \A q \in Requests \ {r} : erasure'[q] = erasure[q]
  BY <1>2, <1>3 DEF AccountsInv, AccountsTypes
<1>5. ASSUME NEW c \in Devices, call[c].op = "erase"
      PROVE  erasure'[call[c].request].status = "pending"
  <2>1. erasure[call[c].request].status = "pending" /\ call[c].request \in Requests
    BY <1>5 DEF AccountsInv, AccountsTypes, DeviceSound, DeviceCall, Hung, None, AskCall, SignCall,
                RotateCall, RevokeCall, EraseCall
  <2> QED
    BY <2>1, <1>2, <1>4
<1>6. call' = call /\ UNCHANGED <<user, ordering, code, family>>
  BY DEF RequestDeletion
<1>7. \A q \in Requests : /\ erasure'[q].status = "completed" <=> erasure[q].status = "completed"
                          /\ erasure[q].status = "completed" => erasure'[q] = erasure[q]
  BY <1>2, <1>3, <1>4 DEF None
<1> QED
  BY <1>4, <1>5, <1>6, <1>7, ErasuresChange

LEMMA CancelDeletionKeeps ==
  ASSUME AccountsInv, NEW u \in Customers, CancelDeletion(u)
  PROVE  AccountsInv'
<1>1. PICK r \in PendingOf(u) :
        ~ErasureLocked(r) /\ erasure' = [erasure EXCEPT ![r].status = "cancelled"]
  BY DEF CancelDeletion
<1>2. r \in Requests /\ erasure[r].status = "pending" /\ erasure[r] \in ErasureRow
  BY DEF PendingOf, Pending, AccountsInv, AccountsTypes, Unasked, None
<1>3. PICK row : row = [erasure[r] EXCEPT !.status = "cancelled"]
  OBVIOUS
<1>4. row \in ErasureRow /\ row.status = "cancelled"
  BY <1>2, <1>3 DEF ErasureRow
<1>5. erasure' = [erasure EXCEPT ![r] = row]
  BY <1>1, <1>2, <1>3 DEF AccountsInv, AccountsTypes
<1>6. /\ erasure' \in [Requests -> ErasureRow \cup {Unasked}] /\ erasure'[r] = row
      /\ \A q \in Requests \ {r} : erasure'[q] = erasure[q]
  BY <1>2, <1>4, <1>5 DEF AccountsInv, AccountsTypes
<1>7. ASSUME NEW c \in Devices, call[c].op = "erase"
      PROVE  erasure'[call[c].request].status = "pending"
  <2>1. erasure[call[c].request].status = "pending" /\ call[c].request \in Requests
    BY <1>7 DEF AccountsInv, AccountsTypes, DeviceSound, DeviceCall, Hung, None, AskCall, SignCall,
                RotateCall, RevokeCall, EraseCall
  <2>2. call[c].request # r
    BY <1>1, <1>7 DEF ErasureLocked
  <2> QED
    BY <2>1, <2>2, <1>6
<1>8. call' = call /\ UNCHANGED <<user, ordering, code, family>>
  BY DEF CancelDeletion
<1>9. \A q \in Requests : /\ erasure'[q].status = "completed" <=> erasure[q].status = "completed"
                          /\ erasure[q].status = "completed" => erasure'[q] = erasure[q]
  BY <1>2, <1>4, <1>6
<1> QED
  BY <1>6, <1>7, <1>8, <1>9, ErasuresChange

LEMMA GraceEndsKeeps ==
  ASSUME AccountsInv, NEW r \in Requests, GraceEnds(r)
  PROVE  AccountsInv'
<1>1. erasure[r].status = "pending" /\ erasure[r] \in ErasureRow
  BY DEF GraceEnds, Pending, AccountsInv, AccountsTypes, Unasked, None
<1>2. PICK row : row = [erasure[r] EXCEPT !.due = TRUE]
  OBVIOUS
<1>3. row \in ErasureRow /\ row.status = "pending"
  BY <1>1, <1>2 DEF ErasureRow
<1>4. erasure' = [erasure EXCEPT ![r] = row]
  BY <1>2 DEF GraceEnds, AccountsInv, AccountsTypes
<1>5. /\ erasure' \in [Requests -> ErasureRow \cup {Unasked}] /\ erasure'[r] = row
      /\ \A q \in Requests \ {r} : erasure'[q] = erasure[q]
  BY <1>3, <1>4 DEF AccountsInv, AccountsTypes
<1>6. ASSUME NEW c \in Devices, call[c].op = "erase"
      PROVE  erasure'[call[c].request].status = "pending"
  <2>1. erasure[call[c].request].status = "pending" /\ call[c].request \in Requests
    BY <1>6 DEF AccountsInv, AccountsTypes, DeviceSound, DeviceCall, Hung, None, AskCall, SignCall,
                RotateCall, RevokeCall, EraseCall
  <2> QED
    BY <2>1, <1>3, <1>5
<1>7. call' = call /\ UNCHANGED <<user, ordering, code, family>>
  BY DEF GraceEnds
<1>8. \A q \in Requests : /\ erasure'[q].status = "completed" <=> erasure[q].status = "completed"
                          /\ erasure[q].status = "completed" => erasure'[q] = erasure[q]
  BY <1>1, <1>3, <1>5
<1> QED
  BY <1>5, <1>6, <1>7, <1>8, ErasuresChange

LEMMA ErasesKeeps ==
  ASSUME AccountsInv, NEW d \in Devices, NEW r \in Requests, NEW byStaff \in BOOLEAN,
         Erases(d, r, byStaff)
  PROVE  AccountsInv'
<1>1. PICK seen : seen = SeenOf(erasure[r].user)
  OBVIOUS
<1>2. /\ DOMAIN seen \subseteq Families /\ \A f \in DOMAIN seen : Opened(f)
      /\ seen = [f \in DOMAIN seen |-> family[f].issued]
  BY <1>1 DEF SeenOf
<1>3. \A f \in DOMAIN seen : family[f].issued \in Numbers
  BY <1>2, OpenedFacts DEF FamilyRow
<1>4. seen \in SeenTokens
  BY <1>2, <1>3 DEF SeenTokens
<1> DEFINE x == [op |-> "erase", request |-> r, seen |-> seen]
<1>5. x \in DeviceCall
  BY <1>4 DEF DeviceCall, EraseCall
<1>6. DeviceSound(x)
  BY <1>2 DEF DeviceSound, Erases, Pending
<1>7. \A c \in Devices : Apart(x, call[c])
  BY DEF Apart, Erases, ErasureLocked
<1>8. call' = [call EXCEPT ![d] = x] /\ UNCHANGED <<user, ordering, code, quiet, family, erasure>>
  BY <1>1 DEF Erases, Places
<1> QED
  BY <1>5, <1>6, <1>7, <1>8, CallOpens

\* The customer goes with the request that asked for it and the sessions it saw.
LEMMA EraseCommitsKeeps ==
  ASSUME AccountsInv, NEW d \in Devices, EraseCommits(d)
  PROVE  AccountsInv'
<1>1. PICK x : x = call[d]
  OBVIOUS
<1>2. x \in EraseCall /\ DeviceSound(x)
  BY <1>1 DEF EraseCommits, AccountsInv, AccountsTypes, DeviceCall, Hung, None, AskCall, SignCall,
              RotateCall, RevokeCall, EraseCall
<1>3. PICK r \in Requests : r = x.request
  BY <1>2 DEF EraseCall
<1>4. PICK seen \in SeenTokens : seen = x.seen
  BY <1>2 DEF EraseCall
<1>5. erasure[r].status = "pending" /\ erasure[r] \in ErasureRow
      /\ \A f \in DOMAIN seen : f \in Families /\ Opened(f)
  BY <1>2, <1>3, <1>4 DEF DeviceSound, EraseCall, SeenTokens, AccountsInv, AccountsTypes, Unasked, None
<1>6. PICK u \in Customers : u = erasure[r].user
  BY <1>5 DEF ErasureRow
<1>7. /\ user' = [user EXCEPT ![u] = [status |-> "deleted", handle |-> None]]
      /\ erasure' = [erasure EXCEPT ![r].status = "completed"]
      /\ family' = [f \in Families |->
             IF f \in DOMAIN seen THEN [family[f] EXCEPT !.live = @ \ 1 .. seen[f]] ELSE family[f]]
      /\ UNCHANGED <<ordering, code, quiet>>
  BY <1>1, <1>3, <1>4, <1>6 DEF EraseCommits, Completed
<1>8. CallsEnd /\ call'[d] = Hung
  BY CallEnds DEF EraseCommits, Ends
<1>9. /\ user' \in [Customers -> UserRow] /\ user'[u] = [status |-> "deleted", handle |-> None]
      /\ \A v \in Customers \ {u} : user'[v] = user[v]
  BY <1>7 DEF AccountsInv, AccountsTypes, UserRow
<1>10. /\ erasure' \in [Requests -> ErasureRow \cup {Unasked}]
       /\ erasure'[r].status = "completed" /\ erasure'[r].user = u
       /\ \A q \in Requests \ {r} : erasure'[q] = erasure[q]
  <2>1. PICK row : row = [erasure[r] EXCEPT !.status = "completed"]
    OBVIOUS
  <2>2. row \in ErasureRow /\ row.status = "completed" /\ row.user = u
    BY <1>5, <1>6, <2>1 DEF ErasureRow
  <2>3. erasure' = [erasure EXCEPT ![r] = row]
    BY <1>7, <2>1 DEF AccountsInv, AccountsTypes
  <2> QED
    BY <2>2, <2>3 DEF AccountsInv, AccountsTypes
<1>11. ASSUME NEW f \in Families
       PROVE  /\ family'[f] \in FamilyRow \cup {Unopened}
              /\ Opened(f)' <=> Opened(f)
              /\ family'[f].issued = family[f].issued
              /\ Opened(f) => /\ family'[f].code = family[f].code
                              /\ family'[f].live \subseteq {family'[f].issued}
  <2>1. CASE f \in DOMAIN seen
    <3>1. family[f] \in FamilyRow /\ Opened(f) /\ family[f].live \subseteq {family[f].issued}
      BY <1>5, <2>1, OpenedFacts DEF AccountsInv, LiveIsLast
    <3>2. PICK row : row = [family[f] EXCEPT !.live = family[f].live \ 1 .. seen[f]]
      OBVIOUS
    <3>3. /\ row \in FamilyRow /\ row.code = family[f].code /\ row.issued = family[f].issued
          /\ row.live \subseteq {row.issued}
      BY <3>1, <3>2 DEF FamilyRow
    <3>4. family'[f] = row
      BY <1>7, <2>1, <3>2
    <3> QED
      BY <3>1, <3>3, <3>4, FamilyRows DEF Opened
  <2>2. CASE f \notin DOMAIN seen
    <3>1. family'[f] = family[f]
      BY <1>7, <2>2
    <3> QED
      BY <3>1 DEF Opened, AccountsInv, AccountsTypes, LiveIsLast
  <2> QED
    BY <2>1, <2>2
<1>12. family' \in [Families -> FamilyRow \cup {Unopened}]
  BY <1>7, <1>11
<1>13. AccountsTypes'
  BY <1>7, <1>8, <1>9, <1>10, <1>12 DEF AccountsTypes, AccountsInv, CallsEnd
<1>14. LiveIsLast' /\ CodesUsed'
  BY <1>7, <1>11 DEF LiveIsLast, CodesUsed, AccountsInv
<1>15. CodesWorkOnce'
  BY <1>9, <1>11 DEF CodesWorkOnce, AccountsInv
<1>16. DeletedOnRequest'
  <2>1. \A v \in Customers \ {u} : \A q \in Requests :
          erasure'[q].status = "completed" /\ erasure'[q].user = v <=>
          erasure[q].status = "completed" /\ erasure[q].user = v
    BY <1>5, <1>6, <1>10
  <2> QED
    BY <1>9, <1>10, <2>1 DEF DeletedOnRequest, AccountsInv
<1>17. ASSUME NEW b \in Devices PROVE DeviceSound(call[b])'
  <2>1. CASE call'[b] = Hung
    BY <2>1 DEF DeviceSound, Hung, None
  <2>2. CASE call'[b] # Hung
    <3>1. b # d /\ call'[b] = call[b]
      BY <2>2, <1>8 DEF CallsEnd
    <3>2. PICK y \in DeviceCall : y = call[b]
      BY DEF AccountsInv, AccountsTypes
    <3>3. DeviceSound(y) /\ Apart(y, x)
      BY <3>1, <3>2, <1>1 DEF AccountsInv
    <3>4. y.op \in {"rotate", "revoke"} => y.family \in Families
      BY DEF DeviceCall, Hung, None, AskCall, SignCall, RotateCall, RevokeCall, EraseCall
    <3>5. y.op = "erase" => DOMAIN y.seen \subseteq Families /\ y.request \in Requests
      BY DEF DeviceCall, Hung, None, AskCall, SignCall, RotateCall, RevokeCall, EraseCall, SeenTokens
    <3>6. y.op = "rotate" =>
            /\ Opened(y.family)' /\ y.token = family'[y.family].issued
            /\ family'[y.family].issued < MaxTokens
      BY <3>3, <3>4, <1>11 DEF DeviceSound
    <3>7. y.op = "erase" => erasure'[y.request].status = "pending"
      BY <3>3, <3>5, <1>2, <1>3, <1>10 DEF DeviceSound, Apart, EraseCall
    <3>8. y.op = "erase" => \A g \in DOMAIN y.seen : Opened(g)'
      BY <3>3, <3>5, <1>11 DEF DeviceSound
    <3>9. /\ y.op = "revoke" => Opened(y.family)'
          /\ y.op = "login" => y.code = 0
          /\ y.op = "verify" => y.code \in DOMAIN code' /\ ~code'[y.code].consumed
      BY <3>3, <3>4, <1>7, <1>11 DEF DeviceSound
    <3> QED
      BY <3>1, <3>2, <3>6, <3>7, <3>8, <3>9 DEF DeviceSound
  <2> QED
    BY <2>1, <2>2
<1> QED
  BY <1>8, <1>13, <1>14, <1>15, <1>16, <1>17, CallsApart DEF AccountsInv

-----------------------------------------------------------------------------
(* Accounts: every step *)

LEMMA DeviceKeeps ==
  ASSUME AccountsInv, NEW d \in Devices, DeviceActs(d)
  PROVE  AccountsInv'
<1>1. CASE \E h \in Handles : AsksForCode(d, h) \/ RightCode(d, h) \/ Registers(d, h) \/ LogsIn(d, h)
  BY <1>1, AsksForCodeKeeps, RightCodeKeeps, LoginKeeps
<1>2. CASE \E f \in Families : SignsIn(d, f) \/ \E i \in Numbers : Rotates(d, f, i) \/ Revokes(d, f, i)
  BY <1>2, SignsInKeeps, RotatesKeeps, RevokesKeeps
<1>3. CASE SendsCode(d) \/ RotateCommits(d) \/ RevokeCommits(d) \/ EraseCommits(d) \/ HangsUp(d)
  BY <1>3, SendsCodeKeeps, RotateCommitsKeeps, RevokeCommitsKeeps, EraseCommitsKeeps, HangsUpKeeps
<1>4. CASE \E r \in Requests, byStaff \in BOOLEAN : Erases(d, r, byStaff)
  BY <1>4, ErasesKeeps
<1> QED
  BY <1>1, <1>2, <1>3, <1>4 DEF DeviceActs

LEMMA AccountsStepHolds == AccountsInv /\ [AccountsNext]_accountsVars => AccountsInv'
<1> SUFFICES ASSUME AccountsInv, [AccountsNext]_accountsVars PROVE AccountsInv'
  OBVIOUS
<1>1. CASE \E d \in Devices : DeviceActs(d)
  BY <1>1, DeviceKeeps
<1>2. CASE \E h \in Handles : WrongCode(h)
  BY <1>2, WrongCodeKeeps
<1>3. CASE \E u \in Customers :
             Orders(u) \/ CancelDeletion(u) \/ \E r \in Requests : RequestDeletion(u, r)
  BY <1>3, OrdersKeeps, CancelDeletionKeeps, RequestDeletionKeeps
<1>4. CASE \E f \in Families : FamilyExpires(f)
  BY <1>4, FamilyExpiresKeeps
<1>5. CASE \E r \in Requests : GraceEnds(r)
  BY <1>5, GraceEndsKeeps
<1>6. CASE Passes
  BY <1>6, PassesKeeps
<1>7. CASE UNCHANGED accountsVars
  <2>1. UNCHANGED <<user, ordering, code, quiet, family, erasure, call>>
    BY <1>7 DEF accountsVars
  <2>2. AccountsTypes' /\ LiveIsLast' /\ CodesUsed' /\ CodesWorkOnce' /\ DeletedOnRequest'
    BY <2>1 DEF AccountsInv, AccountsTypes, LiveIsLast, CodesUsed, CodesWorkOnce,
                DeletedOnRequest, Opened
  <2>3. \A c \in Devices : DeviceSound(call[c])'
    BY <2>1 DEF AccountsInv, DeviceSound, Opened
  <2> QED
    BY <2>1, <2>2, <2>3, CallsStay, CallsApart DEF AccountsInv
<1> QED
  BY <1>1, <1>2, <1>3, <1>4, <1>5, <1>6, <1>7 DEF AccountsNext

\* What was decided stays: whoever decides a request has found it pending, and holds it.
DecisionStays ==
    \A r \in Requests : erasure[r].status \in {"cancelled", "completed"} =>
        erasure'[r].status = erasure[r].status

LEMMA DecisionStep == AccountsInv /\ [AccountsNext]_accountsVars => [DecisionStays]_accountsVars
<1> SUFFICES ASSUME AccountsInv, AccountsNext PROVE DecisionStays
  OBVIOUS
<1>1. ASSUME NEW r \in Requests, erasure[r].status = "pending" \/ erasure[r].status = None,
             \A q \in Requests \ {r} : erasure'[q] = erasure[q]
      PROVE  DecisionStays
  BY <1>1 DEF DecisionStays, None
<1>2. erasure \in [Requests -> ErasureRow \cup {Unasked}]
  BY DEF AccountsInv, AccountsTypes
<1>3. CASE \E d \in Devices : EraseCommits(d)
  <2>1. PICK d \in Devices : EraseCommits(d)
    BY <1>3
  <2>2. call[d] \in EraseCall /\ DeviceSound(call[d])
    BY <2>1 DEF EraseCommits, AccountsInv, AccountsTypes, DeviceCall, Hung, None, AskCall, SignCall,
                RotateCall, RevokeCall, EraseCall
  <2>3. PICK r \in Requests : r = call[d].request
    BY <2>2 DEF EraseCall
  <2>4. erasure[r].status = "pending"
    BY <2>2, <2>3 DEF DeviceSound, EraseCall
  <2>5. erasure' = [erasure EXCEPT ![r].status = "completed"]
    BY <2>1, <2>3 DEF EraseCommits, Completed
  <2> QED
    BY <1>1, <1>2, <2>4, <2>5
<1>4. CASE \E u \in Customers : CancelDeletion(u) \/ \E r \in Requests : RequestDeletion(u, r)
  <2>1. CASE \E u \in Customers : CancelDeletion(u)
    <3>1. PICK u \in Customers : CancelDeletion(u)
      BY <2>1
    <3>2. PICK r \in PendingOf(u) : erasure' = [erasure EXCEPT ![r].status = "cancelled"]
      BY <3>1 DEF CancelDeletion
    <3> QED
      BY <1>1, <1>2, <3>2 DEF PendingOf, Pending
  <2>2. CASE \E u \in Customers, r \in Requests : RequestDeletion(u, r)
    BY <1>1, <1>2, <2>2 DEF RequestDeletion
  <2> QED
    BY <1>4, <2>1, <2>2
<1>5. CASE \E r \in Requests : GraceEnds(r)
  BY <1>1, <1>2, <1>5 DEF GraceEnds, Pending
<1>6. CASE UNCHANGED erasure
  BY <1>6 DEF DecisionStays
<1>7. ASSUME NEW d \in Devices, DeviceActs(d)
      PROVE  EraseCommits(d) \/ UNCHANGED erasure
  BY <1>7 DEF DeviceActs, AsksForCode, RightCode, Registers, LogsIn, SignsIn, Rotates, Revokes,
              SendsCode, RotateCommits, RevokeCommits, HangsUp, Erases
<1> QED
  BY <1>3, <1>4, <1>5, <1>6, <1>7
  DEF AccountsNext, WrongCode, Orders, FamilyExpires, Passes

\* Whatever requests race: codes and handles are used once, a session has one live token,
\* accounts are deleted on request only, and what was decided of a request stays.
THEOREM AccountsSafeHolds == AccountsSpec => AccountsSafe
<1>1. AccountsSpec => []AccountsInv
  BY AccountsInit_holds, AccountsStepHolds, PTL DEF AccountsSpec
<1>2. AccountsInv => AccountsTypeOK /\ CodesWorkOnce /\ OneLive /\ DeletedOnRequest
  BY AccountsInvImplies
<1>3. DecidedStays <=> [][DecisionStays]_accountsVars
  BY PTL DEF DecidedStays, DecisionStays
<1> QED
  BY <1>1, <1>2, <1>3, DecisionStep, PTL DEF AccountsSpec, AccountsSafe
=============================================================================
