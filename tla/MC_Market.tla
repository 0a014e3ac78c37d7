------------------------------ MODULE MC_Market -------------------------------
(* Instances of the components of a store at work: its products, the disputes    *)
(* about orders, what buyers are told, and its look.  They share no variable:    *)
(* one component runs and the others rest in their first state, so that one      *)
(* search covers them without the product of their states.                       *)
EXTENDS Disputes, Catalog, Notifications, Theme

CONSTANTS c1, c2, s1, p1, p2, d1, d2, i1, i2, l1, l2, l3

\* A vendor that has approved products, one that has none, or everything is moderated.
Stores(f) ==
    {[mode |-> "first_listing", trusted |-> TRUE]}
        \cup IF f = "catalog" THEN [mode : {"first_listing", "all"}, trusted : {FALSE}] ELSE {}

\* The orders of a store with a campaign behind it, one message perhaps turned off, or a
\* campaign without orders.
Left(f, m) == [facts |-> MaxFacts - f, moods |-> MaxMoods - m, lost |-> 0]
Evenings(f) ==
    \/ /\ campaign.status = "cancelled" /\ night /\ facts = {} /\ ~destination
       /\ muted = {} /\ happened = Left(1, 0)
    \/ /\ f = "notifications"
       /\ \/ /\ campaign.status = "cancelled" /\ ~night /\ facts # {} /\ destination
             /\ muted \in {{}, {Shipped}} /\ happened = Left(1, 0)
          \/ /\ campaign.status = "draft" /\ ~night /\ facts = {} /\ ~destination
             /\ muted = {} /\ happened = Left(0, 1)

\* i1 is readable on the preset only, i2 on the other legible palette as well.
Reads == {<<i1, l1>>, <<i2, l1>>, <<i2, l2>>}

VARIABLE focus
marketVars == <<focus, disputesVars, catalogVars, notificationVars, themeVars>>

MarketInit ==
    /\ DisputesInit /\ CatalogInit
    /\ NotificationsInit /\ ThemeInit
    /\ focus \in {"disputes", "catalog", "notifications", "theme"}
    /\ store \in Stores(focus) /\ Evenings(focus)

MarketNext ==
    /\ UNCHANGED focus
    /\ \/ /\ focus = "disputes" /\ DisputesNext
          /\ UNCHANGED <<catalogVars, notificationVars, themeVars>>
       \/ /\ focus = "catalog" /\ CatalogNext
          /\ UNCHANGED <<disputesVars, notificationVars, themeVars>>
       \/ /\ focus = "notifications" /\ NotificationsNext
          /\ UNCHANGED <<disputesVars, catalogVars, themeVars>>
       \/ /\ focus = "theme" /\ ThemeNext
          /\ UNCHANGED <<disputesVars, catalogVars, notificationVars>>

\* What a resting component owes is disabled in its first state.
MarketSpec ==
    /\ MarketInit /\ [][MarketNext]_marketVars
    /\ DisputesFairness /\ CatalogFairness /\ ThemeFairness
=============================================================================
