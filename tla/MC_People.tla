------------------------------ MODULE MC_People -------------------------------
(* Instances of the components people come in by: a vendor's file, where it is   *)
(* paid and what it uploads, the accounts of customers, what they say about what *)
(* they bought, what they ask support, and who works for a tenant and a vendor.  *)
(* They share no variable: one component runs and the others rest in their first *)
(* state.                                                                        *)
EXTENDS Vendors, Destination, Intake, Accounts, Reviews, Support, Team, TLC

CONSTANTS c1, c2, k1, k2, g1, g2, h1, r1, u1, u2, u3, f1, f2, s1, s2, i1, i2, p1

Row(sku, price, stock, valid) == [sku |-> sku, price |-> price, stock |-> stock, valid |-> valid]

\* Two files that meet the same variants in both orders, with a row that does not
\* validate and one that would take away what is held.
Csv ==
    f1 :> <<Row(s1, 1, 2, TRUE), Row(s2, 1, 1, TRUE), Row(s1, 3, 0, TRUE)>> @@
    f2 :> <<Row(s2, 2, 0, TRUE), Row(s1, 2, 1, TRUE), Row(s2, 4, 3, FALSE)>>

\* The history of one shop is long enough to be suspended and approved again.
Histories == s1 :> 5 @@ s2 :> 0

\* The devices, the customers and the sessions of Accounts are interchangeable, and
\* as such the requests of the other components, the items and the tickets.
Symmetry == Permutations(Devices) \cup Permutations(Customers) \cup Permutations(Families)

VARIABLE focus
peopleVars ==
    <<focus, vendorsVars, destinationVars, intakeVars, accountsVars, reviewsVars, supportVars, teamVars>>

PeopleInit ==
    /\ VendorsInit /\ DestinationInit /\ IntakeInit /\ AccountsInit
    /\ ReviewsInit /\ SupportInit /\ TeamInit
    /\ focus \in {"vendors", "destination", "intake", "accounts", "reviews", "support", "team"}
    /\ focus # "intake" => wiring = "inline"

PeopleNext ==
    /\ UNCHANGED focus
    /\ \/ /\ focus = "vendors" /\ VendorsNext
          /\ UNCHANGED <<destinationVars, intakeVars, accountsVars, reviewsVars, supportVars, teamVars>>
       \/ /\ focus = "destination" /\ DestinationNext
          /\ UNCHANGED <<vendorsVars, intakeVars, accountsVars, reviewsVars, supportVars, teamVars>>
       \/ /\ focus = "intake" /\ IntakeNext
          /\ UNCHANGED <<vendorsVars, destinationVars, accountsVars, reviewsVars, supportVars, teamVars>>
       \/ /\ focus = "accounts" /\ AccountsNext
          /\ UNCHANGED <<vendorsVars, destinationVars, intakeVars, reviewsVars, supportVars, teamVars>>
       \/ /\ focus = "reviews" /\ ReviewsNext
          /\ UNCHANGED <<vendorsVars, destinationVars, intakeVars, accountsVars, supportVars, teamVars>>
       \/ /\ focus = "support" /\ SupportNext
          /\ UNCHANGED <<vendorsVars, destinationVars, intakeVars, accountsVars, reviewsVars, teamVars>>
       \/ /\ focus = "team" /\ TeamNext
          /\ UNCHANGED <<vendorsVars, destinationVars, intakeVars, accountsVars, reviewsVars, supportVars>>

PeopleSpec == PeopleInit /\ [][PeopleNext]_peopleVars
=============================================================================
