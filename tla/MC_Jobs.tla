------------------------------- MODULE MC_Jobs --------------------------------
(* Instances of the components whose promises scheduled work keeps: the billing  *)
(* cycle, the recheck of the domains, the queue of app builds and the polling of *)
(* the couriers.  They share no variable: one component runs and the others rest *)
(* in their first state, so that one search covers them without the product of   *)
(* their states.                                                                 *)
EXTENDS Billing, Domains, AppBuilds, Shipment, TLC

CONSTANTS w1, w2, r1, r2, b1, b2, home, own, o1, s1, k1

Numbering == {<<1>>, <<1, 0, 1>>}
OneVendor == s1 :> o1

VARIABLE focus
jobsVars == <<focus, billingVars, domainsVars, buildVars, vars>>

JobsInit ==
    /\ BillingInit /\ DomainsInit /\ AppBuildsInit /\ Init
    /\ focus \in {"billing", "domains", "builds", "parcels"}
    /\ focus # "domains" => \A h \in Custom : dns[h]

JobsNext ==
    /\ UNCHANGED focus
    /\ \/ focus = "billing" /\ BillingNext /\ UNCHANGED <<domainsVars, buildVars, vars>>
       \/ focus = "domains" /\ DomainsNext /\ UNCHANGED <<billingVars, buildVars, vars>>
       \/ focus = "builds" /\ AppBuildsNext /\ UNCHANGED <<billingVars, domainsVars, vars>>
       \/ focus = "parcels" /\ Next /\ UNCHANGED <<billingVars, domainsVars, buildVars>>

\* What a resting component owes is disabled in its first state.
JobsSpec ==
    /\ JobsInit /\ [][JobsNext]_jobsVars
    /\ BillingFairness /\ DomainsFairness /\ AppBuildsFairness /\ Fairness
=============================================================================
