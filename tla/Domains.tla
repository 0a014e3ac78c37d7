------------------------------- MODULE Domains -------------------------------
(* The hosts of one tenant: proof of ownership by DNS, the primary host, the    *)
(* scheduled recheck, and the redis cache through which every request learns    *)
(* which tenant a host is and whether that tenant may write (core/tenancy and   *)
(* the gate of core/deps).  Handlers clear the cache before they commit.        *)
EXTENDS Integers, FiniteSets

CONSTANTS
    Staff,         \* requests and jobs that change hosts or the tenant's status
    Readers,       \* requests that resolve a host
    Hosts, Home,   \* the hosts of the tenant; Home is the platform's subdomain
    Quota,         \* custom domains the plan allows
    MaxChanges     \* changes of DNS and of the tenant's status

ASSUME DomainsAssumption == Home \in Hosts /\ {Quota, MaxChanges} \subseteq Nat

VARIABLES
    shop,      \* tenants.status
    domain,    \* domains: status and is_primary
    dns,       \* whether the records of the host prove ownership and point at us
    proved,    \* the hosts whose records once did
    cache,     \* redis: host -> what resolve_tenant_by_host() said
    reader,    \* a request between its query and its SET
    open,      \* the open transaction of a member of staff or a job
    changes

db == <<shop, domain>>
world == <<dns, proved>>
domainsVars == <<db, world, cache, reader, open, changes>>

Custom == Hosts \ {Home}
ShopStatus == {"active", "suspended", "cancelled"}
None == [shop |-> "none"]
Quiet == [op |-> "quiet"]
Without(H) == [h \in Hosts |-> IF h \in H THEN None ELSE cache[h]]

\* resolve_tenant_by_host(), less the primary host; an unknown host is cached as well.
Row(h) == [shop |-> shop, domain |-> domain[h].status]

\* check_records() on what _query() returns: a timeout reads as no records.
Answers(h) == {dns[h], FALSE}

-----------------------------------------------------------------------------
\* After create_tenant(): the subdomain is active and primary.
DomainsInit ==
    /\ shop = "active"
    /\ domain = [h \in Hosts |-> [status |-> IF h = Home THEN "active" ELSE "none",
                                  primary |-> h = Home]]
    /\ dns \in [Custom -> BOOLEAN]
    /\ proved = {h \in Custom : dns[h]}
    /\ cache = [h \in Hosts |-> None]
    /\ reader = [r \in Readers |-> [host |-> Home, row |-> None]]
    /\ open = [s \in Staff |-> Quiet]
    /\ changes = 0

DnsChanges(h) ==
    /\ changes < MaxChanges
    /\ changes' = changes + 1
    /\ dns' = [dns EXCEPT ![h] = ~@]
    /\ proved' = proved \cup {x \in Custom : dns'[x]}
    /\ UNCHANGED <<db, cache, reader, open>>

\* patch_tenant(), mark_paid() and a cycle by hand clear the cached hosts before
\* their transaction commits; the nightly cycle clears none.
StatusFlushes(s, to) ==
    /\ open[s] = Quiet
    /\ changes < MaxChanges
    /\ changes' = changes + 1
    /\ open' = [open EXCEPT ![s] = [op |-> "status", to |-> to]]
    /\ cache' \in {Without(Hosts), cache}
    /\ UNCHANGED <<db, world, reader>>

StatusCommits(s) ==
    /\ open[s].op = "status"
    /\ shop' = open[s].to
    /\ open' = [open EXCEPT ![s] = Quiet]
    /\ UNCHANGED <<domain, world, cache, reader, changes>>

\* add_domain(): within the plan's quota.
AddDomain(h) ==
    /\ domain[h].status = "none"
    /\ Cardinality({x \in Custom : domain[x].status # "none"}) < Quota
    /\ domain' = [domain EXCEPT ![h] = [@ EXCEPT !.status = "pending"]]
    /\ UNCHANGED <<shop, world, cache, reader, open, changes>>

\* verify_domain(): looks the records up, and activates the host when they prove it;
\* the ORM writes a status only when it differs from the loaded one.
VerifyReads(s, h) ==
    /\ open[s] = Quiet
    /\ domain[h].status # "none"
    /\ \E ok \in Answers(h) :
         open' = [open EXCEPT ![s] =
             [op |-> "verify", host |-> h, writes |-> ok /\ domain[h].status # "active"]]
    /\ cache' = Without({h})
    /\ UNCHANGED <<db, world, reader, changes>>

VerifyCommits(s) ==
    LET x == open[s] IN
    /\ x.op = "verify"
    /\ domain' = IF x.writes THEN [domain EXCEPT ![x.host] = [@ EXCEPT !.status = "active"]]
                 ELSE domain
    /\ open' = [open EXCEPT ![s] = Quiet]
    /\ UNCHANGED <<shop, world, cache, reader, changes>>

Active == {h \in Custom : domain[h].status = "active"}

\* recheck_active_domains(), one lookup after the other while the loaded rows age.
\* The job passes no redis, so no cached host is cleared.
RecheckReads(s) ==
    /\ open[s] = Quiet
    /\ \E failed \in SUBSET Active :
         /\ {h \in Active : ~dns[h]} \subseteq failed
         /\ failed # {}
         /\ open' = [open EXCEPT ![s] =
                [op |-> "recheck", failed |-> failed,
                 demotes |-> {h \in failed : domain[h].primary}]]
    /\ UNCHANGED <<db, world, cache, reader, changes>>

RecheckCommits(s) ==
    LET x == open[s] IN
    /\ x.op = "recheck"
    /\ domain' = [h \in Hosts |->
           [status |-> IF h \in x.failed THEN "inactive" ELSE domain[h].status,
            primary |-> domain[h].primary /\ h \notin x.demotes]]
    /\ open' = [open EXCEPT ![s] = Quiet]
    /\ UNCHANGED <<shop, world, cache, reader, changes>>

\* make_primary(): the guard is on the row as it was loaded.
Primaries == {h \in Hosts : domain[h].primary}
PrimaryReads(s, h) ==
    /\ open[s] = Quiet
    /\ domain[h].status = "active"
    /\ open' = [open EXCEPT ![s] = [op |-> "primary", host |-> h, old |-> Primaries]]
    /\ cache' = Without(Hosts)
    /\ UNCHANGED <<db, world, reader, changes>>

\* Mutant: no unique index.
OldGone_unchecked(x) == TRUE

\* uq_domains_one_primary refuses a second primary that its UPDATE did not see.
OldGone(x) == Primaries \subseteq x.old \cup {x.host}
PrimaryCommits(s) ==
    LET x == open[s] IN
    /\ x.op = "primary"
    /\ OldGone(x)
    /\ domain' = [h \in Hosts |->
           [domain[h] EXCEPT !.primary = h = x.host \/ (@ /\ h \notin x.old)]]
    /\ open' = [open EXCEPT ![s] = Quiet]
    /\ UNCHANGED <<shop, world, cache, reader, changes>>

\* A transaction is lost: a constraint refuses it, or its process dies.
Lost(s) ==
    /\ open[s] # Quiet
    /\ open' = [open EXCEPT ![s] = Quiet]
    /\ UNCHANGED <<db, world, cache, reader, changes>>

-----------------------------------------------------------------------------
\* resolve_tenant() misses and queries, then SETs what it was told.
Misses(r, h) ==
    /\ reader[r].row = None
    /\ cache[h] = None
    /\ reader' = [reader EXCEPT ![r] = [host |-> h, row |-> Row(h)]]
    /\ UNCHANGED <<db, world, cache, open, changes>>

Fills(r) ==
    /\ reader[r].row # None
    /\ cache' = [cache EXCEPT ![reader[r].host] = reader[r].row]
    /\ reader' = [reader EXCEPT ![r] = [host |-> Home, row |-> None]]
    /\ UNCHANGED <<db, world, open, changes>>

\* Mutant: SET without an expiry.
Expires_never(h) == FALSE /\ UNCHANGED domainsVars

\* HOST_CACHE_TTL
Expires(h) ==
    /\ cache[h] # None
    /\ cache' = Without({h})
    /\ UNCHANGED <<db, world, reader, open, changes>>

-----------------------------------------------------------------------------
StaffStep(s) ==
    \/ StatusCommits(s) \/ VerifyCommits(s) \/ RecheckReads(s) \/ RecheckCommits(s)
    \/ PrimaryCommits(s) \/ Lost(s)
    \/ \E to \in ShopStatus : StatusFlushes(s, to)
    \/ \E h \in Custom : VerifyReads(s, h)
    \/ \E h \in Hosts : PrimaryReads(s, h)

DomainsNext ==
    \/ \E s \in Staff : StaffStep(s)
    \/ \E h \in Custom : AddDomain(h) \/ DnsChanges(h)
    \/ \E r \in Readers : Fills(r) \/ \E h \in Hosts : Misses(r, h)
    \/ \E h \in Hosts : Expires(h)

Ends(s) == StatusCommits(s) \/ VerifyCommits(s) \/ PrimaryCommits(s) \/ Lost(s)

\* redis drops what is too old, a request that has queried SETs, a transaction ends,
\* and the scheduled recheck runs again and commits.
DomainsFairness ==
    /\ \A h \in Hosts : WF_domainsVars(Expires(h))
    /\ \A r \in Readers : WF_domainsVars(Fills(r))
    /\ \A s \in Staff : WF_domainsVars(Ends(s))
    /\ SF_domainsVars(\E s \in Staff : RecheckReads(s))
    /\ SF_domainsVars(\E s \in Staff : RecheckCommits(s))

DomainsSpec == DomainsInit /\ [][DomainsNext]_domainsVars
FairDomainsSpec == DomainsSpec /\ DomainsFairness

-----------------------------------------------------------------------------
Rows == [shop : ShopStatus, domain : {"none", "pending", "active", "inactive"}]

\* The types of the rows, of the cached answers and of the open transactions.
DomainsTypeOK ==
    /\ shop \in ShopStatus /\ changes \in 0 .. MaxChanges
    /\ domain \in [Hosts -> [status : {"none", "pending", "active", "inactive"},
                             primary : BOOLEAN]]
    /\ dns \in [Custom -> BOOLEAN] /\ proved \subseteq Custom
    /\ cache \in [Hosts -> Rows \cup {None}]
    /\ reader \in [Readers -> [host : Hosts, row : Rows \cup {None}]]
    /\ open \in [Staff ->
         {Quiet} \cup [op : {"status"}, to : ShopStatus]
         \cup [op : {"verify"}, host : Custom, writes : BOOLEAN]
         \cup [op : {"recheck"}, failed : SUBSET Custom, demotes : SUBSET Custom]
         \cup [op : {"primary"}, host : Hosts, old : SUBSET Hosts]]

\* A tenant has at most one primary host, whatever requests and rechecks race, and
\* nobody can serve a host whose owner never proved it: a host is active, or is
\* cached or being cached as active, only if its DNS once proved it.
OwnedHosts ==
    /\ Cardinality(Primaries) <= 1
    /\ \A h \in Custom :
         domain[h].status = "active" \/ (cache[h] # None /\ cache[h].domain = "active")
            \/ (\E r \in Readers : reader[r].host = h /\ reader[r].row # None
                                   /\ reader[r].row.domain = "active")
         => h \in proved

\* What the gate of core/deps lets a request for the host do.
Admits(h) == cache[h] # None /\ cache[h].domain = "active" /\ cache[h].shop = "active"

\* A tenant that stays suspended or cancelled stops taking writes on every host,
\* although a request can put an answer it got before the commit into the cache
\* after the handler cleared it, and the nightly cycle clears nothing.
SuspensionBites == <>[](shop # "active") => <>[](\A h \in Hosts : ~Admits(h))

\* A host whose records stay away stops being served, although a lookup that still
\* saw them may commit after the recheck, and the recheck clears no cache.
LostDnsDeactivates ==
    \A h \in Custom : <>[](~dns[h]) => <>[](domain[h].status # "active" /\ ~Admits(h))

\* What the domains keep in every state (domains/router, service.recheck): rows of
\* their types, one primary host, and no host served that nobody proved.
DomainsSafe == DomainsTypeOK /\ OwnedHosts

\* What is served catches up with the tenant and with the DNS behind a cache that is
\* refilled with old answers (core/tenancy): a suspension comes to bite on every
\* host, and a host whose records went away stops being served.
HostsFollow == SuspensionBites /\ LostDnsDeactivates
=============================================================================
