------------------------------ MODULE AppBuilds -------------------------------
(* The white-label apps of a tenant (modules/mobile): the queue of builds, the   *)
(* runners of the release workflow that empty it, and the update gate.           *)
EXTENDS Integers, FiniteSets, Sequences

CONSTANTS
    Managers,    \* requests of the tenant's staff open at the same time
    Builds,      \* rows of app_builds, for one app and platform
    Runners,     \* runs of the workflow
    Versions,    \* version numbers, as sequences
    MaxReady     \* times the profile changes

ASSUME AppBuildsAssumption ==
    Versions \subseteq Seq(Nat) /\ MaxReady \in Nat /\ IsFiniteSet(Builds)

VARIABLES
    build,       \* app_builds
    ready,       \* the profile is complete and the tenant has a primary domain
    readied,
    asking,      \* the request of a manager to build a version
    claim,       \* the rows a runner's claim has locked
    held,        \* the builds a runner was given
    release      \* app_releases

buildVars == <<build, ready, readied, asking, claim, held, release>>

Queued == "queued"
Unused == [status |-> "unused"]
NotAsking == [version |-> <<>>]
InFlight(b) == build[b].status \in {Queued, "building"}
Requested(b) == build[b] # Unused

AppBuildsInit ==
    /\ build = [b \in Builds |-> Unused]
    /\ ready = FALSE /\ readied = 0
    /\ asking = [m \in Managers |-> NotAsking]
    /\ claim = [r \in Runners |-> {}]
    /\ held = [r \in Runners |-> {}]
    /\ release = [latest |-> <<>>, min |-> <<>>]

\* put_store_profile(), or the domain comes or goes.
PutProfile ==
    /\ readied < MaxReady
    /\ ready' = ~ready /\ readied' = readied + 1
    /\ UNCHANGED <<build, asking, claim, held, release>>

\* The next number of a version.
NumberOf(v) ==
    LET taken == {build[b].number : b \in {c \in Builds : Requested(c) /\ build[c].version = v}}
    IN  IF taken = {} THEN 1 ELSE 1 + CHOOSE n \in taken : \A k \in taken : k <= n

\* request_build(): nothing in flight that it sees, ...
RequestBuild(m, v) ==
    /\ asking[m] = NotAsking /\ ready
    /\ \A b \in Builds : ~InFlight(b)
    /\ asking' = [asking EXCEPT ![m] = [version |-> v, number |-> NumberOf(v)]]
    /\ UNCHANGED <<build, ready, readied, claim, held, release>>

\* ... UNIQUE (tenant_id, app, platform, version, build_number)
NumberFree(v, n) == \A b \in Builds : Requested(b) => <<build[b].version, build[b].number>> # <<v, n>>

RequestCommits(m, b) ==
    LET a == asking[m] IN
    /\ a # NotAsking /\ ~Requested(b)
    /\ NumberFree(a.version, a.number)
    /\ build' = [build EXCEPT ![b] = [status |-> Queued, version |-> a.version, number |-> a.number]]
    /\ asking' = [asking EXCEPT ![m] = NotAsking]
    /\ UNCHANGED <<ready, readied, claim, held, release>>

RequestRefused(m) ==
    /\ asking[m] # NotAsking
    /\ ~NumberFree(asking[m].version, asking[m].number)
    /\ asking' = [asking EXCEPT ![m] = NotAsking]
    /\ UNCHANGED <<build, ready, readied, claim, held, release>>

-----------------------------------------------------------------------------
\* claim_next(): FOR UPDATE SKIP LOCKED; what another claim has locked is passed over.
Unlocked_ignored == Builds
Unlocked_ready == {b \in Builds : ready /\ \A r \in Runners : b \notin claim[r]}
Unlocked == {b \in Builds : \A r \in Runners : b \notin claim[r]}

Claims(r, b) ==
    /\ claim[r] = {} /\ held[r] = {}
    /\ build[b].status = Queued /\ b \in Unlocked
    /\ claim' = [claim EXCEPT ![r] = {b}]
    /\ UNCHANGED <<build, ready, readied, asking, held, release>>

\* The claim commits, and its answer may be lost on the way to the runner.
ClaimCommits(r) ==
    /\ claim[r] # {}
    /\ build' = [b \in Builds |-> IF b \in claim[r] THEN [build[b] EXCEPT !.status = "building"] ELSE build[b]]
    /\ held' \in {[held EXCEPT ![r] = claim[r]], held}
    /\ claim' = [claim EXCEPT ![r] = {}]
    /\ UNCHANGED <<ready, readied, asking, release>>

\* report(): whatever the status was.
Report(b, to) == build' = [build EXCEPT ![b].status = to]

\* The build step was reached, and says how it went; a success is uploaded next.
BuildReports(r, b, to) ==
    /\ b \in held[r] /\ build[b].status = "building"
    /\ Report(b, to)
    /\ held' = IF to = "failed" THEN [held EXCEPT ![r] = @ \ {b}] ELSE held
    /\ UNCHANGED <<ready, readied, asking, claim, release>>

\* The upload went through, and the run is over.
UploadReports(r, b) ==
    /\ b \in held[r] /\ build[b].status = "succeeded"
    /\ Report(b, "uploaded")
    /\ held' = [held EXCEPT ![r] = @ \ {b}]
    /\ UNCHANGED <<ready, readied, asking, claim, release>>

\* A step before the build fails, the upload fails, or the runner is lost: nothing is
\* reported ("steps.artifact.outcome != 'skipped'").
RunEnds(r, b) ==
    /\ b \in held[r]
    /\ held' = [held EXCEPT ![r] = @ \ {b}]
    /\ UNCHANGED <<build, ready, readied, asking, claim, release>>

-----------------------------------------------------------------------------
\* _version_tuple(): three parts, whatever the version has.
VersionTuple(v) == [i \in 1 .. 3 |-> IF i <= Len(v) THEN v[i] ELSE 0]
Older(v, w) ==
    LET a == VersionTuple(v)
        b == VersionTuple(w) IN
    \E i \in 1 .. 3 : a[i] < b[i] /\ \A j \in 1 .. i - 1 : a[j] = b[j]

\* update_state()
UpdateState(v) ==
    IF release.latest = <<>> THEN "ok"
    ELSE IF Older(v, release.min) THEN "force"
    ELSE IF Older(v, release.latest) THEN "optional" ELSE "ok"

\* put_release(): a minimum that is not newer than the latest.
Supported(latest, min) == ~Older(latest, min)
PutRelease(latest, min) ==
    /\ Supported(latest, min)
    /\ release' = [latest |-> latest, min |-> min]
    /\ UNCHANGED <<build, ready, readied, asking, claim, held>>

AppBuildsNext ==
    \/ PutProfile
    \/ \E m \in Managers :
         \/ RequestRefused(m)
         \/ \E v \in Versions : RequestBuild(m, v)
         \/ \E b \in Builds : RequestCommits(m, b)
    \/ \E r \in Runners :
         \/ ClaimCommits(r)
         \/ \E b \in Builds :
              \/ Claims(r, b) \/ UploadReports(r, b) \/ RunEnds(r, b)
              \/ \E to \in {"succeeded", "failed"} : BuildReports(r, b, to)
    \/ \E v, w \in Versions : PutRelease(v, w)

\* The workflow runs every half hour and a run comes to an end.
AppBuildsFairness ==
    \A r \in Runners :
        /\ WF_buildVars(ClaimCommits(r))
        /\ WF_buildVars(\E b \in Builds : Claims(r, b))
        /\ WF_buildVars(\E b \in Builds : \/ UploadReports(r, b) \/ RunEnds(r, b)
                                          \/ \E to \in {"succeeded", "failed"} : BuildReports(r, b, to))
AppBuildsSpec == AppBuildsInit /\ [][AppBuildsNext]_buildVars
FairAppBuildsSpec == AppBuildsSpec /\ AppBuildsFairness

-----------------------------------------------------------------------------
\* The types of the rows, of the requests and of the claims.
AppBuildsTypeOK ==
    /\ \A b \in Builds : Requested(b) =>
         /\ build[b].status \in {Queued, "building", "succeeded", "failed", "uploaded"}
         /\ build[b].version \in Versions /\ build[b].number \in 1 .. Cardinality(Builds)
    /\ ready \in BOOLEAN /\ readied \in 0 .. MaxReady
    /\ \A r \in Runners : claim[r] \subseteq Builds /\ held[r] \subseteq Builds

\* A build is given to one runner: two runs never build, sign and upload the same one.
OneRunner ==
    /\ \A r, s \in Runners : r # s => (held[r] \cup claim[r]) \cap (held[s] \cup claim[s]) = {}
    /\ \A r \in Runners : \A b \in held[r] : ~(build[b].status = Queued)

\* Two builds of a version never share a number, which the stores would refuse, and
\* only one of them is in flight.
NumbersDiffer ==
    \A b, c \in Builds : b # c /\ Requested(b) /\ Requested(c) /\ build[b].version = build[c].version =>
        build[b].number # build[c].number /\ ~(InFlight(b) /\ InFlight(c))

\* Whoever has the latest version is never told to update.
LatestIsFine == release.latest # <<>> => UpdateState(release.latest) = "ok"

\* A build that is queued reaches a runner's hands or the end of its run.
QueueEmpties == \A b \in Builds : build[b].status = Queued ~> build[b].status # Queued

\* What the build queue keeps in every state (mobile/builds.py): rows of their types,
\* a build in the hands of one runner, numbers the stores accept and one build of a
\* version in flight, and a latest version that is never told to update.
BuildsSafe == AppBuildsTypeOK /\ OneRunner /\ NumbersDiffer /\ LatestIsFine
=============================================================================
