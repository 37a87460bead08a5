------------------------------ MODULE SourceAlerts ------------------------------
(* The opportunity alerts of saved searches (apps/api/src/modules/             *)
(* source-finder) with what decides whom they name: the relationship claims of *)
(* the graph (modules/relationships), the blocks of a tenant and the reports   *)
(* about content (modules/ugc).  The text of queries, sources and claims is    *)
(* left out: Score says how well a source matches a search, given the links    *)
(* that it has by public claims.                                               *)
EXTENDS Integers, FiniteSets

CONSTANTS
    Tenants, NoTenant,
    Searches, Owner,            \* saved searches and the tenant of each
    Sources, Place,             \* records, and the place of each in the catalogue
    Score,                      \* Score[search][source][links]
    opportunityAlertMinScore,
    Limits, DefaultLimit,       \* how many matches a run asked for considers
    Claims, ClaimInputs,        \* [tenant, counterpart, source, label, visibility]
    Reports,
    Sweeps, Calls,              \* sweeps, and decisions, in progress
    MaxCalls, MaxTrouble        \* bounds on what users do; on overlaps and crashes

ASSUME OwnerAssumption == Owner \in [Searches -> Tenants] /\ NoTenant \notin Tenants
ASSUME ScoreAssumption ==
    /\ IsFiniteSet(Sources) /\ IsFiniteSet(Claims)
    /\ Place \in [Sources -> Nat]
    /\ \A x, y \in Sources : Place[x] = Place[y] => x = y
    /\ Score \in [Searches -> [Sources -> [0..Cardinality(Claims) -> Nat]]]

VARIABLES
    claims, blocks, reports,
    search,    \* "none", "due", or "alerted" within its cadence
    alerts,    \* the SourceFinderOpportunityAlert rows: search and source
    notified,  \* history: how often each of them was queued as a notification
    sweep, call,
    calls, overlapping, crashes

sourceVars ==
    <<claims, blocks, reports, search, alerts, notified, sweep, call, calls, overlapping, crashes>>
bounds == <<calls, overlapping, crashes>>
graph == <<claims, blocks, reports>>
sweepVars == <<search, alerts, notified, sweep>>

Pairs == Searches \X Sources
Resting == [pc |-> "idle"]
NoClaim == [status |-> "NONE"]

isPublicGraphClaim(c) == /\ claims[c].status = "APPROVED"
                         /\ claims[c].visibility \in {"PUBLIC", "VERIFIED"}

(* attachApprovedRelationshipClaims: a claim links the records that its labels *)
(* name.                                                                       *)
Links == [x \in Sources |->
             Cardinality({c \in Claims : /\ isPublicGraphClaim(c)
                                         /\ x \in {claims[c].of.source, claims[c].of.label}})]

Better(s, links, x, y) ==
    \/ Score[s][x][links[x]] > Score[s][y][links[y]]
    \/ Score[s][x][links[x]] = Score[s][y][links[y]] /\ Place[x] < Place[y]

Matching(s, links) ==
    {x \in Sources : Score[s][x][links[x]] >= opportunityAlertMinScore}

(* The best of them come first, whether or not they are blocked, or known. *)
selectOpportunityMatches(s, links, limit) ==
    {x \in Matching(s, links) :
        Cardinality({y \in Matching(s, links) : Better(s, links, y, x)}) < limit}

BlockedFor(s) == {x \in Sources : <<Owner[s], x>> \in blocks}
-----------------------------------------------------------------------------
AlertsInit ==
    /\ claims = [c \in Claims |-> NoClaim] /\ blocks = {}
    /\ reports = [n \in Reports |-> "NONE"]
    /\ search = [s \in Searches |-> "none"]
    /\ alerts = {} /\ notified = [a \in Pairs |-> 0]
    /\ sweep = [r \in Sweeps |-> Resting] /\ call = [k \in Calls |-> Resting]
    /\ calls = 0 /\ overlapping = 0 /\ crashes = 0

Quiet == (\A r \in Sweeps : sweep[r] = Resting) /\ (\A k \in Calls : call[k] = Resting)

Overlapping == IF Quiet THEN UNCHANGED overlapping
               ELSE overlapping + crashes < MaxTrouble /\ overlapping' = overlapping + 1

(* A user begins something. *)
Begin == /\ calls < MaxCalls /\ calls' = calls + 1
         /\ Overlapping /\ UNCHANGED crashes

Answer(k, w) == call[k] = Resting /\ call' = [call EXCEPT ![k] = w]

(* A claim that a tenant may make, and as it is stored: one that is private    *)
(* needs nobody's decision.                                                    *)
MayClaim(i) == /\ ~(i.source = i.label /\ i.counterpart = i.tenant)
               /\ i.visibility # "PRIVATE" => i.counterpart # NoTenant
createRelationshipClaim(i) ==
    [of |-> i, visibility |-> i.visibility,
     status |-> IF i.visibility = "PRIVATE" THEN "APPROVED" ELSE "PENDING"]

createClaim ==
    /\ Begin
    /\ \E c \in Claims, i \in ClaimInputs :
          /\ claims[c] = NoClaim /\ MayClaim(i)
          /\ claims' = [claims EXCEPT ![c] = createRelationshipClaim(i)]
    /\ UNCHANGED <<blocks, reports, sweepVars, call>>

(* Mutant: what was rejected can be decided again. *)
assertMutableClaimMutant(c) == claims[c].status \in {"PENDING", "REJECTED"}

assertMutableClaim(c) == claims[c].status = "PENDING"

decideRelationshipClaim(claim, decision, isModerator) ==
    [claim EXCEPT !.status = decision,
                  !.visibility = IF decision = "APPROVED" /\ isModerator THEN "VERIFIED" ELSE @]
removeRelationshipClaim(claim) == [claim EXCEPT !.status = "REMOVED"]

(* The counterpart, or a moderator, decides: a copy of the claim as it was     *)
(* read is changed, and stored by another step.                                *)
decideClaim(k) ==
    /\ Begin
    /\ \E c \in Claims, decision \in {"APPROVED", "REJECTED"}, isModerator \in BOOLEAN :
          /\ assertMutableClaim(c)
          /\ isModerator \/ claims[c].of.counterpart # NoTenant
          /\ Answer(k, [pc |-> "claim", of |-> c,
                        value |-> decideRelationshipClaim(claims[c], decision, isModerator)])
    /\ UNCHANGED <<graph, sweepVars>>

(* Either tenant, or a moderator, removes it. *)
removeClaim(k) ==
    /\ Begin
    /\ \E c \in Claims :
          /\ claims[c].status \notin {"NONE", "REMOVED"}
          /\ Answer(k, [pc |-> "claim", of |-> c, value |-> removeRelationshipClaim(claims[c])])
    /\ UNCHANGED <<graph, sweepVars>>

createReport ==
    /\ Begin
    /\ \E n \in Reports : /\ reports[n] = "NONE"
                          /\ reports' = [reports EXCEPT ![n] = "OPEN"]
    /\ UNCHANGED <<claims, blocks, sweepVars, call>>

(* A report that is closed is not resolved again. *)
resolveUserContentReport(n, resolution) ==
    IF reports[n] \in {"NONE", "RESOLVED", "DISMISSED"} THEN "refused" ELSE resolution

resolveReport(k) ==
    /\ Begin
    /\ \E n \in Reports, resolution \in {"RESOLVED", "DISMISSED"} :
          /\ resolveUserContentReport(n, resolution) # "refused"
          /\ Answer(k, [pc |-> "report", of |-> n, value |-> resolveUserContentReport(n, resolution)])
    /\ UNCHANGED <<graph, sweepVars>>

Stored(k) ==
    /\ call[k] # Resting
    /\ IF call[k].pc = "claim"
       THEN claims' = [claims EXCEPT ![call[k].of] = call[k].value] /\ UNCHANGED reports
       ELSE reports' = [reports EXCEPT ![call[k].of] = call[k].value] /\ UNCHANGED claims
    /\ call' = [call EXCEPT ![k] = Resting]
    /\ UNCHANGED <<blocks, sweepVars, bounds>>

createBlock ==
    /\ Begin
    /\ \E b \in (Tenants \X Sources) \ blocks : blocks' = blocks \cup {b}
    /\ UNCHANGED <<claims, reports, sweepVars, call>>

removeBlock ==
    /\ Begin
    /\ \E b \in blocks : blocks' = blocks \ {b}
    /\ UNCHANGED <<claims, reports, sweepVars, call>>

createSavedSearch ==
    /\ Begin
    /\ \E s \in Searches : /\ search[s] = "none"
                           /\ search' = [search EXCEPT ![s] = "due"]
    /\ UNCHANGED <<graph, alerts, notified, sweep, call>>

(* isOpportunityAlertDue: its cadence has passed since it was alerted last. *)
Due(s) ==
    /\ search[s] = "alerted"
    /\ search' = [search EXCEPT ![s] = "due"]
    /\ UNCHANGED <<graph, alerts, notified, sweep, call, bounds>>
-----------------------------------------------------------------------------
(* runOpportunityAlerts for a tenant: it reads the searches and the graph, and *)
(* leaves out what is not due.                                                 *)
RunAt(r, pc) == sweep[r].pc = pc
Go(r, k) == sweep' = [sweep EXCEPT ![r] = k]

runOpportunityAlerts(r, t, limit) ==
    /\ RunAt(r, "idle")
    /\ \E left \in {{s \in Searches : Owner[s] = t /\ search[s] = "due"}} :
          /\ left # {}
          /\ Go(r, [pc |-> "searches", left |-> left, links |-> Links,
                    limit |-> limit, created |-> {}])
    /\ UNCHANGED <<graph, search, alerts, notified, call>>

(* The schedule runs it for every tenant that has a search. *)
runAllOpportunityAlerts(r, t) ==
    /\ Overlapping /\ UNCHANGED <<calls, crashes>>
    /\ runOpportunityAlerts(r, t, DefaultLimit)

Requested(r) ==
    /\ Begin
    /\ \E t \in Tenants, limit \in Limits : runOpportunityAlerts(r, t, limit)

(* The next search, and the blocks as they are by then. *)
MatchSearch(r) ==
    /\ RunAt(r, "searches") /\ sweep[r].left # {}
    /\ \E s \in sweep[r].left :
          Go(r, [pc |-> "results", left |-> sweep[r].left, links |-> sweep[r].links,
                 limit |-> sweep[r].limit, created |-> sweep[r].created, of |-> s,
                 results |-> selectOpportunityMatches(s, sweep[r].links, sweep[r].limit)
                                \ BlockedFor(s)])
    /\ UNCHANGED <<graph, search, alerts, notified, call, bounds>>

First(r) == CHOOSE x \in sweep[r].results :
                \A y \in sweep[r].results \ {x} : Better(sweep[r].of, sweep[r].links, x, y)

(* Mutant: a source that has its alert ends the search. *)
PassedOverMutant(r) == {}

PassedOver(r) == sweep[r].results \ {First(r)}

findOpportunityAlert(r) ==
    /\ RunAt(r, "results") /\ sweep[r].results # {}
    /\ Go(r, IF <<sweep[r].of, First(r)>> \in alerts
             THEN [sweep[r] EXCEPT !.results = PassedOver(r)]
             ELSE [sweep[r] EXCEPT !.pc = "create"])
    /\ UNCHANGED <<graph, search, alerts, notified, call, bounds>>

(* Mutant: no unique key on a search and a source. *)
TakenMutant(a) == FALSE

Taken(a) == a \in alerts

(* A second row for a search and a source is refused, and ends the run. *)
createOpportunityAlert(r) ==
    /\ RunAt(r, "create")
    /\ \E a \in {<<sweep[r].of, First(r)>>} :
          IF Taken(a)
          THEN Go(r, Resting) /\ UNCHANGED alerts
          ELSE /\ alerts' = alerts \cup {a}
               /\ Go(r, [sweep[r] EXCEPT !.pc = "results", !.results = @ \ {First(r)},
                                       !.created = @ \cup {a}])
    /\ UNCHANGED <<graph, search, notified, call, bounds>>

(* A run is over when its last search is alerted and all is queued. *)
Searching(k) == IF k.left = {} /\ k.created = {} THEN Resting ELSE k

updateSavedSearch(r) ==
    /\ RunAt(r, "results") /\ sweep[r].results = {}
    /\ search' = [search EXCEPT ![sweep[r].of] = "alerted"]
    /\ Go(r, Searching([pc |-> "searches", left |-> sweep[r].left \ {sweep[r].of},
                        links |-> sweep[r].links, limit |-> sweep[r].limit,
                        created |-> sweep[r].created]))
    /\ UNCHANGED <<graph, alerts, notified, call, bounds>>

(* planAndQueue, for all alerts at once, when all searches are done. *)
planAndQueue(r) ==
    /\ RunAt(r, "searches") /\ sweep[r].left = {}
    /\ \E a \in sweep[r].created :
          /\ notified' = [notified EXCEPT ![a] = @ + 1]
          /\ Go(r, Searching([sweep[r] EXCEPT !.created = @ \ {a}]))
    /\ UNCHANGED <<graph, search, alerts, call, bounds>>

Dies ==
    /\ overlapping + crashes < MaxTrouble
    /\ \/ \E r \in Sweeps : sweep[r] # Resting /\ Go(r, Resting) /\ UNCHANGED call
       \/ \E k \in Calls : /\ call[k] # Resting /\ UNCHANGED sweep
                           /\ call' = [call EXCEPT ![k] = Resting]
    /\ crashes' = crashes + 1
    /\ UNCHANGED <<graph, search, alerts, notified, calls, overlapping>>

RunStep(r) == \/ MatchSearch(r) \/ findOpportunityAlert(r)
              \/ createOpportunityAlert(r) \/ updateSavedSearch(r) \/ planAndQueue(r)

AlertsNext ==
    \/ createClaim \/ createReport \/ createBlock \/ removeBlock
    \/ createSavedSearch \/ Dies
    \/ \E s \in Searches : Due(s)
    \/ \E k \in Calls : decideClaim(k) \/ removeClaim(k) \/ resolveReport(k) \/ Stored(k)
    \/ \E r \in Sweeps : \/ Requested(r) \/ RunStep(r)
                       \/ \E t \in Tenants : runAllOpportunityAlerts(r, t)

(* The schedule starts a run for each tenant every quarter of an hour, whoever *)
(* else is busy (the bound on overlaps alone makes it wait, hence SF); cadences *)
(* pass, and what was begun goes on unless it dies.                            *)
Fairness ==
    /\ \A t \in Tenants : SF_sourceVars(\E r \in Sweeps : runAllOpportunityAlerts(r, t))
    /\ \A s \in Searches : WF_sourceVars(Due(s))
    /\ \A r \in Sweeps : WF_sourceVars(RunStep(r))
    /\ \A k \in Calls : WF_sourceVars(Stored(k))

AlertsSpec == AlertsInit /\ [][AlertsNext]_sourceVars /\ Fairness
-----------------------------------------------------------------------------
(* Properties.                                                             *)

Statuses == {"NONE", "PENDING", "APPROVED", "REJECTED", "REMOVED"}

AlertsTypeOK ==
    /\ \A c \in Claims : claims[c].status \in Statuses
    /\ blocks \subseteq Tenants \X Sources
    /\ alerts \subseteq Pairs /\ notified \in [Pairs -> Nat]
    /\ search \in [Searches -> {"none", "due", "alerted"}]

(* A tenant is told of a source at most once for a search, however many runs   *)
(* overlap; and if none overlap or die, of every alert that was created.  A    *)
(* run that dies before its end, or meets an alert that another run has just   *)
(* created, leaves alerts of whom nobody is told (runOpportunityAlerts).       *)
NoticesMatchAlerts ==
    /\ \A a \in Pairs : notified[a] <= IF a \in alerts THEN 1 ELSE 0
    /\ Quiet /\ overlapping = 0 /\ crashes = 0 => \A a \in alerts : notified[a] = 1

Wanted(a) == a[2] \in Matching(a[1], Links) \ BlockedFor(a[1])

(* Of operations that come one at a time, even if some die: a claim that was   *)
(* rejected or removed does not come back to the graph, a report that was      *)
(* closed stays so, and a new alert is for a source that is not blocked and    *)
(* that matches with the links it has by then.  A decision that overlaps a     *)
(* removal brings the claim back, as both store the claim they read.           *)
DecisionsStand ==
    [][overlapping' = 0 =>
          /\ \A c \in Claims : claims[c].status \in {"REJECTED", "REMOVED"} =>
                claims'[c].status \in {claims[c].status, "REMOVED"}
          /\ \A n \in Reports :
                reports[n] \in {"RESOLVED", "DISMISSED"} => reports'[n] = reports[n]
          /\ \A a \in alerts' \ alerts : Wanted(a)]_sourceVars

Eligible(a) ==
    /\ search[a[1]] # "none"
    /\ a[2] \in selectOpportunityMatches(a[1], Links, DefaultLimit) \ BlockedFor(a[1])

(* A source among the best matches of a search, and not blocked, is alerted in *)
(* the end, whatever runs died over it, unless it ceases to be one.            *)
Alerted == \A a \in Pairs : Eligible(a) ~> (a \in alerts \/ ~Eligible(a))

(* Notices match the alerts, and what was decided stands.                      *)
NoticesAndDecisions == []NoticesMatchAlerts /\ DecisionsStand
=============================================================================
