---------------------------- MODULE AnalyticsRollups ----------------------------
(* The raw analytics events, the daily rollups made of them, retention and the *)
(* erasure a tenant asks for (apps/api/src/modules/analytics).  A rollup row   *)
(* belongs to a day, a tenant and a country and counts events: the table is    *)
(* kept as the set of the events that its rows count.                          *)
EXTENDS Integers, FiniteSets

CONSTANTS
    Runs,               \* refreshes and privacy requests in progress
    Tenants, Countries,
    ActiveCountries,    \* the countries that events come from
    Times, DayLength,   \* when an event occurs, and how many times make a day
    Whole,              \* the tenant of a scope that names none
    Scopes,             \* the scopes asked for: [tenant, countries]
    MaxEvents,          \* bound on events ever recorded
    MaxTrouble          \* bound on overlapping and crashes together

ASSUME TimesAssumption == Times \subseteq Nat /\ DayLength \in Nat \ {0}
ASSUME ActiveAssumption == ActiveCountries \subseteq Countries
ASSUME ScopeAssumption == /\ Whole \notin Tenants
                          /\ Scopes \subseteq [tenant : Tenants \cup {Whole},
                                              countries : SUBSET Countries]

VARIABLES
    events,   \* the AnalyticsEvent rows
    rollups,  \* the events that the AnalyticsDailyRollup rows count
    run,
    recorded, \* history: every event there ever was
    late,     \* history: those recorded while an operation was in progress
    erased,   \* history: those that an answered erasure deleted, rollups rebuilt
    overlapping, \* deletions and operations begun so far while another was in progress
    crashes   \* operations that died so far

rollupsVars == <<events, rollups, run, recorded, late, erased, overlapping, crashes>>
counters == <<overlapping, crashes>>

Events == [tenant : Tenants, country : ActiveCountries, at : Times]
Periods == {p \in [from : Times, to : Times] : p.from <= p.to}
IdleRun == [pc |-> "idle"]

analyticsRollupDay(t) == t \div DayLength

(* An empty list of countries is no list: it leaves none out. *)
InScope(e, s) == /\ s.tenant \in {Whole, e.tenant}
                 /\ s.countries = {} \/ e.country \in s.countries

listEventsForScope(s, p) == {e \in events : InScope(e, s) /\ e.at \in p.from..p.to}

(* dailyRollupWhere: the rows of the scope, by whole days. *)
InRows(e, s, p) ==
    /\ InScope(e, s)
    /\ analyticsRollupDay(e.at) \in analyticsRollupDay(p.from)..analyticsRollupDay(p.to)

listDailyRollups(s, p) == {e \in rollups : InRows(e, s, p)}

(* listTenantAnalyticsForQuery: what a report counts. *)
Report(s, p, source) ==
    IF source = "ROLLUP" \/ (source = "AUTO" /\ listDailyRollups(s, p) # {})
    THEN listDailyRollups(s, p) ELSE listEventsForScope(s, p)

(* Mutant: the rows that there are stay, and the new ones come on top. *)
ReplacedMutant(s, p, counted) == rollups \cup counted

(* replaceDailyRollups, one transaction. *)
Replaced(s, p, counted) == (rollups \ listDailyRollups(s, p)) \cup counted
-----------------------------------------------------------------------------
RollupsInit ==
    /\ events = {} /\ rollups = {}
    /\ run = [r \in Runs |-> IdleRun]
    /\ recorded = {} /\ late = {} /\ erased = {}
    /\ overlapping = 0 /\ crashes = 0

Quiet == \A r \in Runs : run[r].pc = "idle"

Begin == /\ IF Quiet THEN UNCHANGED overlapping
            ELSE overlapping + crashes < MaxTrouble /\ overlapping' = overlapping + 1
         /\ UNCHANGED crashes

RunAt(r, pc) == run[r].pc = pc
Go(r, k) == run' = [run EXCEPT ![r] = k]

(* Visitors do not wait for anything. *)
recordEvent ==
    /\ Cardinality(recorded) < MaxEvents
    /\ \E e \in Events \ recorded :
          /\ events' = events \cup {e} /\ recorded' = recorded \cup {e}
          /\ late' = IF Quiet THEN late ELSE late \cup {e}
    /\ UNCHANGED <<rollups, run, erased, counters>>

pruneEvents(s, before) == {e \in events : ~(InScope(e, s) /\ e.at < before)}

runRetention ==
    /\ Begin
    /\ \E s \in Scopes, before \in Times : events' = pruneEvents(s, before)
    /\ events' # events
    /\ UNCHANGED <<rollups, run, recorded, late, erased>>

(* runRollupRefresh reads the events of the period; a dry run ends there. *)
runRollupRefresh(r) ==
    /\ RunAt(r, "idle") /\ Begin
    /\ \E s \in Scopes, p \in Periods :
          Go(r, [pc |-> "replace", scope |-> s, period |-> p,
                 counted |-> listEventsForScope(s, p), deleted |-> {}])
    /\ UNCHANGED <<events, rollups, recorded, late, erased>>

deleteEventsForPrivacyRequest(s, p) ==
    {e \in events : ~(InScope(e, s) /\ e.at \in p.from..p.to)}

(* runPrivacyRequest, an ERASURE that is no dry run: it deletes the events of  *)
(* one tenant and, if rollups are to be rebuilt, reads what is left and        *)
(* replaces them.                                                              *)
runPrivacyRequest(r) ==
    /\ RunAt(r, "idle") /\ Begin
    /\ \E s \in Scopes, p \in Periods, rebuildRollups \in BOOLEAN :
          /\ s.tenant # Whole
          /\ listEventsForScope(s, p) # {} \/ listDailyRollups(s, p) # {}
          /\ events' = deleteEventsForPrivacyRequest(s, p)
          /\ Go(r, IF rebuildRollups
                   THEN [pc |-> "rebuild", scope |-> s, period |-> p,
                         deleted |-> listEventsForScope(s, p)]
                   ELSE IdleRun)
    /\ UNCHANGED <<rollups, recorded, late, erased>>

Rebuild(r) ==
    /\ RunAt(r, "rebuild")
    /\ Go(r, [pc |-> "replace", scope |-> run[r].scope, period |-> run[r].period,
              counted |-> listEventsForScope(run[r].scope, run[r].period),
              deleted |-> run[r].deleted])
    /\ UNCHANGED <<events, rollups, recorded, late, erased, counters>>

replaceDailyRollups(r) ==
    /\ RunAt(r, "replace")
    /\ rollups' = Replaced(run[r].scope, run[r].period, run[r].counted)
    /\ erased' = erased \cup run[r].deleted
    /\ Go(r, IdleRun)
    /\ UNCHANGED <<events, recorded, late, counters>>

Crash ==
    /\ overlapping + crashes < MaxTrouble
    /\ \E r \in Runs : ~RunAt(r, "idle") /\ Go(r, IdleRun)
    /\ crashes' = crashes + 1
    /\ UNCHANGED <<events, rollups, recorded, late, erased, overlapping>>

RollupsNext ==
    \/ recordEvent \/ runRetention \/ Crash
    \/ \E r \in Runs : \/ runRollupRefresh(r) \/ runPrivacyRequest(r)
                       \/ Rebuild(r) \/ replaceDailyRollups(r)

RollupsSpec == RollupsInit /\ [][RollupsNext]_rollupsVars
-----------------------------------------------------------------------------
(* Properties.                                                             *)

RollupsTypeOK == /\ events \subseteq recorded /\ recorded \subseteq Events
          /\ rollups \subseteq recorded

(* Nothing that an answered erasure deleted is counted by a report. *)
ErasedIsForgotten ==
    \A s \in Scopes, p \in Periods, source \in {"AUTO", "RAW", "ROLLUP"} :
        Report(s, p, source) \cap erased = {}

(* The period begins and ends with a day. *)
WholeDays(p) == p.from % DayLength = 0 /\ p.to % DayLength = DayLength - 1

(* The new rows count raw events there are, and of whole days all of them but  *)
(* those recorded meanwhile.                                                   *)
RowsAreRaw(s, p) ==
    LET rows == {e \in rollups' : InRows(e, s, p)}
        raw == {e \in events : InRows(e, s, p)}
    IN  rows \subseteq raw /\ (WholeDays(p) => raw \ late \subseteq rows)

(* As long as no refresh or deletion begins during another, even if some die:  *)
(* no report counts again what an answered erasure deleted, and a refresh or a *)
(* rebuild leaves rows that agree with the raw events.  The period of the      *)
(* nightly run, the last twenty-four hours, is not one of whole days: the rows *)
(* of its first day are replaced by what came after its beginning.             *)
RollupsAgree ==
    [][overlapping' = 0 =>
          /\ ErasedIsForgotten'
          /\ \A r \in Runs : replaceDailyRollups(r) =>
                RowsAreRaw(run[r].scope, run[r].period)]_rollupsVars
=============================================================================
