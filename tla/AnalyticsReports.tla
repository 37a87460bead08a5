----------------------------- MODULE AnalyticsReports -----------------------------
(* The reports of the analytics (analytics.service.ts): a tenant's own, and the  *)
(* platform's for a level of its hierarchy, computed from the raw events or from *)
(* the rows of the daily rollups.  An event has a type and an entity besides its *)
(* tenant, country and time; the entity stands for the entity's type, the        *)
(* industry and the consent, which rows are told apart by and reports are broken *)
(* down by in the same way.                                                      *)
EXTENDS AnalyticsRollups, PlatformAccess, FiniteSetsExt

CONSTANTS analyticsEventTypes, Entities, TopSize

ASSUME TypesAssumption == analyticsEventTypes \subseteq
    {"IMPRESSION", "VIEW", "CLICK", "INQUIRY", "SHARE", "DOWNLOAD", "SAVE", "SEARCH",
     "MATCH", "CHAT_MESSAGE", "RESPONSE_TIME"}
ASSUME CountriesAssumption == Countries = DOMAIN continentCode

MaxOf(S) == CHOOSE x \in S : \A y \in S : y <= x

(* aggregateAnalyticsDailyRollups: one row for each day, tenant, country and     *)
(* entity that an event has.  An event is a record with an id of its own.        *)
KeyOf(e) == [day |-> analyticsRollupDay(e.at), tenant |-> e.tenant, country |-> e.country,
             entity |-> e.entity]

RowOf(key, evs) ==
    LET counted == {e \in evs : KeyOf(e) = key}
    IN  [key |-> key,
         totals |-> [t \in analyticsEventTypes |-> Cardinality({e \in counted : e.type = t})],
         eventCount |-> Cardinality(counted),
         lastEventAt |-> MaxOf({e.at : e \in counted})]

aggregateAnalyticsDailyRollups(evs) == {RowOf(key, evs) : key \in {KeyOf(e) : e \in evs}}

(* The rows of a scope and a period: by days. *)
RowInScope(row, s, p) ==
    /\ InScope(row.key, s)
    /\ row.key.day \in analyticsRollupDay(p.from)..analyticsRollupDay(p.to)
-----------------------------------------------------------------------------------
(* From raw events. *)

eventTotals(evs) == [t \in analyticsEventTypes |-> Cardinality({e \in evs : e.type = t})]

breakdown(evs, label) ==
    [x \in {e[label] : e \in evs} |-> Cardinality({e \in evs : e[label] = x})]

Views == {"VIEW", "IMPRESSION"}

topEntitySummary(entity, evs) ==
    LET count(types) == Cardinality({e \in evs : e.entity = entity /\ e.type \in types})
    IN  [entity |-> entity, views |-> count(Views), clicks |-> count({"CLICK"}),
         inquiries |-> count({"INQUIRY"}), others |-> count({"SHARE", "DOWNLOAD"}),
         lastEventAt |-> MaxOf({e.at : e \in {x \in evs : x.entity = entity}})]

(* From rows. *)

rollupTotals(rows) ==
    [t \in analyticsEventTypes |-> SumFunction([row \in rows |-> row.totals[t]])]

rollupBreakdown(rows, label) ==
    [x \in {row.key[label] : row \in rows} |->
        SumFunction([row \in {r \in rows : r.key[label] = x} |-> row.eventCount])]

topEntityFromRows(entity, rows) ==
    LET mine == {row \in rows : row.key.entity = entity}
        count(types) == SumFunction([row \in mine |->
                            SumFunctionOnSet(row.totals, types \cap analyticsEventTypes)])
    IN  [entity |-> entity, views |-> count(Views), clicks |-> count({"CLICK"}),
         inquiries |-> count({"INQUIRY"}), others |-> count({"SHARE", "DOWNLOAD"}),
         lastEventAt |-> MaxOf({row.lastEventAt : row \in mine})]

(* The entities with the highest scores, at most TopSize: which of those with    *)
(* equal scores depends on the order of the rows, so that there may be several   *)
(* answers.                                                                      *)
Score(summary) == summary.views + 2 * summary.clicks + 4 * summary.inquiries + summary.others

Tops(summaries) ==
    LET size == IF Cardinality(summaries) < TopSize THEN Cardinality(summaries) ELSE TopSize
    IN  {top \in kSubset(size, summaries) :
            \A s \in top, other \in summaries \ top : Score(s) >= Score(other)}

mostVisited(top) == {[entity |-> s.entity, views |-> s.views] : s \in {x \in top : x.views > 0}}
-----------------------------------------------------------------------------------
(* The report of a dataset, which is either events or rows. *)

EventReport(evs) ==
    [eventCount |-> Cardinality(evs), totals |-> eventTotals(evs),
     topEntities |-> Tops({topEntitySummary(n, evs) : n \in {e.entity : e \in evs}}),
     mostVisited |-> {mostVisited(top) : top \in
                        Tops({topEntitySummary(n, evs) : n \in {e.entity : e \in evs}})},
     topCountries |-> breakdown(evs, "country"),
     topTenants |-> breakdown(evs, "tenant"),
     breakdowns |-> breakdown(evs, "entity")]

RowReport(rows) ==
    [eventCount |-> SumFunction([row \in rows |-> row.eventCount]),
     totals |-> rollupTotals(rows),
     topEntities |-> Tops({topEntityFromRows(n, rows) : n \in {row.key.entity : row \in rows}}),
     mostVisited |-> {mostVisited(top) : top \in
                        Tops({topEntityFromRows(n, rows) : n \in {row.key.entity : row \in rows}})},
     topCountries |-> rollupBreakdown(rows, "country"),
     topTenants |-> rollupBreakdown(rows, "tenant"),
     breakdowns |-> rollupBreakdown(rows, "entity")]

(* What a report is made of: rows when asked for, or when there are any.         *)
listHierarchyAnalyticsForQuery(evs, rows, s, p, source) ==
    LET mine == {row \in rows : RowInScope(row, s, p)}
    IN  IF source = "ROLLUP" \/ (source = "AUTO" /\ mine # {})
        THEN [source |-> "DAILY_ROLLUPS", rows |-> mine]
        ELSE [source |-> "RAW_EVENTS",
              events |-> {e \in evs : InScope(e, s) /\ e.at \in p.from..p.to}]

buildHierarchyReport(evs, rows, s, p, source) ==
    LET dataset == listHierarchyAnalyticsForQuery(evs, rows, s, p, source)
    IN  IF dataset.source = "DAILY_ROLLUPS" THEN RowReport(dataset.rows)
        ELSE EventReport(dataset.events)

(* A tenant's own report, of all its countries or of one.                        *)
buildTenantReport(tenant, country, evs, rows, p, source) ==
    buildHierarchyReport(evs, rows,
        [tenant |-> tenant, countries |-> IF country = None THEN {} ELSE {country}], p, source)

(* resolveHierarchyScope: what a query asks about, and what it will list.  The   *)
(* query names one code, for the level that it is at.                            *)
Levels == {"GLOBAL", "REGIONAL", "CONTINENT", "COUNTRY", "TENANT"}

resolveHierarchyScope(query) ==
    LET In(continents) == {k \in Countries : continentCode[k] \in continents}
        region(code) == CHOOSE g \in ToSet(operationalRegions) : g.code = code
    IN  CASE query.level = "GLOBAL" ->
                [resource |-> Resource(None, None, None, None), tenant |-> Whole, countries |-> {}]
          [] query.level = "REGIONAL" ->
                [resource |-> Resource(None, None, None, query.code), tenant |-> Whole,
                 countries |-> In(region(query.code).continentCodes)]
          [] query.level = "CONTINENT" ->
                [resource |-> Resource(None, None, query.code, None), tenant |-> Whole,
                 countries |-> In({query.code})]
          [] query.level = "COUNTRY" ->
                [resource |-> Resource(None, query.code, None, None), tenant |-> Whole,
                 countries |-> {query.code}]
          [] query.level = "TENANT" ->
                [resource |-> Resource(query.code, query.country, None, None),
                 tenant |-> query.code,
                 countries |-> IF query.country = None THEN {} ELSE {query.country}]

CodesOf(level) ==
    CASE level = "GLOBAL" -> {None}
      [] level = "REGIONAL" -> {g.code : g \in ToSet(operationalRegions)}
      [] level = "CONTINENT" -> Continents
      [] level = "COUNTRY" -> Countries
      [] level = "TENANT" -> Tenants

Queries ==
    UNION {[level : {l}, code : CodesOf(l),
            country : IF l = "TENANT" THEN Countries \cup {None} ELSE {None}] : l \in Levels}
-----------------------------------------------------------------------------------
(* Properties. *)

CONSTANTS Samples,     \* the tables of raw events that the reports are compared on
          Sessions     \* the assignments of the sessions that ask for reports

IsTable(evs) ==
    IsFiniteSet(evs) /\ \A e \in evs : e.at \in Nat /\ e.type \in analyticsEventTypes

ASSUME SamplesAssumption == \A evs \in Samples : IsTable(evs)
ASSUME SessionsAssumption ==
    \A held \in Sessions : /\ held \in Seq(ToSet(held))
                            /\ \A i \in DOMAIN held : held[i].level \in Levels

(* A report made of rows just refreshed is the report made of the raw events,    *)
(* for any scope and any period of whole days.                                   *)
ReportsAgree ==
    \A evs \in Samples, query \in Queries, p \in {q \in Periods : WholeDays(q)} :
        LET s == resolveHierarchyScope(query)
            rows == aggregateAnalyticsDailyRollups(evs)
            raw == buildHierarchyReport(evs, {}, s, p, "RAW")
        IN  /\ buildHierarchyReport(evs, rows, s, p, "ROLLUP") = raw
            /\ buildHierarchyReport(evs, rows, s, p, "AUTO").eventCount = raw.eventCount
            /\ query.level = "TENANT" =>
                  buildTenantReport(query.code, query.country, evs, rows, p, "ROLLUP") = raw

(* What an assignment covers of the events. *)
Covers(assignment, tenant, country) ==
    CASE assignment.level = "GLOBAL" -> TRUE
      [] assignment.level = "REGIONAL" ->
            \E g \in ToSet(operationalRegions) :
                g.code = assignment.code /\ continentCode[country] \in g.continentCodes
      [] assignment.level = "CONTINENT" -> continentCode[country] = assignment.code
      [] assignment.level = "COUNTRY" -> country = assignment.code
      [] assignment.level = "TENANT" -> tenant = assignment.code

(* "Each hierarchy level sees only its permitted analytics": whatever a session  *)
(* may ask for, every event that the report counts lies within an assignment     *)
(* that is in force, has the permission and, if it is one of those roles, came   *)
(* with the second factor.  Except for a region or continent without a           *)
(* supported country, whose empty list of countries lists everything.            *)
ReportsPermitted ==
    \A held \in Sessions, mfaVerified \in BOOLEAN, query \in Queries :
        LET s == resolveHierarchyScope(query)
        IN  /\ query.level \in {"REGIONAL", "CONTINENT"} => s.countries # {}
            /\ MayAccess(held, mfaVerified, "VIEW_ANALYTICS", s.resource)
            => \A tenant \in Tenants, country \in Countries :
                  InScope([tenant |-> tenant, country |-> country], s) =>
                      \E i \in DOMAIN held :
                          /\ Covers(held[i], tenant, country)
                          /\ isActiveAccessAssignment(held[i])
                          /\ "VIEW_ANALYTICS" \in permissionsByRole(held[i].role)
                          /\ requiresMfa(held[i].role) \/ held[i].mfaRequired => mfaVerified

(* The reports agree with one another and keep to what is permitted.  They are   *)
(* functions of the tables, so that it is enough to ask before any event.        *)
ReportsHold == recorded = {} => ReportsAgree /\ ReportsPermitted
==================================================================================
