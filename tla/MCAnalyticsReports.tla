---------------------------- MODULE MCAnalyticsReports ----------------------------
(* A small instance of the analytics: two days of two times each, a tenant of    *)
(* whom erasures and refreshes are asked for and one who is only refreshed.  The *)
(* world has a country on each of two continents of one region, and a region     *)
(* with a continent without countries.                                           *)
EXTENDS AnalyticsReports, TLC

CONSTANTS t1, ke, gb, af, eu, am, emea, americas

MCTimes == 0..3
MCScopes == {[tenant |-> t, countries |-> {}] : t \in {t1, Whole}}
Symmetry == Permutations(Runs)

MCContinentCode == (ke :> af) @@ (gb :> eu)
MCRegions == <<[code |-> emea, continentCodes |-> {af, eu}],
               [code |-> americas, continentCodes |-> {am}]>>

(* Three events of one tenant: a row may hold one, two or three of them. *)
MCSamples ==
    {{[id |-> i, tenant |-> t1, country |-> f[i].country, at |-> f[i].at, type |-> f[i].type,
       entity |-> f[i].entity] : i \in 1..3} :
     f \in {f \in [1..3 -> [country : {ke, gb}, at : {0, 1, 2}, type : {"VIEW", "INQUIRY"},
                     entity : Entities]] : f[1].country = ke}}

(* Sessions with one or two assignments of four roles. *)
MCAssignments ==
    UNION {[level : {l}, code : CodesOf(l), mfaRequired : BOOLEAN, expired : BOOLEAN,
            revoked : {FALSE}, role : {"GLOBAL_ANALYTICS_VIEWER", "COUNTRY_SUPPORT_AGENT",
                                       "EDITOR", "OWNER"}] : l \in Levels}
MCSessions == {<<a>> : a \in MCAssignments} \cup
    {<<a, b>> : a \in {x \in MCAssignments : ~x.mfaRequired}, b \in {x \in MCAssignments :
                    x.mfaRequired /\ ~x.expired /\ x.role # "EDITOR"}}
==================================================================================
