---------------------------- MODULE MCSourceAlerts ----------------------------
(* Small instances of the source finder: a behaviour is about the alerts, or   *)
(* about searches (focus).                                                     *)
(* For the alerts, a tenant with a search, another one who claims a            *)
(* relationship, and two sources; the second one matches only with a link.     *)
EXTENDS SourceAlerts, TLC

CONSTANTS t1, t2, s1, x1, x2, MaxSearches

VARIABLES focus, embedder, index, feedback, clock, answer

MCOwner == s1 :> t1
MCPlace == x1 :> 1 @@ x2 :> 2
MCScore == [s \in Searches |-> [x \in Sources |-> [n \in 0..Cardinality(Claims) |->
               (IF x = x1 THEN 2 ELSE 1) + n]]]
MCClaimInputs ==
    {[tenant |-> t2, counterpart |-> t1, source |-> x2, label |-> "other",
      visibility |-> v] : v \in {"PUBLIC", "PRIVATE"}}

(* Searches: the first source has three links, two of them of a kind; the      *)
(* second one scores only by what a query finds.  The words of a query rank    *)
(* them close, or are found in the other country, or in no text at all.        *)
MCFacts ==
    x1 :> [country |-> "KE", industry |-> "AGRICULTURE", role |-> "SUPPLIER",
           verified |-> TRUE, views |-> 1280, inquiries |-> 68, response |-> 14,
           published |-> 1, links |-> <<"SERVES", "SERVES", "BUYS_FROM">>]
    @@ x2 :> [country |-> "UG", industry |-> "HOSPITALITY", role |-> "BUYER",
              verified |-> FALSE, views |-> 740, inquiries |-> 31, response |-> 60,
              published |-> 2, links |-> <<>>]
MCTokens == [nothing |-> 0, produce |-> 2, linen |-> 1]
None == [offers |-> 0, needs |-> 0, names |-> 0, links |-> 0]
MCText == [q \in DOMAIN MCTokens |->
              IF q = "produce" THEN x1 :> [None EXCEPT !.names = 1] @@ x2 :> [None EXCEPT !.needs = 2]
              ELSE [x \in Sources |-> None]]
Ranks(produce, linen) ==
    [nothing |-> x1 :> 0 @@ x2 :> 0, produce |-> x1 :> produce[1] @@ x2 :> produce[2],
     linen |-> x1 :> linen[1] @@ x2 :> linen[2]]
MCFullText == Ranks(<<20, 0>>, <<0, 10>>)
MCLocal == Ranks(<<20, 0>>, <<0, 0>>)
MCSimilarity == Ranks(<<80, 50>>, <<34, 60>>)
Anywhere == [country |-> "ANY", industry |-> "ANY", role |-> "ANY"]
Asked(query, sortBy, scope, consent) ==
    [tenant |-> t1, query |-> query, sortBy |-> sortBy, consent |-> consent] @@ scope @@ Anywhere
MCInputs == {Asked("nothing", "NEWEST", <<>>, FALSE),
             Asked("produce", "RELEVANCE", <<>>, TRUE),
             Asked("linen", "VERIFIED", [country |-> "KE"], FALSE)}
MCOutcomeInputs ==
    {o \in [tenant : {t1, t2}, record : Sources, action : {"SAVE", "DISMISS", "HIDE"}, consent : BOOLEAN] :
        /\ o.consent => o.action = "SAVE"
        /\ o.tenant = t2 => o.record = x1 /\ o.action = "SAVE"
        /\ o.action = "DISMISS" => o.record = x2}
MCScopes == {Anywhere, [country |-> "KE"] @@ Anywhere}

F == INSTANCE SourceSearch WITH
        Records <- Sources, Facts <- MCFacts, Inputs <- MCInputs, Scopes <- MCScopes,
        OutcomeInputs <- MCOutcomeInputs, Tokens <- MCTokens, Text <- MCText,
        FullText <- MCFullText, Local <- MCLocal, Similarity <- MCSimilarity,
        MaxCalls <- MaxSearches, overlaps <- overlapping

alertVars == <<claims, reports, search, alerts, notified, sweep>>
searchVars == <<embedder, index, feedback, clock, answer>>
allVars == <<focus, alertVars, searchVars, blocks, call, calls, overlapping, crashes>>

SourcesInit ==
    /\ focus \in {"alerts", "searches"}
    /\ AlertsInit /\ F!Init
    /\ focus = "alerts" => embedder = "none"

SourcesNext ==
    /\ UNCHANGED focus
    /\ \/ focus = "alerts" /\ AlertsNext /\ UNCHANGED searchVars
       \/ focus = "searches" /\ F!Next /\ UNCHANGED alertVars

Ours(A) == focus = "alerts" /\ A
SourcesSpec ==
    /\ SourcesInit /\ [][SourcesNext]_allVars
    /\ \A t \in Tenants : SF_sourceVars(Ours(\E r \in Sweeps : runAllOpportunityAlerts(r, t)))
    /\ \A s \in Searches : WF_sourceVars(Ours(Due(s)))
    /\ \A r \in Sweeps : WF_sourceVars(Ours(RunStep(r)))
    /\ \A k \in Calls : WF_sourceVars(Ours(Stored(k)))

(* Searches, the index and its reports answer as they should.                  *)
SearchesHold == F!SearchesHold
=============================================================================
