------------------------------ MODULE SourceSearch ------------------------------
(* Searching the source finder (apps/api/src/modules/source-finder and         *)
(* packages/domain/src/source-finder.ts): the rules, the full-text index and   *)
(* the embeddings that rank a source, the feedback a tenant gave on it and its *)
(* blocks, and the rebuild of the index beside them.                           *)
(*                                                                             *)
(* A call goes from await to await.  Texts are left out: for a query and a     *)
(* source the constants give how many tokens each field holds, and the ranks   *)
(* that the index and the embeddings give it, in hundredths.                   *)
EXTENDS Integers, Sequences, FiniteSets, FiniteSetsExt, Functions

CONSTANTS
    Records, Facts,      \* the pilot catalogue
    Tenants,
    OutcomeInputs,       \* what a tenant says of a source: an action, and a consent
    Inputs, Scopes,      \* what a tenant searches for, and with what consent; what is reported on
    Tokens, Text,        \* of a query: its tokens, and those in each field of a source
    FullText, Local,     \* ts_rank by the database; scoreSourceFinderFullText
    Similarity,          \* cosineSimilarity of the query and the source
    Calls, MaxCalls,     \* in progress; a bound on them
    MaxTrouble           \* a bound on overlaps, crashes and failures

sourceFinderOutcomeActions == {"ACCEPT", "SAVE", "DISMISS", "HIDE", "REPORT"}

VARIABLES
    embedder,  \* "none", "optional" (a key is present) or "required" (asked for by name)
    index,     \* the SourceFinderIndex rows: "none", "plain" or "embedded"
    feedback,  \* the SourceFinderOutcomeFeedback rows
    blocks, clock,  \* the clock stands at the last feedback
    call,      \* per call in progress: where it is, and its locals
    answer,    \* what a call has just answered
    calls, overlaps, crashes

vars == <<embedder, index, feedback, blocks, clock, call, answer, calls, overlaps, crashes>>

sourceFinderEmbeddingMatchThreshold == 35
Idle == [pc |-> "idle"]
Searching == {"documents", "embeddings", "hits", "embed", "feedback", "blocks"}
NoAnswer == [kind |-> "none"]
Least(a, b) == IF a <= b THEN a ELSE b
-----------------------------------------------------------------------------
(* Ranking by rules.                                                           *)

InFilters(i, x) ==
    /\ i.country \in {"ANY", Facts[x].country}
    /\ i.industry \in {"ANY", "ALL", Facts[x].industry}
    /\ i.role \in {"ANY", "ALL", Facts[x].role}

(* The points of a source for each reason. *)
Points(i, x) ==
    LET t == Text[i.query][x]
        f == Facts[x]
        If(cond, n) == IF cond THEN n ELSE 0
    IN  [ OFFER_MATCH |-> 24 * t.offers, NEED_MATCH |-> 20 * t.needs,
          NAME_OR_LOCATION_MATCH |-> 12 * t.names,
          RELATIONSHIP_LINKS |-> 8 * t.links + Least(4 * Len(f.links), 12),
          ROLE_MATCH |-> If(i.role = f.role, 15), INDUSTRY_MATCH |-> If(i.industry = f.industry, 12),
          COUNTRY_MATCH |-> If(i.country = f.country, 8), VERIFIED_PROFILE |-> If(f.verified, 8),
          POPULAR_PROFILE |-> If(f.views >= 750 \/ f.inquiries >= 40, 8),
          FAST_RESPONSE |-> If(f.response <= 30, 6) ]

scoreRecord(i, x) ==
    LET p == Points(i, x)
    IN  [score |-> Least(100, SumFunction(p)), reasonCodes |-> {c \in DOMAIN p : p[c] > 0}]

searchSourceFinderRecords(i, records) ==
    [x \in {x \in records : /\ InFilters(i, x)
                            /\ Tokens[i.query] = 0 \/ scoreRecord(i, x).score > 0}
        |-> scoreRecord(i, x)]

(* sortResults: may y not come before x? *)
Before(sortBy, found, x, y) ==
    CASE sortBy = "NEWEST" -> Facts[x].published > Facts[y].published
      [] sortBy = "MOST_VISITED" -> Facts[x].views > Facts[y].views
      [] sortBy = "VERIFIED" ->
            \/ Facts[x].verified /\ ~Facts[y].verified
            \/ Facts[x].verified = Facts[y].verified /\ found[x].score > found[y].score
      [] sortBy = "RESPONSE_TIME" -> Facts[x].response < Facts[y].response
      [] OTHER -> found[x].score > found[y].score

(* Sorted; the catalogue's own order, by which ties go, is any. *)
sortResults(found, sortBy) ==
    {s \in Bijection(1..Cardinality(DOMAIN found), DOMAIN found) :
        \A n, m \in DOMAIN s : n < m => ~Before(sortBy, found, s[m], s[n])}
-----------------------------------------------------------------------------
(* Ranking with the index: a hit is a source and its ranks.                    *)

Hits(i, documents, ranks) ==
    [x \in {x \in documents : InFilters(i, x) /\ ranks[i.query][x] > 0}
        |-> [ftsRank |-> ranks[i.query][x], embeddingRank |-> 0]]

(* All documents with an embedding take part, those outside the filters too. *)
attachSourceFinderEmbeddingRanks(i, hits, embedded) ==
    LET similar == {x \in embedded : Similarity[i.query][x] >= sourceFinderEmbeddingMatchThreshold}
    IN  [x \in DOMAIN hits \cup similar |->
            [ftsRank |-> IF x \in DOMAIN hits THEN hits[x].ftsRank ELSE 0,
             embeddingRank |-> IF x \in similar THEN Similarity[i.query][x] ELSE 0]]

(* applySourceFinderFullTextRanking: a rank of 0.3 counts as the whole of 20.   *)
FullTextPoints(rank) == (40 * Least(30, rank) + 30) \div 60

(* applySourceFinderEmbeddingRanking: up to 18 points.                         *)
EmbeddingPoints(rank) == (36 * rank + 100) \div 200

Boosted(result, points, reason) ==
    [score |-> Least(100, result.score + points), reasonCodes |-> result.reasonCodes \cup {reason}]

Ranked(result, hit) ==
    LET read == IF hit.ftsRank = 0 THEN result
                ELSE Boosted(result, FullTextPoints(hit.ftsRank), "KEYWORD_MATCH")
    IN  IF hit.embeddingRank = 0 THEN read
        ELSE Boosted(read, EmbeddingPoints(hit.embeddingRank), "SEMANTIC_MATCH")

(* Mutant: a source that the rules do not match is taken from the index. *)
rankSourceFinderWithFullTextMutant(i, records, hits) ==
    LET ruled == searchSourceFinderRecords(i, records) IN
    [x \in DOMAIN ruled \cup DOMAIN hits |->
        LET result == IF x \in DOMAIN ruled THEN ruled[x] ELSE [score |-> 0, reasonCodes |-> {}]
        IN  IF x \in DOMAIN hits THEN Ranked(result, hits[x]) ELSE result]

(* If the index finds any source at all, only what it finds is ranked. *)
rankSourceFinderWithFullText(i, records, hits) ==
    LET ruled == searchSourceFinderRecords(i,
                    IF DOMAIN hits = {} THEN records ELSE records \cap DOMAIN hits)
    IN  [x \in DOMAIN ruled |-> IF x \in DOMAIN hits THEN Ranked(ruled[x], hits[x]) ELSE ruled[x]]

resolveSourceFinderSearchMode(i, documents, hits) ==
    CASE documents = {} \/ Tokens[i.query] = 0 \/ DOMAIN hits = {} -> "RULES"
      [] \E x \in DOMAIN hits : hits[x].ftsRank > 0 -> "HYBRID"
      [] OTHER -> "SEMANTIC"
-----------------------------------------------------------------------------
(* What a tenant thinks of a source.                                           *)

(* The latest outcomes: more than one if they are of the same time. *)
Latest(mine, x) ==
    LET about == {f \in mine : f.of.record = x}
    IN  {f \in about : \A g \in about : g.at <= f.at}

latestSourceFinderOutcomes(mine) ==
    LET judged == {f.of.record : f \in mine}
    IN  {o \in [judged -> mine] : \A x \in judged : o[x] \in Latest(mine, x)}

Hides(f) == f.of.action \in {"HIDE", "REPORT"}
Praises(f) == f.of.action \in {"ACCEPT", "SAVE"} /\ f.of.consent

Adjusted(result, f, consent) ==
    CASE f.of.action = "DISMISS" ->
            [result EXCEPT !.score = IF @ > 15 THEN @ - 15 ELSE 0]
      [] Praises(f) /\ consent ->
            [score |-> Least(100, result.score + 10),
             reasonCodes |-> result.reasonCodes \cup {"OUTCOME_FEEDBACK"}]
      [] OTHER -> result

(* Mutant: the search's own consent is enough. *)
applySourceFinderOutcomesMutant(found, outcomes, consent) ==
    [x \in {x \in DOMAIN found : x \in DOMAIN outcomes => ~Hides(outcomes[x])} |->
        IF x \in DOMAIN outcomes
        THEN Adjusted(found[x], [outcomes[x] EXCEPT !.of.consent = TRUE], consent) ELSE found[x]]

applySourceFinderOutcomes(found, outcomes, consent) ==
    [x \in {x \in DOMAIN found : x \in DOMAIN outcomes => ~Hides(outcomes[x])} |->
        IF x \in DOMAIN outcomes THEN Adjusted(found[x], outcomes[x], consent) ELSE found[x]]

filterBlockedSourceFinderResults(found, t) ==
    Restrict(found, {x \in DOMAIN found : <<t, x>> \notin blocks})

(* What a tenant has said: the sources that it blocks, and hid last; those that *)
(* a search may leave out, and those that it may rank higher.                  *)
Said(t, given, barring) ==
    LET mine == {f \in given : f.of.tenant = t}
        Last(x) == Latest(mine, x)
        blocked == {x \in Records : <<t, x>> \in barring}
    IN  [blocked |-> blocked,
         hidden |-> {x \in Records : Last(x) # {} /\ \A f \in Last(x) : Hides(f)},
         doubtful |-> blocked \cup {x \in Records : \E f \in Last(x) : Hides(f)},
         praised |-> {x \in Records : \E f \in Last(x) : Praises(f)}]

(* History: what the tenant of a call has said throughout, or at any time. *)
Noted(before, now) ==
    [blocked |-> before.blocked \cap now.blocked, hidden |-> before.hidden \cap now.hidden,
     doubtful |-> before.doubtful \cup now.doubtful, praised |-> before.praised \cup now.praised]
-----------------------------------------------------------------------------
(* The hierarchy report.                                                       *)

Field(name, x, links) ==
    CASE name = "sources" -> 1
      [] name = "verified" -> IF Facts[x].verified THEN 1 ELSE 0
      [] name = "relationshipLinks" -> links
      [] name = "views" -> Facts[x].views
      [] name = "inquiries" -> Facts[x].inquiries

(* Mutant: a source counts once for each link that it has. *)
addHierarchyBucketMutant(sources, links) ==
    [f \in {"sources", "verified", "relationshipLinks", "views", "inquiries"} |->
        MapThenSumSet(LAMBDA x : links[x] * Field(f, x, links[x]), sources)]

(* The bucket of some sources, of each of which so many links count. *)
addHierarchyBucket(sources, links) ==
    [f \in {"sources", "verified", "relationshipLinks", "views", "inquiries"} |->
        MapThenSumSet(LAMBDA x : Field(f, x, links[x]), sources)]

AllLinks(x) == Len(Facts[x].links)
LinksOf(x, kind) == Cardinality({n \in DOMAIN Facts[x].links : Facts[x].links[n] = kind})

(* By a property of theirs; and by the relationships that they have. *)
By(scoped, key) ==
    LET Of(k) == {x \in scoped : Facts[x][key] = k} IN
    [k \in {Facts[x][key] : x \in scoped} |-> addHierarchyBucket(Of(k), [x \in Of(k) |-> AllLinks(x)])]

ByRelationship(scoped) ==
    [k \in UNION {Range(Facts[x].links) : x \in scoped} |->
        addHierarchyBucket({x \in scoped : LinksOf(x, k) > 0}, [x \in scoped |-> LinksOf(x, k)])]

buildSourceFinderHierarchyReport(records, scope) ==
    LET scoped == {x \in records : InFilters(scope, x)} IN
    [kind |-> "hierarchy", scoped |-> scoped,
     byCountry |-> By(scoped, "country"),
     byIndustry |-> By(scoped, "industry"),
     byRole |-> By(scoped, "role"),
     byRelationship |-> ByRelationship(scoped)]
-----------------------------------------------------------------------------
Init ==
    /\ embedder \in {"none", "optional", "required"}
    /\ index = [x \in Records |-> "none"]
    /\ feedback = {} /\ blocks = {} /\ clock = 0
    /\ call = [k \in Calls |-> Idle] /\ answer = NoAnswer
    /\ calls = 0 /\ overlaps = 0 /\ crashes = 0

Indexed == {x \in Records : index[x] # "none"}
Embedded == {x \in Records : index[x] = "embedded"}

pilotSourceFinderRecords == Records

(* catalogRecords: the pilot records stand in for an empty index. *)
Catalogue == IF Indexed = {} THEN pilotSourceFinderRecords ELSE Indexed

At(k, pc) == call[k].pc = pc
Set(k, c) == call' = [call EXCEPT ![k] = c]
Goto(k, pc) == Set(k, [call[k] EXCEPT !.pc = pc])

Begin ==
    /\ calls < MaxCalls /\ calls' = calls + 1
    /\ IF \A k \in Calls : At(k, "idle") THEN UNCHANGED overlaps
       ELSE overlaps + crashes < MaxTrouble /\ overlaps' = overlaps + 1
    /\ UNCHANGED crashes

(* No answer yet, or never: the call was refused. *)
Silent == answer' = NoAnswer

(* Something that may fail does. *)
Fails == overlaps + crashes < MaxTrouble /\ crashes' = crashes + 1

counters == <<calls, overlaps, crashes>>
stored == <<embedder, index, feedback, blocks, clock>>

(* search: the records, the documents of the index, the full-text hits, the    *)
(* embedding of the query, the tenant's feedback and its blocks, in this order. *)
search(k) ==
    /\ At(k, "idle") /\ Begin
    /\ \E i \in Inputs :
          Set(k, [pc |-> "documents", input |-> i, records |-> Catalogue, documents |-> {},
                  embedded |-> {}, hits |-> <<>>, outcomes |-> <<>>,
                  said |-> Said(i.tenant, feedback, blocks)])
    /\ Silent /\ UNCHANGED stored

listIndexDocuments(k) ==
    /\ At(k, "documents")
    /\ Set(k, [call[k] EXCEPT !.pc = "embeddings", !.documents = Indexed])
    /\ Silent /\ UNCHANGED <<stored, counters>>

(* A query of its own. *)
loadIndexEmbeddings(k) ==
    /\ At(k, "embeddings")
    /\ Set(k, [call[k] EXCEPT !.pc = "hits", !.embedded = call[k].documents \cap Embedded])
    /\ Silent /\ UNCHANGED <<stored, counters>>

(* Ranked by the database; without it, by what the documents say. *)
searchIndexDocuments(k) ==
    /\ At(k, "hits")
    /\ \E ranks \in {FullText, Local} :
          Set(k, [call[k] EXCEPT !.pc = "embed",
                     !.hits = IF call[k].documents = {} THEN <<>>
                              ELSE Hits(call[k].input, Indexed, ranks)])
    /\ Silent /\ UNCHANGED <<stored, counters>>

(* Without an embedder, or one that answers, the search goes on; so it does if *)
(* it fails, or answers nothing of use, unless it is required and fails.       *)
embedQuery(k) ==
    /\ At(k, "embed")
    /\ LET c == call[k]
           unused == embedder = "none" \/ Tokens[c.input.query] = 0
       IN  \/ /\ Set(k, [c EXCEPT !.pc = "feedback",
                            !.hits = IF unused THEN @
                                     ELSE attachSourceFinderEmbeddingRanks(c.input, @, c.embedded)])
              /\ UNCHANGED crashes
           \/ ~unused /\ Fails /\ Goto(k, "feedback")
           \/ ~unused /\ Fails /\ embedder = "required" /\ Set(k, Idle)
    /\ Silent /\ UNCHANGED <<stored, calls, overlaps>>

listOutcomeFeedback(k) ==
    /\ At(k, "feedback")
    /\ \E outcomes \in latestSourceFinderOutcomes({f \in feedback : f.of.tenant = call[k].input.tenant}) :
          Set(k, [call[k] EXCEPT !.pc = "blocks", !.outcomes = outcomes])
    /\ Silent /\ UNCHANGED <<stored, counters>>

(* Mutant: what feedback changes is not sorted again. *)
OrderMutant(c, found, before) == sortResults(before, c.input.sortBy)

(* With any feedback of the tenant's the order asked for is given up. *)
Order(c, found, before) ==
    sortResults(found, IF DOMAIN c.outcomes = {} THEN c.input.sortBy ELSE "RELEVANCE")

(* The blocks are read, and all is put together. *)
Answer(k) ==
    /\ At(k, "blocks")
    /\ LET c == call[k]
           ranked == rankSourceFinderWithFullText(c.input, c.records, c.hits)
           found == filterBlockedSourceFinderResults(
                        applySourceFinderOutcomes(ranked, c.outcomes, c.input.consent), c.input.tenant)
       IN  \E results \in Order(c, found, Restrict(ranked, DOMAIN found)) :
              answer' = [kind |-> "search", call |-> c, found |-> found, results |-> results,
                         mode |-> resolveSourceFinderSearchMode(c.input, c.documents, c.hits)]
    /\ Set(k, Idle)
    /\ UNCHANGED <<stored, counters>>

hierarchy ==
    /\ Begin
    /\ \E s \in Scopes : answer' = buildSourceFinderHierarchyReport(Catalogue, s)
    /\ UNCHANGED <<stored, call>>
-----------------------------------------------------------------------------
(* Feedback and blocks.                                                        *)

Noting == [k \in Calls |->
    IF call[k].pc \notin Searching THEN call[k]
    ELSE [call[k] EXCEPT !.said = Noted(@, Said(call[k].input.tenant, feedback', blocks'))]]

(* The source is known and not blocked: the feedback, of now, is stored by     *)
(* another step.                                                               *)
recordOutcome(k) ==
    /\ At(k, "idle") /\ Begin
    /\ \E o \in OutcomeInputs :
          /\ o.record \in Catalogue /\ <<o.tenant, o.record>> \notin blocks
          /\ \E at \in {clock, clock + 1} :
                /\ clock' = at
                /\ Set(k, [pc |-> "outcome", row |-> [of |-> o, at |-> at]])
    /\ Silent /\ UNCHANGED <<embedder, index, feedback, blocks>>

createOutcomeFeedback(k) ==
    /\ At(k, "outcome")
    /\ feedback' = feedback \cup {call[k].row} /\ UNCHANGED blocks
    /\ call' = [Noting EXCEPT ![k] = Idle]
    /\ Silent /\ UNCHANGED <<embedder, index, clock, counters>>

createBlock ==
    /\ Begin
    /\ \E b \in (Tenants \X Records) \ blocks : blocks' = blocks \cup {b}
    /\ UNCHANGED feedback /\ call' = Noting
    /\ Silent /\ UNCHANGED <<embedder, index, clock>>

removeBlock ==
    /\ Begin
    /\ \E b \in blocks : blocks' = blocks \ {b}
    /\ UNCHANGED feedback /\ call' = Noting
    /\ Silent /\ UNCHANGED <<embedder, index, clock>>

-----------------------------------------------------------------------------
(* The rebuild of the index: the documents, their embeddings, one transaction  *)
(* that replaces all rows, and the embeddings, each written on its own.        *)

rebuildIndex(k) ==
    /\ At(k, "idle") /\ Begin
    /\ \E includePilot \in BOOLEAN :
          Set(k, [pc |-> "batch", documents |-> IF includePilot THEN pilotSourceFinderRecords ELSE {},
                  embedded |-> {}])
    /\ Silent /\ UNCHANGED stored

(* The documents for which an answer that lacks something has an embedding. *)
embedBatch(documents) == SUBSET documents \ {documents}

embedIndexDocuments(k) ==
    /\ At(k, "batch")
    /\ LET documents == call[k].documents
           unused == embedder = "none" \/ documents = {}
           Go(embedded) == Set(k, [call[k] EXCEPT !.pc = "replace", !.embedded = embedded])
       IN  \/ unused /\ Go({}) /\ UNCHANGED crashes
           \/ ~unused /\ Go(documents) /\ UNCHANGED crashes
           \/ ~unused /\ Fails /\ \E some \in embedBatch(documents) : Go(some)
           \/ ~unused /\ Fails /\ embedder = "required" /\ Set(k, Idle)
    /\ Silent /\ UNCHANGED <<stored, calls, overlaps>>

(* Mutant: rows that are there stay as they were. *)
ReplacedMutant(documents) == [x \in Records |-> IF index[x] # "none" THEN index[x]
                                                ELSE IF x \in documents THEN "plain" ELSE "none"]

Replaced(documents) == [x \in Records |-> IF x \in documents THEN "plain" ELSE "none"]

(* Of two at a time, the second finds rows that it did not delete, and fails. *)
replaceIndexDocuments(k) ==
    /\ At(k, "replace")
    /\ \/ /\ index' = Replaced(call[k].documents)
          /\ Set(k, [pc |-> "write", documents |-> call[k].documents,
                     embedded |-> call[k].embedded, left |-> call[k].embedded])
         
       \/ /\ call[k].documents # {} /\ \E j \in Calls \ {k} : At(j, "replace")
          /\ Set(k, Idle) /\ UNCHANGED index
    /\ Silent /\ UNCHANGED <<embedder, feedback, blocks, clock, counters>>

(* An UPDATE of a row, if there is one; failures are passed over in silence. *)
writeIndexEmbeddings(k) ==
    /\ At(k, "write") /\ call[k].left # {}
    /\ \E x \in call[k].left :
          /\ call' = [call EXCEPT ![k].left = @ \ {x}]
          /\ \/ /\ index' = [index EXCEPT ![x] = IF @ = "none" THEN @ ELSE "embedded"]
                /\ UNCHANGED crashes
             \/ Fails /\ UNCHANGED index
    /\ Silent /\ UNCHANGED <<embedder, feedback, blocks, clock, calls, overlaps>>

Rebuilt(k) ==
    /\ At(k, "write") /\ call[k].left = {}
    /\ answer' = [kind |-> "rebuilt", indexed |-> call[k].documents, embedded |-> call[k].embedded]
    /\ Set(k, Idle)
    /\ UNCHANGED <<stored, counters>>

Crash ==
    /\ Fails
    /\ \E k \in Calls : ~At(k, "idle") /\ Set(k, Idle)
    /\ Silent /\ UNCHANGED <<stored, calls, overlaps>>

Next ==
    \/ hierarchy \/ createBlock \/ removeBlock \/ Crash
    \/ \E k \in Calls :
          \/ search(k) \/ listIndexDocuments(k) \/ loadIndexEmbeddings(k) \/ searchIndexDocuments(k)
          \/ embedQuery(k) \/ listOutcomeFeedback(k) \/ Answer(k)
          \/ recordOutcome(k) \/ createOutcomeFeedback(k)
          \/ rebuildIndex(k) \/ embedIndexDocuments(k) \/ replaceIndexDocuments(k)
          \/ writeIndexEmbeddings(k) \/ Rebuilt(k)

Spec == Init /\ [][Next]_vars
-----------------------------------------------------------------------------
(* Properties.                                                                 *)

(* An answer to a search, whatever went on meanwhile: it has only sources      *)
(* within the filters, none that the tenant blocked, or had hidden last, all   *)
(* along; feedback lifts a source only if the tenant praised it last and       *)
(* agreed both then and now; and no answer said to be by the rules alone has   *)
(* a reason of the index in it, or leaves out a source that the rules match    *)
(* and the tenant neither blocked nor hid.                                     *)
AnswersHold ==
    answer.kind = "search" =>
        LET c == answer.call
            found == answer.found
            reasons == UNION {found[x].reasonCodes : x \in DOMAIN found}
        IN  /\ \A x \in DOMAIN found :
                  /\ InFilters(c.input, x) /\ x \notin c.said.blocked \cup c.said.hidden
                  /\ found[x].score \in 0..100
                  /\ "OUTCOME_FEEDBACK" \in found[x].reasonCodes => c.input.consent /\ x \in c.said.praised
            /\ answer.mode = "RULES" =>
                  /\ reasons \cap {"KEYWORD_MATCH", "SEMANTIC_MATCH"} = {}
                  /\ DOMAIN searchSourceFinderRecords(c.input, Records) \ c.said.doubtful
                        \subseteq DOMAIN found
            /\ answer.mode # "HYBRID" => "KEYWORD_MATCH" \notin reasons
            /\ c.input.sortBy = "RELEVANCE" =>
                  \A n, m \in DOMAIN answer.results :
                      n < m => found[answer.results[n]].score >= found[answer.results[m]].score

(* The index holds all of the catalogue or nothing, however rebuilds overlap   *)
(* or die; after one that nothing disturbed, just what it says.                *)
IndexIsWhole ==
    /\ Indexed \in {{}, Records}
    /\ answer.kind = "rebuilt" /\ overlaps = 0 /\ crashes = 0 =>
          answer.indexed = Indexed /\ answer.embedded = Embedded

(* A report counts every source in its scope once by country, industry and     *)
(* role, with its links, and every link once by the relationship it stands for. *)
ReportAddsUp ==
    answer.kind = "hierarchy" =>
        LET Total(buckets, f) == MapThenSumSet(LAMBDA b : buckets[b][f], DOMAIN buckets)
            links == MapThenSumSet(AllLinks, answer.scoped)
        IN  /\ \A buckets \in {answer.byCountry, answer.byIndustry, answer.byRole} :
                  /\ Total(buckets, "sources") = Cardinality(answer.scoped)
                  /\ Total(buckets, "relationshipLinks") = links
            /\ Total(answer.byRelationship, "relationshipLinks") = links
            /\ \A k \in DOMAIN answer.byRelationship :
                  answer.byRelationship[k].sources <= Cardinality(answer.scoped)

(* The answers, the index and the reports of the source finder.                *)
SearchesHold == AnswersHold /\ IndexIsWhole /\ ReportAddsUp
=============================================================================
