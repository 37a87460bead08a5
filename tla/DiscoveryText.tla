---------------------------- MODULE DiscoveryText ----------------------------
(***************************************************************************)
(* How discovery compares a query with a listing (domain discovery.ts):    *)
(* query words are corrected to the nearest known word, expanded by their  *)
(* synonyms and compared, as weighted vectors, with the listing's texts    *)
(* and with the roles the listing's role deals with.                       *)
(*                                                                         *)
(* A text is a sequence of lower-case words.  A word is an atom; Letters   *)
(* spells those that are compared by letter, Stems gives the stem of those *)
(* that stemToken shortens.  Weights are in hundredths.  The prose that    *)
(* explains a relationship is left out.                                    *)
(***************************************************************************)
EXTENDS Integers, Sequences, FiniteSets, SequencesExt, FiniteSetsExt, Functions

CONSTANTS
    Letters,   \* word -> its letters
    Stems,     \* word -> stem, of the words that end in a plural s
    RoleNames, \* role -> the words of its name
    Texts,     \* the adverts' texts, country, industry and role
    Searches   \* the searches a tenant may save: query and country, "any" for none

stopWords == {"a", "an", "and", "are", "as", "at", "by", "for", "from", "in", "near",
              "of", "on", "or", "the", "to", "with"}

discoverySynonymDictionary ==
    [ buyer |-> {"client", "customer", "consumer", "purchaser", "procurement"},
      buy |-> {"source", "purchase", "procure"},
      carton |-> {"box", "packaging"},
      client |-> {"buyer", "customer", "consumer"},
      cold |-> {"refrigerated", "chilled"},
      consumer |-> {"customer", "client"},
      delivery |-> {"transport", "logistics", "shipping", "distribution"},
      distributor |-> {"distribution", "wholesaler"},
      finance |-> {"financier", "loan", "credit", "funding"},
      fresh |-> {"produce", "perishable"},
      hotel |-> {"hospitality", "restaurant", "catering"},
      manufacturer |-> {"producer", "maker", "factory"},
      packaging |-> {"carton", "box", "label"},
      produce |-> {"vegetable", "fruit", "farm"},
      retailer |-> {"shop", "store"},
      source |-> {"supplier", "seller", "provider"},
      supplier |-> {"source", "seller", "provider", "vendor"},
      transport |-> {"logistics", "delivery", "shipping"},
      vegetable |-> {"produce", "greens", "farm"},
      wholesaler |-> {"distributor", "bulk"} ]

(* In the order localeCompare puts them, which breaks ties. *)
canonicalCorrections ==
    << "buyer", "carton", "client", "consumer", "delivery", "distributor", "finance", "fresh",
       "hotel", "logistics", "manufacturer", "packaging", "produce", "producer", "restaurant",
       "retailer", "source", "supplier", "transport", "vegetable", "wholesaler" >>

commonDiscoveryTypoCorrections ==
    [ hotles |-> "hotel", vegtable |-> "vegetable", vegtables |-> "vegetable" ]

relationshipSignal(role, relationship, weight) ==
    [role |-> role, relationship |-> relationship, weight |-> weight]

roleRelationshipSignals ==
    LET s(role, relationship, weight) == relationshipSignal(role, relationship, weight) IN
    [ PRODUCER |-> {s("SUPPLIER", "SUPPLIES", 90), s("DISTRIBUTOR", "DISTRIBUTES", 78),
                    s("BUYER", "BUYS_FROM", 86), s("LOGISTICS_PROVIDER", "SERVES", 72)},
      SUPPLIER |-> {s("BUYER", "BUYS_FROM", 94), s("RETAILER", "SUPPLIES", 82),
                    s("WHOLESALER", "SUPPLIES", 78), s("LOGISTICS_PROVIDER", "SERVES", 70)},
      DISTRIBUTOR |-> {s("SUPPLIER", "DISTRIBUTES", 84), s("RETAILER", "SUPPLIES", 80),
                       s("BUYER", "SUPPLIES", 74)},
      WHOLESALER |-> {s("SUPPLIER", "BUYS_FROM", 78), s("RETAILER", "SUPPLIES", 90),
                      s("BUYER", "SUPPLIES", 76)},
      RETAILER |-> {s("WHOLESALER", "BUYS_FROM", 82), s("CONSUMER", "SUPPLIES", 90),
                    s("BUYER", "SUPPLIES", 70)},
      SERVICE_PROVIDER |-> {s("BUYER", "SERVES", 86), s("CONSUMER", "SERVES", 74),
                            s("AGENT", "SERVES", 62)},
      BUYER |-> {s("SUPPLIER", "BUYS_FROM", 94), s("PRODUCER", "BUYS_FROM", 84),
                 s("DISTRIBUTOR", "BUYS_FROM", 78)},
      CONSUMER |-> {s("RETAILER", "BUYS_FROM", 86), s("SERVICE_PROVIDER", "SERVES", 74)},
      AGENT |-> {s("SUPPLIER", "SERVES", 70), s("BUYER", "SERVES", 70)},
      INSTALLER |-> {s("SUPPLIER", "BUYS_FROM", 74), s("CONSUMER", "SERVES", 70)},
      MAINTAINER |-> {s("SUPPLIER", "BUYS_FROM", 70), s("CONSUMER", "SERVES", 72)},
      LOGISTICS_PROVIDER |-> {s("SUPPLIER", "SERVES", 78), s("PRODUCER", "SERVES", 74),
                              s("BUYER", "SERVES", 66)},
      FINANCIER |-> {s("SUPPLIER", "FINANCES", 68), s("PRODUCER", "FINANCES", 68),
                     s("BUYER", "FINANCES", 58)},
      CERTIFIER |-> {s("SUPPLIER", "CERTIFIES", 72), s("PRODUCER", "CERTIFIES", 72),
                     s("DISTRIBUTOR", "CERTIFIES", 58)} ]
-----------------------------------------------------------------------------
(* Words. *)

stemToken(word) == IF word \in DOMAIN Stems THEN Stems[word] ELSE word

(* tokenizeRawDiscoveryText and tokenizeDiscoveryText *)
tokenizeRaw(text) == SelectSeq(text, LAMBDA w : w \notin stopWords)
tokenize(text) == [i \in DOMAIN tokenizeRaw(text) |-> stemToken(tokenizeRaw(text)[i])]

(* levenshteinDistance, a row of the table at a time.                      *)
Positions(word) == [i \in DOMAIN word |-> i]
NextRow(previous, letter, right) ==
    FoldLeft(LAMBDA row, j : Append(row, Min({row[j] + 1, previous[j + 1] + 1,
                                              previous[j] + (IF letter = right[j] THEN 0 ELSE 1)})),
             <<previous[1] + 1>>, Positions(right))
levenshteinDistance(left, right) ==
    FoldLeft(LAMBDA row, letter : NextRow(row, letter, right), <<0>> \o Positions(right), left)[Len(right) + 1]

Distance(word, candidate) == levenshteinDistance(Letters[word], Letters[candidate])

(* The known word that is nearest, within two edits, or the stem.          *)
correctDiscoveryToken(word) ==
    LET stem == stemToken(word)
        Of(d) == {i \in DOMAIN canonicalCorrections : Distance(stem, canonicalCorrections[i]) = d}
        Nearest == IF Of(1) # {} THEN Of(1) ELSE Of(2)
    IN  IF word \in DOMAIN commonDiscoveryTypoCorrections
        THEN commonDiscoveryTypoCorrections[word]
        ELSE IF stem \in ToSet(canonicalCorrections) \/ Nearest = {} THEN stem
        ELSE canonicalCorrections[Min(Nearest)]

Synonyms(word) ==
    IF word \in DOMAIN discoverySynonymDictionary THEN discoverySynonymDictionary[word] ELSE {}

(* expandDiscoveryQuery: the terms are a set, each stemmed on its own.     *)
expandDiscoveryQuery(query) ==
    LET Expand(w) == {w, correctDiscoveryToken(w)} \cup Synonyms(correctDiscoveryToken(w))
    IN  {stemToken(t) : t \in UNION {Expand(w) : w \in ToSet(tokenizeRaw(query))}}

(* inferDesiredDiscoveryRoles *)
RoleWords ==
    [ BUYER |-> {"buyer", "buyers", "client", "clients"},
      CONSUMER |-> {"consumer", "consumers", "customer", "customers"},
      SUPPLIER |-> {"supplier", "suppliers", "source", "sources"},
      PRODUCER |-> {"producer", "producers", "manufacturer", "makers"},
      LOGISTICS_PROVIDER |-> {"logistics", "transport", "delivery"},
      RETAILER |-> {"retailer", "retailers", "shop", "shops"},
      WHOLESALER |-> {"wholesaler", "wholesalers"} ]
inferDesiredDiscoveryRoles(query) ==
    {role \in DOMAIN RoleWords : RoleWords[role] \cap expandDiscoveryQuery(query) # {}}

inferDiscoveryRelationshipSignals(role) == roleRelationshipSignals[role]
-----------------------------------------------------------------------------
(* Vectors: a function from tokens to weights. *)

(* addWeightedTokens, of all the parts of a listing: pairs of text, weight. *)
addWeightedTokens(parts) ==
    LET Count(text, t) == Cardinality({i \in DOMAIN tokenize(text) : tokenize(text)[i] = t})
    IN  [t \in UNION {ToSet(tokenize(p[1])) : p \in parts} |->
            MapThenSumSet(LAMBDA p : p[2] * Count(p[1], t), parts)]

RelationshipWords ==
    [ SUPPLIES |-> <<"supplies">>, BUYS_FROM |-> <<"buys", "from">>, SERVES |-> <<"serves">>,
      DISTRIBUTES |-> <<"distributes">>, FINANCES |-> <<"finances">>, CERTIFIES |-> <<"certifies">> ]

(* normalizeVector scales a vector, which changes no angle.                *)
buildDiscoveryVector(listing) ==
    LET signals == inferDiscoveryRelationshipSignals(listing.role) IN
    addWeightedTokens(
        { <<listing.title, 400, <<"title">>>>, <<listing.displayName, 300, <<"name">>>>,
          <<listing.description, 150, <<"description">>>>, <<listing.industry, 200, <<"industry">>>>,
          <<listing.country, 125, <<"country">>>>, <<RoleNames[listing.role], 200, <<"role">>>> }
        \cup {<<RoleNames[s.role], 125 + s.weight, <<"role", s.role>>>> : s \in signals}
        \cup {<<RelationshipWords[s.relationship], s.weight, <<"relationship", s.role>>>> : s \in signals})

Squares(vector) == MapThenSumSet(LAMBDA t : vector[t] * vector[t], DOMAIN vector)

IntegerRoot(n) == CHOOSE r \in 0..46339 : r * r <= n /\ (r + 1) * (r + 1) > n

(* scoreDiscoveryVector: the cosine of the angle, in per cent; each term   *)
(* of the query has the weight one.                                        *)
scoreDiscoveryVector(query, vector) ==
    LET terms == expandDiscoveryQuery(query)
        matched == terms \cap DOMAIN vector
        dot == MapThenSumSet(LAMBDA t : vector[t], matched)
        magnitudes == IntegerRoot(Cardinality(terms) * Squares(vector))
    IN  IF matched = {} THEN 0 ELSE (100 * dot + magnitudes \div 2) \div magnitudes
-----------------------------------------------------------------------------
(* What the texts of an advert count when it is ranked for a query         *)
(* (rankPublicAdvert), and whether they are a reason to list it at all.    *)

(* Part of the word is enough for a term to match. *)
Includes(text, term) ==
    \E i \in DOMAIN text :
        LET word == Letters[text[i]] t == Letters[term] IN
        \E k \in 0..(Len(word) - Len(t)) : SubSeq(word, k + 1, k + Len(t)) = t

searchText(a) == Texts[a].title \o Texts[a].displayName \o Texts[a].description

TermScore(a, term) ==
    CASE Includes(Texts[a].title, term) -> 50
      [] Includes(Texts[a].displayName, term) -> 35
      [] Includes(searchText(a), term) -> 20
      [] OTHER -> 0

Rounded(hundredths) == (hundredths + 50) \div 100

SignalsFor(a, query) ==
    {s \in inferDiscoveryRelationshipSignals(Texts[a].role) : s.role \in inferDesiredDiscoveryRoles(query)}

(* What the texts count, and whether they are a reason to be listed: any   *)
(* listing has one when the query names no role.                           *)
TextScoreOf(a, query) ==
    LET terms == ToSet(query)
        words == MapThenSumSet(LAMBDA t : TermScore(a, t), terms)
        vector == IF query = <<>> THEN 0 ELSE scoreDiscoveryVector(query, buildDiscoveryVector(Texts[a]))
        Sum(S) == MapThenSumSet(LAMBDA s : s.weight, S)
        all == inferDiscoveryRelationshipSignals(Texts[a].role)
        related == IF SignalsFor(a, query) # {} THEN Rounded(Sum(SignalsFor(a, query)) * 70)
                   ELSE IF inferDesiredDiscoveryRoles(query) = {} THEN Min({18, Rounded(Sum(all) * 5)})
                   ELSE 0
    IN  [score |-> words + vector + related, reason |-> words + vector + related > 0]

Queries == {Searches[s].query : s \in DOMAIN Searches} \cup {<<>>}
TextScore == [a \in DOMAIN Texts |-> [q \in Queries |-> TextScoreOf(a, q)]]

-----------------------------------------------------------------------------
(* Properties. *)

(* All the words made of another by one edit. *)
Edited(word) ==
    LET n == Len(word) Alphabet == UNION {ToSet(Letters[w]) : w \in DOMAIN Letters} IN
    {SubSeq(word, 1, i - 1) \o SubSeq(word, i + 1, n) : i \in 1..n}
    \cup {[word EXCEPT ![i] = c] : i \in 1..n, c \in Alphabet}
    \cup {SubSeq(word, 1, i) \o <<c>> \o SubSeq(word, i + 1, n) : i \in 0..n, c \in Alphabet}

(* A misspelt word is taken for a known one that is as near as any, and    *)
(* edits are what people do to a word: drop, change or add a letter.       *)
CorrectionIsNearest(words) ==
    \A w \in words \ DOMAIN commonDiscoveryTypoCorrections :
        LET stem == stemToken(w) known == ToSet(canonicalCorrections) to == correctDiscoveryToken(w) IN
        /\ to # stem => to \in known /\ Distance(stem, to) <= 2
        /\ \A k \in known : (Letters[k] \in Edited(Letters[stem]) /\ stem \notin known)
                                => Letters[to] \in Edited(Letters[stem])

(* A query that names a role, in the singular or the plural, looks for it; *)
(* but "logistics" and "makers" are stemmed before they are looked up.     *)
RolesAreInferred ==
    \A role \in DOMAIN RoleWords : \A w \in RoleWords[role] \ {"logistics", "makers"} :
        role \in inferDesiredDiscoveryRoles(<<w>>)
=============================================================================
