-------------------------------- MODULE MCAdverts --------------------------------
(* Small instances of the adverts of a tenant: a behaviour is about their          *)
(* lifecycle, the drafts they come from, how they are found, or their texts        *)
(* (focus).                                                                        *)
(* The lifecycle has a period of three days with alerts on the last two (days 35   *)
(* and 39 of 40 in the program), publications dated long ago, today and tomorrow,  *)
(* and tenants' own sweeps dated yesterday and two days ahead; discovery has the   *)
(* program's own period.                                                           *)
EXTENDS AdvertLifecycle, AdvertDrafts, DiscoveryText, TLC

CONSTANTS Listings, Limit, Runs, MaxDays, MaxChanges,
          MaxTrouble  \* bound on the overlaps and deaths of operations on adverts and drafts together

VARIABLES focus,
          post, entry, saved, found, matches, run, change, changes

Alerts == {1, 2}
Around == {-3, -2, 0, 1}
RenewAround == {-3, 0, 1}
SweepAround == {-1, 2}
AllOps == {"publish", "pause", "archive", "boost", "addMedia", "renew"}

(* Words: known ones, others, misspelt ones. *)
MCLetters ==
    [ buyer |-> <<"b","u","y","e","r">>, carton |-> <<"c","a","r","t","o","n">>,
      client |-> <<"c","l","i","e","n","t">>, consumer |-> <<"c","o","n","s","u","m","e","r">>,
      delivery |-> <<"d","e","l","i","v","e","r","y">>,
      distributor |-> <<"d","i","s","t","r","i","b","u","t","o","r">>,
      finance |-> <<"f","i","n","a","n","c","e">>, fresh |-> <<"f","r","e","s","h">>,
      hotel |-> <<"h","o","t","e","l">>, logistics |-> <<"l","o","g","i","s","t","i","c","s">>,
      manufacturer |-> <<"m","a","n","u","f","a","c","t","u","r","e","r">>,
      packaging |-> <<"p","a","c","k","a","g","i","n","g">>,
      produce |-> <<"p","r","o","d","u","c","e">>, producer |-> <<"p","r","o","d","u","c","e","r">>,
      restaurant |-> <<"r","e","s","t","a","u","r","a","n","t">>,
      retailer |-> <<"r","e","t","a","i","l","e","r">>, source |-> <<"s","o","u","r","c","e">>,
      supplier |-> <<"s","u","p","p","l","i","e","r">>,
      transport |-> <<"t","r","a","n","s","p","o","r","t">>,
      vegetable |-> <<"v","e","g","e","t","a","b","l","e">>,
      wholesaler |-> <<"w","h","o","l","e","s","a","l","e","r">>,
      \* words that are not known ones, and misspelt ones
      customer |-> <<"c","u","s","t","o","m","e","r">>, shop |-> <<"s","h","o","p">>,
      maker |-> <<"m","a","k","e","r">>, logistic |-> <<"l","o","g","i","s","t","i","c">>,
      hotels |-> <<"h","o","t","e","l","s">>, soucre |-> <<"s","o","u","c","r","e">>,
      producrs |-> <<"p","r","o","d","u","c","r","s">>, producr |-> <<"p","r","o","d","u","c","r">>,
      hotles |-> <<"h","o","t","l","e","s">>, fish |-> <<"f","i","s","h">>, buy |-> <<"b","u","y">> ]
MCStems == [ buyers |-> "buyer", clients |-> "client", consumers |-> "consumer", customers |-> "customer",
             suppliers |-> "supplier", sources |-> "source", producers |-> "producer", makers |-> "maker",
             logistics |-> "logistic", retailers |-> "retailer", shops |-> "shop",
             wholesalers |-> "wholesaler", hotels |-> "hotel", greens |-> "green", producrs |-> "producr",
             supplies |-> "supply", buys |-> "buy", serves |-> "serve", distributes |-> "distribute",
             finances |-> "finance", certifies |-> "certify" ]
MCRoleNames == [ PRODUCER |-> <<"producer">>, SUPPLIER |-> <<"supplier">>, DISTRIBUTOR |-> <<"distributor">>,
                 BUYER |-> <<"buyer">>, RETAILER |-> <<"retailer">>, WHOLESALER |-> <<"wholesaler">>,
                 LOGISTICS_PROVIDER |-> <<"logistics", "provider">> ]
Produce == [title |-> <<"fresh", "produce">>, displayName |-> <<"producer">>, description |-> <<"hotels">>,
            industry |-> <<"agriculture">>, country |-> <<"KE">>, role |-> "PRODUCER"]
Boxes == [title |-> <<"carton">>, displayName |-> <<"packaging">>, description |-> <<"fresh">>,
            industry |-> <<"packaging">>, country |-> <<"UG">>, role |-> "SUPPLIER"]
MCTexts == [l1 |-> Produce, l2 |-> Produce, l3 |-> Boxes]
MCMedia == [l1 |-> 0, l2 |-> 6, l3 |-> 1]
MCSearches == [ typo |-> [query |-> <<"hotles", "soucre">>, country |-> "KE"] ]
MCCountry == [a \in DOMAIN Texts |-> Texts[a].country[1]]
MCOffsets == {-39, 1}
(* What TextScore works out, which TextsHold checks: evaluated once. *)
Scored(n) == [score |-> n, reason |-> TRUE]
Typo == Searches.typo.query
TextTable ==
    [a \in DOMAIN Texts |-> (<<>> :> Scored(16)) @@ (Typo :> Scored(IF a = "l3" THEN 15 ELSE 82))]

E == INSTANCE AdvertDiscovery WITH
        LiveDays <- 40, AlertDays <- {35, 39}, Offsets <- MCOffsets, PublicMedia <- MCMedia,
        Country <- MCCountry, TextScore <- TextTable

lifecycleVars == <<advert, index, media, alerts, swept, sweep, call,
                   entered, renewed, missed>>
draftVars == <<draft, posts, files, request>>
discoveryVars == <<post, entry, saved, found, matches, run, change, changes>>
allVars == <<focus, lifecycleVars, draftVars, discoveryVars, today, overlaps, crashes>>

AdvertsInit ==
    /\ focus \in {"lifecycle", "drafts", "discovery", "texts"}
    /\ Init /\ DraftsInit /\ E!Init
    /\ focus # "discovery" => post = [a \in Listings |-> E!NoRow]

(* Of the operations on adverts and the requests about drafts, some overlap or some die. *)
LittleTrouble == overlaps + crashes <= MaxTrouble

AdvertsNext ==
    /\ UNCHANGED focus
    /\ \/ focus = "lifecycle" /\ Next /\ LittleTrouble' /\ UNCHANGED <<draftVars, discoveryVars>>
       \/ focus = "drafts" /\ DraftsNext /\ LittleTrouble' /\ UNCHANGED <<lifecycleVars, discoveryVars, today>>
       \/ focus = "discovery" /\ E!Next /\ UNCHANGED <<lifecycleVars, draftVars>>

Ours(A) == focus = "lifecycle" /\ A
AdvertsSpec ==
    /\ AdvertsInit /\ [][AdvertsNext]_allVars
    /\ \A c \in Calls : WF_vars(Ours(CallStep(c)))
    /\ \A s \in Sweeps : WF_vars(Ours(SweepStep(s))) /\ SF_vars(Ours(List(s)))

(* Words are corrected to the nearest known one, roles are inferred, and the adverts   *)
(* score as in the table: checked in the one state of the focus "texts".               *)
TextsHold ==
    focus = "texts" =>
        /\ CorrectionIsNearest({w \in DOMAIN Letters : Len(Letters[w]) <= 7})
        /\ RolesAreInferred
        /\ TextScore = TextTable

(* What is found is live, boosted ones first, alerted of once, and in step with the   *)
(* index, which a rebuild repairs.                                                    *)
DiscoveryHolds == []TextsHold /\ E!DiscoveryHolds
==================================================================================
