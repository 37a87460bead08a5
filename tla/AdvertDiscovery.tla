--------------------------- MODULE AdvertDiscovery ---------------------------
(***************************************************************************)
(* Searching adverts: the discovery index that tenants' operations keep,   *)
(* its rebuild, the public search over it, and the alerts of saved         *)
(* searches.  A search reads the index and then each advert it lists; a    *)
(* run of alerts searches for one saved search after the other, and looks  *)
(* for an alert before it makes one; a rebuild goes through a list of      *)
(* adverts that tenants go on changing.                                    *)
(***************************************************************************)
EXTENDS AdvertPeriod, Sequences, FiniteSets, SequencesExt, FiniteSetsExt

CONSTANTS
    Listings,      \* the adverts
    Country,       \* the country of each
    TextScore,     \* what their texts count for a query (DiscoveryText)
    PublicMedia,   \* how many of their files are public
    Searches,      \* the searches a tenant may save: query and country, "any" for none
    Limit,         \* how many results a run takes
    Offsets,       \* how far from today a publication is dated
    Runs,          \* runs of alerts or rebuilds that may be in progress together
    MaxDays,       \* bound on the day counter
    MaxChanges,    \* bound on the tenants' operations
    MaxOverlaps,   \* bound on the operations that begin while another runs
    MaxCrashes     \* bound on the operations that die

VARIABLES
    post,      \* the PublishedAdvert rows
    entry,     \* the AdvertDiscoveryIndex rows
    saved,     \* the SavedAdvertSearch rows
    found,     \* the AdvertDiscoveryAlert rows
    matches,   \* the MATCH events recorded
    run,       \* per run: where it is, and its locals
    change,    \* the tenants' operation: the row it wrote and has yet to index
    changes,   \* operations of tenants so far
    today, overlaps, crashes

vars == <<post, entry, saved, found, matches, run, change, changes, today, overlaps, crashes>>

NoRow == [status |-> "NONE", published |-> 0, boostExpiresAt |-> 0, boostWeight |-> 0]
NoChange == [listing |-> "none", row |-> NoRow]
Idle == [pc |-> "idle", now |-> 0, todo |-> {}, search |-> "none", entries |-> <<>>,
         results |-> <<>>, snap |-> <<>>]

(* syncDiscoveryIndex: what the index holds for a row. *)
Entry(row) == IF row.status \in Gone THEN NoRow ELSE row
-----------------------------------------------------------------------------
(* searchPublicAdverts and rankPublicAdvert: what the texts count for a query, *)
(* then what the advert's row does.                                           *)

isBoostActive(row, now) == row.boostWeight > 0 /\ row.boostExpiresAt > now

(* Mutant: a boost is worth ten. *)
RowScoreMutant(a, row, now) ==
    (IF isBoostActive(row, now) THEN row.boostWeight * 10 ELSE 0)
    + daysRemaining(row.published, now) + (IF daysLive(row.published, now) <= 7 THEN 20 ELSE 0)
    + Min({20, 4 * PublicMedia[a]})

(* What boost, age and files count. *)
RowScore(a, row, now) ==
    (IF isBoostActive(row, now) THEN row.boostWeight * 100 ELSE 0)
    + daysRemaining(row.published, now) + (IF daysLive(row.published, now) <= 7 THEN 20 ELSE 0)
    + Min({20, 4 * PublicMedia[a]})

rankPublicAdvert(a, row, query, now) ==
    [listing |-> a, score |-> TextScore[a][query].score + RowScore(a, row, now),
     published |-> row.published, boosted |-> isBoostActive(row, now)]

isDiscoveryEntryDiscoverable(e, a, country, now) ==
    /\ \/ e.status \in {"LIVE", "RENEWAL_DUE"}
       \/ e.status = "SCHEDULED" /\ ~IsScheduled(e.published, now)
    /\ now < e.published + LiveDays
    /\ country \in {"any", Country[a]}

Candidates(entries, search, now) ==
    {a \in Listings : isDiscoveryEntryDiscoverable(entries[a], a, search.country, now)}

(* The best of the listed adverts that are still there, in order.          *)
Ranked(listed, rows, search, limit, now) ==
    LET Kept == {a \in listed : /\ rows[a].status \notin Gone \cup {"NONE"}
                                /\ search.query = <<>> \/ TextScore[a][search.query].reason}
        Before(x, y) == x.score > y.score \/ (x.score = y.score /\ x.published > y.published)
        sorted == SetToSortSeq({rankPublicAdvert(a, rows[a], search.query, now) : a \in Kept}, Before)
    IN  SubSeq(sorted, 1, Min({limit, Len(sorted)}))

(* A search that nothing comes between. *)
searchPublicAdverts(search, limit) ==
    Ranked(Candidates(entry, search, today), post, search, limit, today)

(* recordDiscoveryEvent: which adverts a view or a click may be recorded for. *)
Recordable(a) ==
    \/ post[a].status \in {"LIVE", "RENEWAL_DUE"}
    \/ post[a].status = "SCHEDULED" /\ ~IsScheduled(post[a].published, today)
-----------------------------------------------------------------------------
Published(now) ==
    {[NoRow EXCEPT !.status = FirstStatus(now + o, now), !.published = now + o] : o \in Offsets}

(* Some adverts are published already. *)
Init ==
    /\ post \in [Listings -> {NoRow} \cup Published(0)]
    /\ entry = [a \in Listings |-> Entry(post[a])]
    /\ saved = {}
    /\ found = {}
    /\ matches = [p \in (DOMAIN Searches) \X Listings |-> 0]
    /\ run = [r \in Runs |-> Idle]
    /\ change = NoChange
    /\ changes = 0
    /\ today = 0 /\ overlaps = 0 /\ crashes = 0

Quiet == change = NoChange /\ \A r \in Runs : run[r].pc = "idle"
Begin == /\ IF Quiet THEN UNCHANGED overlaps
            ELSE overlaps < MaxOverlaps /\ overlaps' = overlaps + 1
         /\ UNCHANGED crashes
At(r, pc) == run[r].pc = pc
Go(r, k) == run' = [run EXCEPT ![r] = k]

Tick ==
    /\ today < MaxDays
    /\ today' = today + 1
    /\ UNCHANGED <<post, entry, saved, found, matches, run, change, changes, overlaps, crashes>>

createSavedSearch ==
    /\ \E s \in DOMAIN Searches \ saved : saved' = saved \cup {s}
    /\ UNCHANGED <<post, entry, found, matches, run, change, changes, today, overlaps, crashes>>
-----------------------------------------------------------------------------
(* The tenants' operations write the advert and then its entry.            *)

(* publishDraft, pauseAdvert, boostAdvert, renewAdvert, archiveAdvert      *)
NewRows(row) ==
    IF row.status = "NONE"
    THEN Published(today)
    ELSE {[row EXCEPT !.status = "ARCHIVED"], [row EXCEPT !.status = "LIVE", !.published = today]}
         \cup (IF row.status = "PAUSED" THEN {}
               ELSE {[row EXCEPT !.status = "PAUSED"],
                     [row EXCEPT !.boostExpiresAt = today + 1, !.boostWeight = 1]})

WriteRow ==
    /\ change = NoChange /\ changes < MaxChanges
    /\ Begin
    /\ \E a \in Listings :
          /\ post[a].status \notin Gone
          /\ \E row \in NewRows(post[a]) :
                post' = [post EXCEPT ![a] = row] /\ change' = [listing |-> a, row |-> row]
    /\ changes' = changes + 1
    /\ UNCHANGED <<entry, saved, found, matches, run, today>>

syncDiscoveryIndex ==
    /\ change # NoChange
    /\ entry' = [entry EXCEPT ![change.listing] = Entry(change.row)]
    /\ change' = NoChange
    /\ UNCHANGED <<post, saved, found, matches, run, changes, today, overlaps, crashes>>
-----------------------------------------------------------------------------
(* rebuildDiscoveryIndex *)

listPublishedAdverts(r) ==
    /\ At(r, "idle")
    /\ Begin
    /\ Go(r, [Idle EXCEPT !.pc = "rebuild", !.snap = post,
                          !.todo = {a \in Listings : post[a].status # "NONE"}])
    /\ UNCHANGED <<post, entry, saved, found, matches, change, changes, today>>

(* Mutant: what is gone stays in the index. *)
RebuildMutant(r) ==
    /\ At(r, "rebuild")
    /\ IF run[r].todo = {} THEN Go(r, Idle) /\ UNCHANGED entry
       ELSE \E a \in run[r].todo :
               /\ entry' = [entry EXCEPT ![a] = IF run[r].snap[a].status \in Gone THEN @ ELSE run[r].snap[a]]
               /\ Go(r, [run[r] EXCEPT !.todo = @ \ {a}])
    /\ UNCHANGED <<post, saved, found, matches, change, changes, today, overlaps, crashes>>

Rebuild(r) ==
    /\ At(r, "rebuild")
    /\ IF run[r].todo = {} THEN Go(r, Idle) /\ UNCHANGED entry
       ELSE \E a \in run[r].todo :
               /\ entry' = [entry EXCEPT ![a] = Entry(run[r].snap[a])]
               /\ Go(r, [run[r] EXCEPT !.todo = @ \ {a}])
    /\ UNCHANGED <<post, saved, found, matches, change, changes, today, overlaps, crashes>>
-----------------------------------------------------------------------------
(* runSavedSearchAlerts *)

listSavedSearches(r) ==
    /\ At(r, "idle")
    /\ saved # {}
    /\ Begin
    /\ Go(r, [Idle EXCEPT !.pc = "next", !.now = today, !.todo = saved])
    /\ UNCHANGED <<post, entry, saved, found, matches, change, changes, today>>

listDiscoveryIndex(r) ==
    /\ At(r, "next")
    /\ IF run[r].todo = {} THEN Go(r, Idle)
       ELSE \E s \in run[r].todo :
               Go(r, [run[r] EXCEPT !.pc = "rank", !.todo = @ \ {s}, !.search = s,
                         !.entries = Candidates(entry, Searches[s], run[r].now)])
    /\ UNCHANGED <<post, entry, saved, found, matches, change, changes, today, overlaps, crashes>>

Rank(r) ==
    /\ At(r, "rank")
    /\ Go(r, [run[r] EXCEPT !.pc = "find", !.entries = <<>>,
                 !.results = LET best == Ranked(run[r].entries, post, Searches[run[r].search], Limit, run[r].now)
                             IN  [i \in DOMAIN best |-> best[i].listing]])
    /\ UNCHANGED <<post, entry, saved, found, matches, change, changes, today, overlaps, crashes>>

(* findDiscoveryAlert *)
findDiscoveryAlert(r) ==
    /\ At(r, "find")
    /\ Go(r, IF run[r].results = <<>> THEN [run[r] EXCEPT !.pc = "next"]
             ELSE IF <<run[r].search, Head(run[r].results)>> \in found
             THEN [run[r] EXCEPT !.results = Tail(@)]
             ELSE [run[r] EXCEPT !.pc = "create"])
    /\ UNCHANGED <<post, entry, saved, found, matches, change, changes, today, overlaps, crashes>>

(* createDiscoveryAlert: a search has one alert per advert; a second one   *)
(* throws, and the run with it.                                            *)
createDiscoveryAlert(r) ==
    /\ At(r, "create")
    /\ LET p == <<run[r].search, Head(run[r].results)>> IN
          IF p \in found THEN Go(r, Idle) /\ UNCHANGED found
          ELSE found' = found \cup {p} /\ Go(r, [run[r] EXCEPT !.pc = "match"])
    /\ UNCHANGED <<post, entry, saved, matches, change, changes, today, overlaps, crashes>>

recordDiscoveryAnalytics(r) ==
    /\ At(r, "match")
    /\ matches' = [matches EXCEPT ![<<run[r].search, Head(run[r].results)>>] = @ + 1]
    /\ Go(r, [run[r] EXCEPT !.pc = "find", !.results = Tail(@)])
    /\ UNCHANGED <<post, entry, saved, found, change, changes, today, overlaps, crashes>>
-----------------------------------------------------------------------------
Crash ==
    /\ ~Quiet /\ crashes < MaxCrashes
    /\ crashes' = crashes + 1
    /\ \/ change # NoChange /\ change' = NoChange /\ UNCHANGED run
       \/ \E r \in Runs : ~At(r, "idle") /\ Go(r, Idle) /\ UNCHANGED change
    /\ UNCHANGED <<post, entry, saved, found, matches, changes, today, overlaps>>

Next ==
    \/ Tick \/ createSavedSearch \/ WriteRow \/ syncDiscoveryIndex \/ Crash
    \/ \E r \in Runs :
          \/ listPublishedAdverts(r) \/ Rebuild(r)
          \/ listSavedSearches(r) \/ listDiscoveryIndex(r) \/ Rank(r)
          \/ findDiscoveryAlert(r) \/ createDiscoveryAlert(r) \/ recordDiscoveryAnalytics(r)

Spec == Init /\ [][Next]_vars
-----------------------------------------------------------------------------
(* Properties. *)

IndexAgrees == \A a \in Listings : entry[a] = Entry(post[a])

(* While the index agrees with the adverts, a search shows none that is    *)
(* paused, not yet published, expired or gone, each of those it shows can  *)
(* be counted as viewed, and the results are in order.                     *)
SearchShowsTheLive ==
    IndexAgrees => \A s \in DOMAIN Searches :
        LET shown == searchPublicAdverts(Searches[s], Limit) IN
        /\ \A i \in DOMAIN shown :
              LET row == post[shown[i].listing] IN
              /\ row.status # "PAUSED" /\ Recordable(shown[i].listing)
              /\ today \in row.published..(row.published + LiveDays - 1)
        /\ \A i, j \in DOMAIN shown : i < j => shown[i].score >= shown[j].score

(* A boosted advert comes before any that is not boosted and is found by   *)
(* the same texts, however fresh that one is and however many files it has. *)
BoostComesFirst ==
    \A s \in DOMAIN Searches :
        LET shown == searchPublicAdverts(Searches[s], Cardinality(Listings)) IN
        \A i, j \in DOMAIN shown :
            shown[i].boosted /\ ~shown[j].boosted
            /\ TextScore[shown[i].listing] = TextScore[shown[j].listing] => i < j

(* Nobody is alerted twice of an advert, each match counted has an alert,  *)
(* and a match is counted for each unless a run died.                      *)
AlertedOnce ==
    \A p \in DOMAIN matches :
        /\ matches[p] <= 1
        /\ matches[p] = 1 => p \in found
        /\ p \in found /\ crashes = 0 /\ Quiet => matches[p] = 1

(* Of operations that come one at a time none leaves the index behind the  *)
(* adverts, but for one that dies; and a rebuild makes that good.          *)
IndexKept == overlaps = 0 /\ crashes = 0 /\ Quiet => IndexAgrees
RebuildRepairs ==
    [][overlaps = 0 => \A r \in Runs : At(r, "rebuild") /\ run'[r].pc = "idle" /\ crashes' = crashes
                           => IndexAgrees]_vars

DiscoveryHolds == /\ [](SearchShowsTheLive /\ BoostComesFirst /\ AlertedOnce /\ IndexKept)
                  /\ RebuildRepairs
=============================================================================
