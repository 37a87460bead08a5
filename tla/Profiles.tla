-------------------------------- MODULE Profiles --------------------------------
(* The profile drafts of one tenant, their review, their media and the         *)
(* versions published from them (apps/api/src/modules/profiles).  Every        *)
(* operation reads, awaits and then writes: a draft is written back whole, a   *)
(* publication is one transaction.  What a draft says is reduced to what the   *)
(* review looks at: industry, role and country.                                *)
EXTENDS Integers, Sequences, FiniteSets

CONSTANTS
    Drafts, Calls,     \* drafts, requests in progress
    Contents,          \* what a draft may say: [industry, role, country]
    highRiskProfileIndustryCodes, highReviewRoles,
    MaxMedia,          \* mediaPolicy.maxItemsPerOwner
    MaxVersions,       \* bound on publications
    MaxTrouble         \* bound on overlaps and crashes together

ASSUME ReviewAssumption == /\ highRiskProfileIndustryCodes \subseteq {x.industry : x \in Contents}
                           /\ highReviewRoles \subseteq {x.role : x \in Contents}
ASSUME MediaAssumption == MaxMedia \in Nat

VARIABLES
    draft,    \* the ProfileDraft rows
    media,    \* how many MediaAsset rows a draft has
    profiles, \* the PublishedProfile rows, in the order in which they were made
    call,
    vetted,   \* history: the contents of a draft that a review approved last
    lifted,   \* history: drafts whose rejection an upload of media took away
    overlaps, \* operations begun so far while another was in progress
    crashes   \* operations that died so far

vars == <<draft, media, profiles, call, vetted, lifted, overlaps, crashes>>
history == <<vetted, lifted>>
counters == <<overlaps, crashes>>

NoContents == [industry |-> "none", role |-> "none", country |-> "none"]
NoDraft == [status |-> "NONE"]    \* an id that is not given yet
GoneDraft == [status |-> "GONE"]  \* an id whose draft was erased: none is given twice
Exists(d) == draft[d].status \notin {"NONE", "GONE"}
IdleCall == [pc |-> "idle"]

DraftRow(status, contents, decision) ==
    [status |-> status, contents |-> contents, decision |-> decision]

(* reviewReasons is not empty. *)
NeedsReview(old, new) ==
    \/ old.industry # new.industry /\ new.industry \in highRiskProfileIndustryCodes
    \/ old.role # new.role /\ new.role \in highReviewRoles
    \/ old.country # new.country

(* findLiveProfile: the one with the highest version; none is <<>>. *)
LiveRows == {i \in DOMAIN profiles : profiles[i].status = "LIVE"}
findLiveProfile ==
    IF LiveRows = {} THEN <<>>
    ELSE <<CHOOSE i \in LiveRows : \A j \in LiveRows : profiles[j].version <= profiles[i].version>>

nextVersion ==
    1 + (IF profiles = <<>> THEN 0
         ELSE CHOOSE v \in {profiles[i].version : i \in DOMAIN profiles} :
                  \A i \in DOMAIN profiles : profiles[i].version <= v)

(* Mutant: a change is compared with the draft as it is. *)
reviewBaselineMutant(d) == draft[d].contents

(* What the contents of a change are compared with. *)
reviewBaseline(d) ==
    LET live == findLiveProfile IN
    IF /\ ~(draft[d].status = "DRAFT" /\ draft[d].decision = "APPROVED")
       /\ live # <<>> /\ profiles[live[1]].draft = d
    THEN profiles[live[1]].contents
    ELSE draft[d].contents
-----------------------------------------------------------------------------
Init ==
    /\ draft = [d \in Drafts |-> NoDraft] /\ media = [d \in Drafts |-> 0]
    /\ profiles = <<>>
    /\ call = [c \in Calls |-> IdleCall]
    /\ vetted = [d \in Drafts |-> NoContents] /\ lifted = {}
    /\ overlaps = 0 /\ crashes = 0

Quiet == \A c \in Calls : call[c].pc = "idle"

Begin == /\ IF Quiet THEN UNCHANGED overlaps
            ELSE overlaps + crashes < MaxTrouble /\ overlaps' = overlaps + 1
         /\ UNCHANGED crashes

CallAt(c, pc) == call[c].pc = pc
Go(c, k) == call' = [call EXCEPT ![c] = k]
Enter(c, k) == /\ CallAt(c, "idle") /\ Begin /\ Go(c, k)
               /\ UNCHANGED <<draft, media, profiles, history>>

(* createDraft writes at once, after an erasure too: the sessions of the       *)
(* tenant's other members outlive it.                                          *)
createDraft(d) ==
    /\ draft[d] = NoDraft
    /\ \E contents \in Contents :
          draft' = [draft EXCEPT ![d] = DraftRow("DRAFT", contents, "none")]
    /\ UNCHANGED <<media, profiles, call, history, counters>>

updateDraft(c, d) ==
    /\ Exists(d)
    /\ \E contents \in Contents :
          Enter(c, [pc |-> "save", why |-> "update", draft |-> d,
                    row |-> DraftRow(IF NeedsReview(reviewBaseline(d), contents)
                                     THEN "PENDING_REVIEW" ELSE "DRAFT", contents, "none")])

(* reviewDraft and platformReviewDraft, by way of completeReview. *)
completeReview(c, d) ==
    /\ draft[d].status = "PENDING_REVIEW"
    /\ \E decision \in {"APPROVED", "REJECTED"} :
          Enter(c, [pc |-> "save", why |-> "review", draft |-> d,
                    row |-> DraftRow(IF decision = "APPROVED" THEN "DRAFT" ELSE "REJECTED",
                                     draft[d].contents, decision)])

mediaEditedDraft(row) ==
    IF row.status = "PENDING_REVIEW" THEN row ELSE DraftRow("DRAFT", row.contents, "none")

addDraftMedia(c, d) ==
    /\ Exists(d) /\ media[d] < MaxMedia
    /\ Enter(c, [pc |-> "media", draft |-> d, row |-> mediaEditedDraft(draft[d])])

(* The row of the media does not hang on the row of the draft. *)
createMediaAsset(c) ==
    /\ CallAt(c, "media")
    /\ media' = [media EXCEPT ![call[c].draft] = @ + 1]
    /\ Go(c, [pc |-> "save", why |-> "media", draft |-> call[c].draft, row |-> call[c].row])
    /\ UNCHANGED <<draft, profiles, history, counters>>

(* What the history notes of a draft that is written back. *)
Note(d, why, row) ==
    /\ vetted' = [vetted EXCEPT ![d] = IF row.decision = "APPROVED" THEN row.contents
                                       ELSE IF row.status = "DRAFT" THEN @ ELSE NoContents]
    /\ lifted' = IF why = "media" /\ draft[d].status = "REJECTED" THEN lifted \cup {d}
                 ELSE IF why = "update" THEN lifted \ {d} ELSE lifted

(* Mutant: a draft that is gone is written anew.                               *)
saveDraftMutant(c) ==
    /\ CallAt(c, "save")
    /\ draft' = [draft EXCEPT ![call[c].draft] = call[c].row]
    /\ Note(call[c].draft, call[c].why, call[c].row)
    /\ Go(c, IdleCall)
    /\ UNCHANGED <<media, profiles, counters>>

(* A draft that is gone is an error. *)
saveDraft(c) ==
    /\ CallAt(c, "save")
    /\ LET k == call[c] IN
       IF Exists(k.draft)
       THEN draft' = [draft EXCEPT ![k.draft] = k.row] /\ Note(k.draft, k.why, k.row)
       ELSE UNCHANGED <<draft, history>>
    /\ Go(c, IdleCall)
    /\ UNCHANGED <<media, profiles, counters>>

(* Publications in progress count as versions (bound). *)
Room == Len(profiles) + Cardinality({c \in Calls : CallAt(c, "publish")}) < MaxVersions

publishDraft(c, d) ==
    /\ draft[d].status \in {"DRAFT", "PUBLISHED"} /\ Room
    /\ Enter(c, [pc |-> "publish", draft |-> d, row |-> [draft[d] EXCEPT !.status = "PUBLISHED"],
                 old |-> findLiveProfile,
                 new |-> [draft |-> d, contents |-> draft[d].contents, status |-> "LIVE",
                          version |-> nextVersion]])

(* Mutant: the version before stays live. *)
ArchivedMutant(i) == profiles

(* The profiles with the one of the index archived. *)
Archived(i) == [profiles EXCEPT ![i].status = "ARCHIVED"]

(* One transaction; it rolls back when a row that it updates is gone.  Of the  *)
(* draft it writes status and decision, never the contents.                    *)
publishProfile(c) ==
    /\ CallAt(c, "publish")
    /\ LET k == call[c] IN
       IF Exists(k.draft) /\ (k.old = <<>> \/ k.old[1] \in DOMAIN profiles)
       THEN /\ profiles' = Append(IF k.old = <<>> THEN profiles ELSE Archived(k.old[1]), k.new)
            /\ draft' = [draft EXCEPT ![k.draft] =
                            [k.row EXCEPT !.contents = draft[k.draft].contents]]
            /\ vetted' = [vetted EXCEPT ![k.draft] = NoContents]
            /\ lifted' = lifted \ {k.draft}
       ELSE UNCHANGED <<profiles, draft, history>>
    /\ Go(c, IdleCall)
    /\ UNCHANGED <<media, counters>>

(* The sweep of account deletions erases in one transaction, and may do so     *)
(* again: a deletion that failed later on is tried once more, and every member *)
(* may ask for one.                                                            *)
eraseTenantHoldings ==
    /\ Begin
    /\ draft' = [d \in Drafts |-> IF Exists(d) THEN GoneDraft ELSE draft[d]]
    /\ media' = [d \in Drafts |-> 0]
    /\ profiles' = <<>>
    /\ UNCHANGED <<call, history>>

Crash ==
    /\ overlaps + crashes < MaxTrouble
    /\ \E c \in Calls : ~CallAt(c, "idle") /\ Go(c, IdleCall)
    /\ crashes' = crashes + 1
    /\ UNCHANGED <<draft, media, profiles, history, overlaps>>

Next ==
    \/ eraseTenantHoldings \/ Crash
    \/ \E d \in Drafts : createDraft(d)
    \/ \E c \in Calls, d \in Drafts : \/ updateDraft(c, d) \/ completeReview(c, d)
                                      \/ addDraftMedia(c, d) \/ publishDraft(c, d)
    \/ \E c \in Calls : createMediaAsset(c) \/ saveDraft(c) \/ publishProfile(c)

Spec == Init /\ [][Next]_vars
-----------------------------------------------------------------------------
(* Properties.                                                             *)

Rows == [status : {"DRAFT", "PENDING_REVIEW", "REJECTED", "PUBLISHED"},
         contents : Contents, decision : {"none", "APPROVED", "REJECTED"}]
Published == [draft : Drafts, contents : Contents, status : {"LIVE", "ARCHIVED"},
              version : 1..MaxVersions]

TypeOK ==
    /\ draft \in [Drafts -> Rows \cup {NoDraft, GoneDraft}]
    /\ media \in [Drafts -> Nat]
    /\ \A i \in DOMAIN profiles : profiles[i] \in Published

(* Operations that come one at a time, some of them dying, leave one live      *)
(* version at most, the last one, under numbers that follow one another, and   *)
(* no more media than the policy allows.                                       *)
VersionsInOrder ==
    overlaps = 0 =>
        /\ \A i \in DOMAIN profiles : /\ profiles[i].version = i
                                      /\ profiles[i].status = "LIVE" <=> i = Len(profiles)
        /\ \A d \in Drafts : media[d] <= MaxMedia

(* However operations overlap and die, what is published has its draft: of the *)
(* drafts that an erasure deleted nothing is public, not by a publication that *)
(* was in progress either (its transaction hangs on the row of the draft).     *)
NothingOutlivesItsDraft == \A i \in DOMAIN profiles : Exists(profiles[i].draft)

PublishedInOrder == VersionsInOrder /\ NothingOutlivesItsDraft

(* Whatever was in progress while a tenant was erased, no draft that was       *)
(* deleted comes back.  New ones may be made.                                  *)
ErasedStaysErased == [][\A d \in Drafts : draft[d] = GoneDraft => draft'[d] = GoneDraft]_vars

(* A version that takes the place of a live one of the same draft, operations  *)
(* coming one at a time, differs from it in what is reviewed only as a review  *)
(* approved, however many edits, uploads and decisions came in between; but an *)
(* upload takes a rejection away with the review (mediaEditedDraft).           *)
LiveChangesReviewed ==
    [][\A c \in Calls :
          publishProfile(c) /\ Len(profiles') > Len(profiles) /\ call[c].old # <<>> /\ overlaps = 0 =>
              LET d == call[c].draft
                  old == profiles[call[c].old[1]]
                  new == call[c].new.contents
              IN  old.draft = d /\ d \notin lifted =>
                      \/ ~NeedsReview(old.contents, new)
                      \/ ~NeedsReview(vetted[d], new)]_vars

(* Versions are live in order, none outlives its draft and what was erased     *)
(* stays away; and none goes live with changes that nobody reviewed.           *)
LiveInOrder == []PublishedInOrder /\ ErasedStaysErased /\ LiveChangesReviewed
=============================================================================
