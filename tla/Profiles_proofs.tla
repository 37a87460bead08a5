---------------------------- MODULE Profiles_proofs ----------------------------
(***************************************************************************)
(* Theorems about profiles, for any drafts, requests, contents, review     *)
(* rules and any number of publications and deaths: versions are live in   *)
(* order, none outlives its draft, what was erased stays away, and a live  *)
(* version changes in what is reviewed only as a review approved.          *)
(***************************************************************************)
EXTENDS Profiles, SequenceTheorems, TLAPS

-----------------------------------------------------------------------------
(* Under any interleaving.                                                 *)

DraftRows == Rows \cup {NoDraft, GoneDraft}
VersionsOf(V) ==
    [draft : Drafts, contents : Contents, status : {"LIVE", "ARCHIVED"}, version : V]

(* What a request holds is a row, or a version of its draft.               *)
CallSound(k) ==
    /\ k.pc \in {"idle", "save", "media", "publish"}
    /\ k.pc # "idle" => k.draft \in Drafts /\ k.row \in Rows
    /\ k.pc = "publish" => k.new.draft = k.draft /\ \E V : k.new \in VersionsOf(V)

Listed(rows) == \E V : rows \in Seq(VersionsOf(V))

Base ==
    /\ draft \in [Drafts -> DraftRows] /\ DOMAIN call = Calls /\ DOMAIN media = Drafts
    /\ DOMAIN vetted = Drafts
    /\ overlaps \in Nat /\ crashes \in Nat
    /\ \A c \in Calls : CallSound(call[c])
    /\ Listed(profiles) /\ NothingOutlivesItsDraft

(* What operations that come one at a time keep.                           *)

Versions == VersionsOf(Nat)

Typed ==
    /\ draft \in [Drafts -> DraftRows]
    /\ media \in [Drafts -> Nat]
    /\ profiles \in Seq(Versions)

Single == \A c, e \in Calls : call[c].pc # "idle" /\ call[e].pc # "idle" => c = e

InOrder ==
    /\ \A i \in DOMAIN profiles : /\ profiles[i].version = i
                                  /\ profiles[i].status = "LIVE" <=> i = Len(profiles)
                                  /\ Exists(profiles[i].draft)
    /\ \A d \in Drafts : media[d] <= MaxMedia

(* What a request has read, and goes on to write, is as things stand.      *)
SavedRight(k) ==
    LET row == k.row
        now == draft[k.draft] IN
    /\ row \in Rows
    /\ k.why \in {"update", "review", "media"}
    /\ k.why = "update" =>
          /\ row.decision = "none" /\ row.status \in {"PENDING_REVIEW", "DRAFT"}
          /\ row.status = "DRAFT" => ~NeedsReview(reviewBaseline(k.draft), row.contents)
    /\ k.why = "review" =>
          /\ row.contents = now.contents
          /\ \/ row.status = "DRAFT" /\ row.decision = "APPROVED"
             \/ row.status = "REJECTED" /\ row.decision = "REJECTED"
    /\ k.why = "media" => row = mediaEditedDraft(now)
CallRight(k) ==
    /\ k.pc # "idle" => Exists(k.draft)
    /\ k.pc = "save" => SavedRight(k)
    /\ k.pc = "media" => k.row = mediaEditedDraft(draft[k.draft]) /\ media[k.draft] < MaxMedia
    /\ k.pc = "publish" =>
          /\ draft[k.draft].status \in {"DRAFT", "PUBLISHED"}
          /\ k.row = [draft[k.draft] EXCEPT !.status = "PUBLISHED"]
          /\ k.old = findLiveProfile
          /\ k.new = [draft |-> k.draft, contents |-> draft[k.draft].contents, status |-> "LIVE",
                      version |-> Len(profiles) + 1]

(* A draft that may be published differs from its live version, or from    *)
(* what a review approved last, in nothing that is reviewed; an approved   *)
(* one is what was approved.                                               *)
IsLive(d) == profiles # <<>> /\ profiles[Len(profiles)].draft = d
Reviewed ==
    \A d \in Drafts :
        /\ draft[d].status \in {"DRAFT", "PUBLISHED"} /\ IsLive(d) /\ d \notin lifted =>
              \/ ~NeedsReview(profiles[Len(profiles)].contents, draft[d].contents)
              \/ ~NeedsReview(vetted[d], draft[d].contents)
        /\ draft[d].status = "DRAFT" /\ draft[d].decision = "APPROVED" =>
              vetted[d] = draft[d].contents

Right == Typed /\ InOrder /\ Reviewed /\ \A c \in Calls : CallRight(call[c])
Tidy == overlaps = 0 => Single /\ Right

IInv == Base /\ Tidy
-----------------------------------------------------------------------------
(* Rows.                                                                   *)

LEMMA Same == \A x : ~NeedsReview(x, x)
BY DEF NeedsReview

LEMMA RowMade ==
    ASSUME NEW status \in {"DRAFT", "PENDING_REVIEW", "REJECTED", "PUBLISHED"},
           NEW contents \in Contents, NEW decision \in {"none", "APPROVED", "REJECTED"}
    PROVE  /\ DraftRow(status, contents, decision) \in Rows
           /\ DraftRow(status, contents, decision).status = status
           /\ DraftRow(status, contents, decision).contents = contents
           /\ DraftRow(status, contents, decision).decision = decision
BY DEF DraftRow, Rows

LEMMA RowOf ==
    ASSUME draft \in [Drafts -> DraftRows], NEW d \in Drafts, Exists(d)
    PROVE  /\ draft[d] \in Rows /\ draft[d].contents \in Contents
           /\ draft[d].status \in {"DRAFT", "PENDING_REVIEW", "REJECTED", "PUBLISHED"}
           /\ draft[d].decision \in {"none", "APPROVED", "REJECTED"}
<1>1. draft[d] \in Rows
  BY DEF DraftRows, Exists, NoDraft, GoneDraft
<1> QED
  BY <1>1 DEF Rows

LEMMA MediaEdited ==
    ASSUME NEW row \in Rows
    PROVE  /\ mediaEditedDraft(row) \in Rows
           /\ mediaEditedDraft(row).contents = row.contents
           /\ mediaEditedDraft(row).status \in {"DRAFT", "PENDING_REVIEW"}
           /\ row.status = "PENDING_REVIEW" <=> mediaEditedDraft(row).status = "PENDING_REVIEW"
           /\ mediaEditedDraft(row).status = "DRAFT" => mediaEditedDraft(row).decision = "none"
<1>1. row.contents \in Contents
  BY DEF Rows
<1>2. CASE row.status = "PENDING_REVIEW"
  BY <1>2 DEF mediaEditedDraft
<1>3. CASE row.status # "PENDING_REVIEW"
  BY <1>1, <1>3, RowMade DEF mediaEditedDraft
<1> QED
  BY <1>2, <1>3

(* Whatever a request goes on to write, it holds what has its sort.        *)
LEMMA CallsEnter ==
    ASSUME Base, NEW c \in Calls, NEW d \in Drafts,
           \/ updateDraft(c, d) \/ completeReview(c, d)
           \/ addDraftMedia(c, d) \/ publishDraft(c, d)
    PROVE  \E k : Enter(c, k) /\ CallSound(k)
<1>1. draft \in [Drafts -> DraftRows]
  BY DEF Base
<1>2. ASSUME NEW why, NEW row \in Rows,
             Enter(c, [pc |-> "save", why |-> why, draft |-> d, row |-> row])
      PROVE  \E k : Enter(c, k) /\ CallSound(k)
  <2>1. CallSound([pc |-> "save", why |-> why, draft |-> d, row |-> row])
    BY DEF CallSound
  <2> QED
    BY <1>2, <2>1
<1>3. CASE updateDraft(c, d)
  <2>1. PICK contents \in Contents :
          Enter(c, [pc |-> "save", why |-> "update", draft |-> d,
                    row |-> DraftRow(IF NeedsReview(reviewBaseline(d), contents)
                                     THEN "PENDING_REVIEW" ELSE "DRAFT", contents, "none")])
    BY <1>3 DEF updateDraft
  <2>2. DraftRow(IF NeedsReview(reviewBaseline(d), contents)
                 THEN "PENDING_REVIEW" ELSE "DRAFT", contents, "none") \in Rows
    BY RowMade
  <2> QED
    BY <1>2, <2>1, <2>2
<1>4. CASE completeReview(c, d)
  <2>1. PICK decision \in {"APPROVED", "REJECTED"} :
          Enter(c, [pc |-> "save", why |-> "review", draft |-> d,
                    row |-> DraftRow(IF decision = "APPROVED" THEN "DRAFT" ELSE "REJECTED",
                                     draft[d].contents, decision)])
    BY <1>4 DEF completeReview
  <2>2. draft[d].contents \in Contents
    BY <1>1, <1>4, RowOf DEF completeReview, Exists
  <2>3. DraftRow(IF decision = "APPROVED" THEN "DRAFT" ELSE "REJECTED",
                 draft[d].contents, decision) \in Rows
    BY <2>2, RowMade
  <2> QED
    BY <1>2, <2>1, <2>3
<1>5. CASE addDraftMedia(c, d)
  <2>1. PICK row : row = mediaEditedDraft(draft[d])
    OBVIOUS
  <2>2. PICK k : k = [pc |-> "media", draft |-> d, row |-> row]
    OBVIOUS
  <2>3. Enter(c, k) /\ Exists(d)
    BY <1>5, <2>1, <2>2 DEF addDraftMedia
  <2>4. row \in Rows
    BY <1>1, <2>1, <2>3, RowOf, MediaEdited
  <2>5. CallSound(k)
    BY <2>2, <2>4 DEF CallSound
  <2> QED
    BY <2>3, <2>5
<1>6. CASE publishDraft(c, d)
  <2>1. PICK now \in Rows : now = draft[d]
    BY <1>1, <1>6, RowOf DEF publishDraft, Exists
  <2>2. PICK row : row = [now EXCEPT !.status = "PUBLISHED"]
    OBVIOUS
  <2>3. row \in Rows
    BY <2>2 DEF Rows
  <2>4. PICK version : version = nextVersion
    OBVIOUS
  <2>5. PICK old : old = findLiveProfile
    OBVIOUS
  <2>6. PICK new : new = [draft |-> d, contents |-> now.contents, status |-> "LIVE",
                          version |-> version]
    OBVIOUS
  <2>7. now.contents \in Contents
    BY DEF Rows
  <2>8. new \in VersionsOf({version}) /\ new.draft = d
    BY <2>6, <2>7 DEF VersionsOf
  <2>9. PICK k : k = [pc |-> "publish", draft |-> d, row |-> row, old |-> old, new |-> new]
    OBVIOUS
  <2>10. Enter(c, k)
    BY <1>6, <2>1, <2>2, <2>4, <2>5, <2>6, <2>9 DEF publishDraft
  <2>11. CallSound(k)
    <3>1. k.pc = "publish" /\ k.draft = d /\ k.row = row /\ k.new = new
      BY <2>9
    <3>2. \E V : k.new \in VersionsOf(V)
      BY <2>8, <3>1
    <3> QED
      BY <2>3, <2>8, <3>1, <3>2 DEF CallSound
  <2> QED
    BY <2>10, <2>11
<1> QED
  BY <1>3, <1>4, <1>5, <1>6

LEMMA MoreVersions ==
    ASSUME NEW V, NEW W, NEW rows \in Seq(VersionsOf(V))
    PROVE  rows \in Seq(VersionsOf(V \cup W))
<1> DEFINE S == VersionsOf(V)
           T == VersionsOf(V \cup W)
<1>1. S \subseteq T
  BY DEF VersionsOf
<1>2. rows \in Seq(S)
  OBVIOUS
<1>3. rows \in Seq(T)
  <2> HIDE DEF S, T
  <2> QED
    BY <1>1, <1>2, SeqMonotonic
<1> QED
  BY <1>3

(* A version more, of a draft that there is, and one archived.             *)
Followed(rows, old, new) ==
    Append(IF old = <<>> THEN rows ELSE [rows EXCEPT ![old[1]].status = "ARCHIVED"], new)

Grown(rows, new, rows2) ==
    /\ Listed(rows2)
    /\ \A i \in DOMAIN rows2 : \/ rows2[i].draft = new.draft
                               \/ \E j \in DOMAIN rows : rows2[i].draft = rows[j].draft

LEMMA ListedNext ==
    ASSUME NEW rows, Listed(rows), NEW new, NEW W, new \in VersionsOf(W), NEW old,
           old = <<>> \/ old[1] \in DOMAIN rows, NEW rows2, rows2 = Followed(rows, old, new)
    PROVE  Grown(rows, new, rows2)
<1>1. PICK V : rows \in Seq(VersionsOf(V))
  BY DEF Listed
<1> DEFINE S == VersionsOf(V \cup W)
<1>2. PICK before : before = IF old = <<>> THEN rows ELSE [rows EXCEPT ![old[1]].status = "ARCHIVED"]
  OBVIOUS
<1>3. rows \in Seq(S)
  BY <1>1, MoreVersions
<1>4. new \in S
  BY DEF VersionsOf
<1>5. /\ before \in Seq(S) /\ Len(before) = Len(rows)
      /\ \A i \in 1..Len(rows) : before[i].draft = rows[i].draft
  <2>1. CASE old = <<>>
    BY <1>2, <1>3, <2>1
  <2>2. CASE old # <<>>
    <3>1. PICK n \in DOMAIN rows : n = old[1]
      BY <2>2
    <3>2. PICK row : row = [rows[n] EXCEPT !.status = "ARCHIVED"]
      OBVIOUS
    <3>3. rows[n] \in S
      BY <1>3
    <3>4. row \in S /\ row.draft = rows[n].draft
      BY <3>2, <3>3 DEF VersionsOf
    <3>5. before = [rows EXCEPT ![n] = row]
      BY <1>2, <2>2, <3>1, <3>2
    <3> HIDE DEF S
    <3>6. before \in Seq(S) /\ Len(before) = Len(rows)
      BY <1>3, <3>1, <3>4, <3>5
    <3> QED
      BY <1>3, <3>4, <3>5, <3>6
  <2> QED
    BY <2>1, <2>2
<1> HIDE DEF S
<1>6. rows2 = Append(before, new)
  BY <1>2 DEF Followed
<1>7. rows2 \in Seq(S) /\ Len(rows2) = Len(rows) + 1
  <2>1. Append(before, new) \in Seq(S) /\ Len(Append(before, new)) = Len(before) + 1
    BY <1>4, <1>5, AppendProperties
  <2> QED
    BY <1>5, <1>6, <2>1
<1>8. Len(rows) \in Nat /\ DOMAIN rows = 1..Len(rows) /\ DOMAIN rows2 = 1..(Len(rows) + 1)
  BY <1>3, <1>7
<1>9. rows2[Len(rows) + 1] = new /\ \A i \in 1..Len(rows) : rows2[i] = before[i]
  <2>1. PICK n \in Nat : n = Len(rows) /\ n = Len(before)
    BY <1>5, <1>8
  <2>2. Append(before, new)[n + 1] = new /\ \A i \in 1..n : Append(before, new)[i] = before[i]
    BY <1>4, <1>5, <2>1, AppendProperties
  <2> QED
    BY <1>6, <2>1, <2>2
<1>10. Listed(rows2)
  BY <1>7 DEF S, Listed
<1> QED
  BY <1>5, <1>8, <1>9, <1>10 DEF Grown

LEMMA BaseStep == Base /\ [Next]_vars => Base'
<1> SUFFICES ASSUME Base, [Next]_vars PROVE Base'
  OBVIOUS
<1> DEFINE Sorted == /\ DOMAIN media' = Drafts /\ DOMAIN vetted' = Drafts
                     /\ overlaps' \in Nat /\ crashes' \in Nat
           Sound(f) == DOMAIN f = Calls /\ \A c \in Calls : CallSound(f[c])
           Kept == /\ draft' \in [Drafts -> DraftRows]
                   /\ Listed(profiles') /\ NothingOutlivesItsDraft'
<1>1. Sound(call)
  BY DEF Base
<1>2. ASSUME NEW c \in Calls, NEW k, call' = [call EXCEPT ![c] = k], CallSound(k)
      PROVE  Sound(call')
  BY <1>1, <1>2
<1>3. ASSUME UNCHANGED <<draft, profiles>> PROVE Kept
  BY <1>3 DEF Base, NothingOutlivesItsDraft, Exists
<1>4. Sorted /\ Sound(call') /\ Kept => Base'
  BY DEF Base
<1>5. CallSound(IdleCall)
  BY DEF CallSound, IdleCall
<1>6. CASE UNCHANGED vars
  BY <1>6 DEF vars, Base, NothingOutlivesItsDraft, Exists
<1>7. CASE eraseTenantHoldings
  <2>1. draft' \in [Drafts -> DraftRows]
    BY <1>7 DEF eraseTenantHoldings, Base, DraftRows
  <2>2. Listed(profiles') /\ NothingOutlivesItsDraft'
    <3>1. profiles' = <<>> /\ profiles' \in Seq(VersionsOf({}))
      BY <1>7 DEF eraseTenantHoldings
    <3> QED
      BY <3>1 DEF Listed, NothingOutlivesItsDraft
  <2>3. Sorted /\ Sound(call')
    BY <1>1, <1>7 DEF eraseTenantHoldings, Begin, Base, history
  <2> QED
    BY <1>4, <2>1, <2>2, <2>3
<1>8. CASE Crash
  <2>1. PICK c \in Calls : Go(c, IdleCall)
    BY <1>8 DEF Crash
  <2>2. Sound(call')
    BY <1>2, <1>5, <2>1 DEF Go
  <2>3. Sorted /\ UNCHANGED <<draft, profiles>>
    BY <1>8 DEF Crash, Base, history
  <2> QED
    BY <1>3, <1>4, <2>2, <2>3
<1>9. ASSUME NEW d \in Drafts, createDraft(d) PROVE Base'
  <2>1. PICK contents \in Contents : draft' = [draft EXCEPT ![d] = DraftRow("DRAFT", contents, "none")]
    BY <1>9 DEF createDraft
  <2>2. PICK row \in Rows : row = DraftRow("DRAFT", contents, "none") /\ row.status = "DRAFT"
    BY RowMade
  <2>3. draft' = [draft EXCEPT ![d] = row] /\ profiles' = profiles
    BY <1>9, <2>1, <2>2 DEF createDraft
  <2>4. draft' \in [Drafts -> DraftRows]
    BY <2>3 DEF Base, DraftRows
  <2>5. \A e : Exists(e) => Exists(e)'
    BY <2>2, <2>3 DEF Exists, Base
  <2>6. Listed(profiles') /\ NothingOutlivesItsDraft'
    BY <2>3, <2>5 DEF Base, NothingOutlivesItsDraft, Exists
  <2>7. Sorted /\ Sound(call')
    BY <1>1, <1>9 DEF createDraft, Base, history, counters
  <2> QED
    BY <1>4, <2>4, <2>6, <2>7
<1>10. ASSUME NEW c \in Calls, NEW d \in Drafts,
              \/ updateDraft(c, d) \/ completeReview(c, d)
              \/ addDraftMedia(c, d) \/ publishDraft(c, d)
       PROVE  Base'
  <2>1. PICK k : Enter(c, k) /\ CallSound(k)
    BY <1>10, CallsEnter
  <2>2. Sound(call')
    BY <1>2, <2>1 DEF Enter, Go
  <2>3. Sorted /\ UNCHANGED <<draft, profiles>>
    BY <2>1 DEF Enter, Begin, Base, history
  <2> QED
    BY <1>3, <1>4, <2>2, <2>3
<1>11. ASSUME NEW c \in Calls, createMediaAsset(c) PROVE Base'
  <2>1. PICK d, row : d = call[c].draft /\ row = call[c].row
    OBVIOUS
  <2>2. PICK k : k = [pc |-> "save", why |-> "media", draft |-> d, row |-> row]
    OBVIOUS
  <2>3. Go(c, k) /\ call[c].pc = "media"
    BY <1>11, <2>1, <2>2 DEF createMediaAsset, CallAt
  <2>4. d \in Drafts /\ row \in Rows
    BY <1>1, <2>1, <2>3 DEF CallSound
  <2>5. CallSound(k)
    BY <2>2, <2>4 DEF CallSound
  <2>6. Sound(call')
    BY <1>2, <2>3, <2>5 DEF Go
  <2>7. Sorted /\ UNCHANGED <<draft, profiles>>
    BY <1>11 DEF createMediaAsset, Base, history, counters
  <2> QED
    BY <1>3, <1>4, <2>6, <2>7
<1>12. ASSUME NEW c \in Calls, saveDraft(c) PROVE Base'
  <2>1. PICK d \in Drafts, row \in Rows : d = call[c].draft /\ row = call[c].row
    BY <1>1, <1>12 DEF saveDraft, CallAt, CallSound
  <2>2. Sorted
    BY <1>12 DEF saveDraft, Base, history, counters, Note
  <2>3. Sound(call')
    BY <1>2, <1>5, <1>12 DEF saveDraft, Go
  <2>4. CASE Exists(d)
    <3>1. draft' = [draft EXCEPT ![d] = row] /\ profiles' = profiles
      BY <1>12, <2>1, <2>4 DEF saveDraft
    <3>2. row.status \notin {"NONE", "GONE"}
      BY DEF Rows
    <3>3. draft' \in [Drafts -> DraftRows]
      BY <3>1 DEF Base, DraftRows
    <3>4. \A e : Exists(e) => Exists(e)'
      BY <3>1, <3>2 DEF Exists, Base
    <3>5. Listed(profiles') /\ NothingOutlivesItsDraft'
      BY <3>1, <3>4 DEF Base, NothingOutlivesItsDraft, Exists
    <3> QED
      BY <1>4, <2>2, <2>3, <3>3, <3>5
  <2>5. CASE ~Exists(d)
    <3>1. UNCHANGED <<draft, profiles>>
      BY <1>12, <2>1, <2>5 DEF saveDraft
    <3> QED
      BY <1>3, <1>4, <2>2, <2>3, <3>1
  <2> QED
    BY <2>4, <2>5
<1>13. ASSUME NEW c \in Calls, publishProfile(c) PROVE Base'
  <2>1. PICK k : k = call[c]
    OBVIOUS
  <2>2. k.pc = "publish" /\ CallSound(k) /\ Go(c, IdleCall)
    BY <1>1, <1>13, <2>1 DEF publishProfile, CallAt
  <2>3. PICK d \in Drafts, row \in Rows : d = k.draft /\ row = k.row
    BY <2>2 DEF CallSound
  <2>4. PICK new, W : new = k.new /\ new \in VersionsOf(W) /\ new.draft = d
    BY <2>2, <2>3 DEF CallSound
  <2>5. Sorted
    BY <1>13 DEF publishProfile, Base, history, counters
  <2>6. Sound(call')
    BY <1>2, <1>5, <2>2 DEF Go
  <2>7. CASE Exists(d) /\ (k.old = <<>> \/ k.old[1] \in DOMAIN profiles)
    <3>1. PICK old : old = k.old
      OBVIOUS
    <3>2. PICK contents \in Contents : contents = draft[d].contents
      BY <2>7, RowOf DEF Base
    <3>3. PICK row2 : row2 = [row EXCEPT !.contents = contents]
      OBVIOUS
    <3>4. row2 \in Rows /\ row2.status \notin {"NONE", "GONE"}
      BY <3>2, <3>3 DEF Rows
    <3>5. /\ draft' = [draft EXCEPT ![d] = row2]
          /\ profiles' = Followed(profiles, old, new)
      BY <1>13, <2>1, <2>3, <2>4, <2>7, <3>1, <3>2, <3>3 DEF publishProfile, Archived, Followed
    <3>6. Grown(profiles, new, profiles')
      <4>1. Listed(profiles) /\ new \in VersionsOf(W)
        BY <2>4 DEF Base
      <4>2. old = <<>> \/ old[1] \in DOMAIN profiles
        BY <2>7, <3>1
      <4> QED
        BY <3>5, <4>1, <4>2, ListedNext
    <3>7. draft' \in [Drafts -> DraftRows]
      BY <3>4, <3>5 DEF Base, DraftRows
    <3>8. Exists(d)' /\ \A e : Exists(e) => Exists(e)'
      BY <3>4, <3>5 DEF Exists, Base
    <3>9. NothingOutlivesItsDraft'
      <4> SUFFICES ASSUME NEW i \in DOMAIN profiles' PROVE Exists(profiles[i].draft)'
        BY DEF NothingOutlivesItsDraft
      <4>1. PICK e : e = profiles'[i].draft
        OBVIOUS
      <4>2. Exists(e)'
        BY <2>4, <3>6, <3>8, <4>1 DEF Grown, Base, NothingOutlivesItsDraft
      <4> QED
        BY <4>1, <4>2 DEF Exists
    <3> QED
      BY <1>4, <2>5, <2>6, <3>6, <3>7, <3>9 DEF Grown
  <2>8. CASE ~(Exists(d) /\ (k.old = <<>> \/ k.old[1] \in DOMAIN profiles))
    <3>1. UNCHANGED <<draft, profiles>>
      BY <1>13, <2>1, <2>3, <2>8 DEF publishProfile
    <3> QED
      BY <1>3, <1>4, <2>5, <2>6, <3>1
  <2> QED
    BY <2>7, <2>8
<1> QED
  BY <1>6, <1>7, <1>8, <1>9, <1>10, <1>11, <1>12, <1>13 DEF Next

LEMMA BaseInvariant == Spec => []Base
<1>1. Init => Base
  <2> SUFFICES ASSUME Init PROVE Base
    OBVIOUS
  <2>1. profiles = <<>> /\ profiles \in Seq(VersionsOf({}))
    BY DEF Init
  <2>2. Listed(profiles) /\ NothingOutlivesItsDraft
    BY <2>1 DEF Listed, NothingOutlivesItsDraft
  <2>3. \A c \in Calls : CallSound(call[c])
    BY DEF Init, CallSound, IdleCall
  <2> QED
    BY <2>2, <2>3 DEF Init, Base, DraftRows
<1> QED
  BY <1>1, BaseStep, PTL DEF Spec
-----------------------------------------------------------------------------
(* Versions and reviews.                                                   *)

(* The live version is the last, and the next one follows it.              *)
LEMMA LiveFacts ==
    ASSUME Typed, InOrder
    PROVE  /\ findLiveProfile = IF profiles = <<>> THEN <<>> ELSE <<Len(profiles)>>
           /\ nextVersion = Len(profiles) + 1
<1>1. /\ profiles \in Seq(Versions) /\ Len(profiles) \in Nat
      /\ DOMAIN profiles = 1..Len(profiles)
  BY DEF Typed
<1>2. CASE profiles = <<>>
  <2>1. Len(profiles) = 0 /\ LiveRows = {}
    BY <1>1, <1>2 DEF LiveRows
  <2> QED
    BY <1>2, <2>1 DEF findLiveProfile, nextVersion
<1>3. CASE profiles # <<>>
  <2>1. PICK n \in Nat : n = Len(profiles) /\ n >= 1
    <3>1. Len(profiles) # 0
      BY <1>1, <1>3, EmptySeq
    <3>2. Len(profiles) \in Nat /\ Len(profiles) >= 1
      BY <1>1, <3>1
    <3> QED
      BY <3>2
  <2>2. LiveRows = {n}
    BY <1>1, <2>1 DEF LiveRows, InOrder
  <2>3. \A j \in LiveRows : profiles[j].version <= profiles[n].version
    BY <1>1, <2>1, <2>2 DEF InOrder
  <2>4. findLiveProfile = <<n>>
    <3>1. (CHOOSE i \in LiveRows : \A j \in LiveRows : profiles[j].version <= profiles[i].version) = n
      BY <2>2, <2>3
    <3> QED
      BY <2>2, <3>1 DEF findLiveProfile
  <2>5. {profiles[i].version : i \in DOMAIN profiles} = 1..n
    BY <1>1, <2>1 DEF InOrder
  <2>6. \A i \in DOMAIN profiles : profiles[i].version <= n
    BY <1>1, <2>1 DEF InOrder
  <2>7. \A v \in 1..n : (\A i \in DOMAIN profiles : profiles[i].version <= v) => v = n
    <3>1. n \in DOMAIN profiles /\ profiles[n].version = n
      BY <1>1, <2>1 DEF InOrder
    <3> QED
      BY <2>1, <3>1
  <2>8. nextVersion = 1 + n
    <3>1. (CHOOSE v \in 1..n : \A i \in DOMAIN profiles : profiles[i].version <= v) = n
      BY <2>1, <2>6, <2>7
    <3> QED
      BY <1>3, <2>5, <3>1 DEF nextVersion
  <2> QED
    BY <1>3, <2>1, <2>4, <2>8
<1> QED
  BY <1>2, <1>3

LEMMA BaselineFacts ==
    ASSUME Typed, InOrder, NEW d
    PROVE  reviewBaseline(d) =
             IF /\ ~(draft[d].status = "DRAFT" /\ draft[d].decision = "APPROVED")
                /\ IsLive(d)
             THEN profiles[Len(profiles)].contents ELSE draft[d].contents
<1>1. CASE profiles = <<>>
  BY <1>1, LiveFacts DEF reviewBaseline, IsLive
<1>2. CASE profiles # <<>>
  <2>1. PICK n : n = Len(profiles)
    OBVIOUS
  <2>2. findLiveProfile = <<n>>
    BY <1>2, <2>1, LiveFacts
  <2>3. findLiveProfile # <<>> /\ findLiveProfile[1] = n
    BY <2>2
  <2> QED
    BY <1>2, <2>1, <2>3 DEF reviewBaseline, IsLive
<1> QED
  BY <1>1, <1>2
-----------------------------------------------------------------------------
(* A request moves on.                                                     *)

LEMMA StepTidy ==
    ASSUME Base, NEW c \in Calls, NEW k, Go(c, k),
           overlaps' = 0 => \A e \in Calls : e # c => call[e].pc = "idle",
           overlaps' = 0 => CallRight(k)' /\ Typed' /\ InOrder' /\ Reviewed'
    PROVE  Tidy'
<1> SUFFICES ASSUME overlaps' = 0 PROVE Single' /\ Right'
  BY DEF Tidy
<1>1. call'[c] = k /\ \A e \in Calls : e # c => call'[e] = call[e]
  BY DEF Go, Base
<1>2. Single'
  BY <1>1 DEF Single
<1>3. \A e \in Calls : e # c => call'[e].pc = "idle"
  BY <1>1
<1>4. ASSUME NEW e \in Calls PROVE CallRight(call[e])'
  <2>1. CASE e = c
    BY <1>1, <2>1
  <2>2. CASE e # c
    BY <1>3, <2>2 DEF CallRight
  <2> QED
    BY <2>1, <2>2
<1> QED
  BY <1>2, <1>4 DEF Right

LEMMA OthersIdle ==
    ASSUME Tidy, overlaps = 0, NEW c \in Calls, call[c].pc # "idle" \/ Quiet
    PROVE  \A e \in Calls : e # c => call[e].pc = "idle"
BY DEF Tidy, Single, Quiet

LEMMA Unmoved ==
    ASSUME Typed, InOrder, Reviewed, UNCHANGED <<draft, media, profiles, history>>
    PROVE  Typed' /\ InOrder' /\ Reviewed'
<1>1. Typed'
  BY DEF Typed
<1>2. InOrder'
  BY DEF InOrder, Exists
<1>3. Reviewed'
  BY DEF Reviewed, IsLive, history
<1> QED
  BY <1>1, <1>2, <1>3

LEMMA CallUnmoved ==
    ASSUME NEW k, CallRight(k), UNCHANGED <<draft, media, profiles>>
    PROVE  CallRight(k)'
BY DEF CallRight, SavedRight, Exists, reviewBaseline, findLiveProfile, LiveRows

LEMMA BeginAlone ==
    ASSUME Base, Begin, overlaps' = 0
    PROVE  overlaps = 0 /\ Quiet
BY DEF Base, Begin

LEMMA EnterTidy ==
    ASSUME Base, Tidy, NEW c \in Calls, NEW k, Enter(c, k),
           Right => CallRight(k)
    PROVE  Tidy'
<1>1. Go(c, k) /\ Begin /\ UNCHANGED <<draft, media, profiles, history>>
  BY DEF Enter
<1>2. ASSUME overlaps' = 0
      PROVE  /\ \A e \in Calls : e # c => call[e].pc = "idle"
             /\ CallRight(k)' /\ Typed' /\ InOrder' /\ Reviewed'
  <2>1. overlaps = 0 /\ Quiet
    BY <1>1, <1>2, BeginAlone
  <2>2. Right
    BY <2>1 DEF Tidy
  <2>3. CallRight(k)'
    BY <1>1, <2>2, CallUnmoved
  <2>4. Typed' /\ InOrder' /\ Reviewed'
    BY <1>1, <2>2, Unmoved DEF Right
  <2> QED
    BY <2>1, <2>3, <2>4, OthersIdle
<1> QED
  BY <1>1, <1>2, StepTidy

LEMMA EntersTidy ==
    ASSUME Base, Tidy, NEW c \in Calls, NEW d \in Drafts,
           \/ updateDraft(c, d) \/ completeReview(c, d)
           \/ addDraftMedia(c, d) \/ publishDraft(c, d)
    PROVE  Tidy'
<1>1. CASE updateDraft(c, d)
  <2>1. PICK contents \in Contents :
          Enter(c, [pc |-> "save", why |-> "update", draft |-> d,
                    row |-> DraftRow(IF NeedsReview(reviewBaseline(d), contents)
                                     THEN "PENDING_REVIEW" ELSE "DRAFT", contents, "none")])
    BY <1>1 DEF updateDraft
  <2>2. PICK status \in {"PENDING_REVIEW", "DRAFT"} :
          status = IF NeedsReview(reviewBaseline(d), contents) THEN "PENDING_REVIEW" ELSE "DRAFT"
    OBVIOUS
  <2>3. PICK row : row = DraftRow(status, contents, "none")
    OBVIOUS
  <2>4. row \in Rows /\ row.status = status /\ row.contents = contents /\ row.decision = "none"
    BY <2>3, RowMade
  <2>5. PICK k : k = [pc |-> "save", why |-> "update", draft |-> d, row |-> row]
    OBVIOUS
  <2>6. k.pc = "save" /\ k.why = "update" /\ k.draft = d /\ k.row = row
    BY <2>5
  <2>7. CallRight(k)
    <3>1. Exists(k.draft)
      BY <1>1, <2>6 DEF updateDraft
    <3>2. SavedRight(k)
      BY <2>2, <2>4, <2>6 DEF SavedRight
    <3> QED
      BY <2>6, <3>1, <3>2 DEF CallRight
  <2>8. Enter(c, k)
    BY <2>1, <2>2, <2>3, <2>5
  <2> QED
    BY <2>7, <2>8, EnterTidy
<1>2. CASE completeReview(c, d)
  <2>1. PICK decision \in {"APPROVED", "REJECTED"} :
          Enter(c, [pc |-> "save", why |-> "review", draft |-> d,
                    row |-> DraftRow(IF decision = "APPROVED" THEN "DRAFT" ELSE "REJECTED",
                                     draft[d].contents, decision)])
    BY <1>2 DEF completeReview
  <2>2. PICK status \in {"DRAFT", "REJECTED"} :
          status = IF decision = "APPROVED" THEN "DRAFT" ELSE "REJECTED"
    OBVIOUS
  <2>3. PICK contents : contents = draft[d].contents
    OBVIOUS
  <2>4. PICK row : row = DraftRow(status, contents, decision)
    OBVIOUS
  <2>5. PICK k : k = [pc |-> "save", why |-> "review", draft |-> d, row |-> row]
    OBVIOUS
  <2>6. k.pc = "save" /\ k.why = "review" /\ k.draft = d /\ k.row = row
    BY <2>5
  <2>7. Exists(d)
    BY <1>2 DEF completeReview, Exists
  <2>8. Right => CallRight(k)
    <3> SUFFICES ASSUME Right PROVE CallRight(k)
      OBVIOUS
    <3>1. contents \in Contents
      BY <2>3, <2>7, RowOf DEF Right, Typed
    <3>2. row \in Rows /\ row.status = status /\ row.contents = contents /\ row.decision = decision
      BY <2>4, <3>1, RowMade
    <3>3. SavedRight(k)
      BY <2>2, <2>3, <2>6, <3>2 DEF SavedRight
    <3> QED
      BY <2>6, <2>7, <3>3 DEF CallRight
  <2>9. Enter(c, k)
    BY <2>1, <2>2, <2>3, <2>4, <2>5
  <2> QED
    BY <2>8, <2>9, EnterTidy
<1>3. CASE addDraftMedia(c, d)
  <2>1. PICK row : row = mediaEditedDraft(draft[d])
    OBVIOUS
  <2>2. PICK k : k = [pc |-> "media", draft |-> d, row |-> row]
    OBVIOUS
  <2>3. Enter(c, k) /\ Exists(d) /\ media[d] < MaxMedia
    BY <1>3, <2>1, <2>2 DEF addDraftMedia
  <2>4. k.pc = "media" /\ k.draft = d /\ k.row = row
    BY <2>2
  <2>5. CallRight(k)
    BY <2>1, <2>3, <2>4 DEF CallRight
  <2> QED
    BY <2>3, <2>5, EnterTidy
<1>4. CASE publishDraft(c, d)
  <2>1. PICK row : row = [draft[d] EXCEPT !.status = "PUBLISHED"]
    OBVIOUS
  <2>2. PICK old : old = findLiveProfile
    OBVIOUS
  <2>3. PICK new : new = [draft |-> d, contents |-> draft[d].contents, status |-> "LIVE",
                          version |-> nextVersion]
    OBVIOUS
  <2>4. PICK k : k = [pc |-> "publish", draft |-> d, row |-> row, old |-> old, new |-> new]
    OBVIOUS
  <2>5. k.pc = "publish" /\ k.draft = d /\ k.row = row /\ k.old = old /\ k.new = new
    BY <2>4
  <2>6. Enter(c, k) /\ draft[d].status \in {"DRAFT", "PUBLISHED"}
    BY <1>4, <2>1, <2>2, <2>3, <2>4 DEF publishDraft
  <2>7. Right => CallRight(k)
    <3> SUFFICES ASSUME Right PROVE CallRight(k)
      OBVIOUS
    <3>1. nextVersion = Len(profiles) + 1
      BY LiveFacts DEF Right
    <3>2. k.new = [draft |-> k.draft, contents |-> draft[k.draft].contents, status |-> "LIVE",
                   version |-> Len(profiles) + 1]
      BY <2>3, <2>5, <3>1
    <3> QED
      BY <2>1, <2>2, <2>5, <2>6, <3>2 DEF CallRight, Exists
  <2> QED
    BY <2>6, <2>7, EnterTidy
<1> QED
  BY <1>1, <1>2, <1>3, <1>4
LEMMA MediaTidy ==
    ASSUME Base, Tidy, NEW c \in Calls, createMediaAsset(c)
    PROVE  Tidy'
<1>1. PICK d : d = call[c].draft
  OBVIOUS
<1>2. PICK row : row = call[c].row
  OBVIOUS
<1>3. PICK k : k = [pc |-> "save", why |-> "media", draft |-> d, row |-> row]
  OBVIOUS
<1>4. k.pc = "save" /\ k.why = "media" /\ k.draft = d /\ k.row = row
  BY <1>3
<1>5. /\ Go(c, k) /\ call[c].pc = "media" /\ media' = [media EXCEPT ![d] = @ + 1]
      /\ UNCHANGED <<draft, profiles, history, overlaps>>
  BY <1>1, <1>2, <1>3 DEF createMediaAsset, CallAt, counters
<1>6. d \in Drafts
  BY <1>1, <1>5 DEF Base, CallSound
<1>7. ASSUME overlaps' = 0
      PROVE  /\ \A e \in Calls : e # c => call[e].pc = "idle"
             /\ CallRight(k)' /\ Typed' /\ InOrder' /\ Reviewed'
  <2>1. overlaps = 0 /\ Right
    BY <1>5, <1>7 DEF Tidy
  <2>2. \A e \in Calls : e # c => call[e].pc = "idle"
    BY <1>5, <2>1, OthersIdle
  <2>3. Exists(d) /\ row = mediaEditedDraft(draft[d]) /\ media[d] < MaxMedia
    BY <1>1, <1>2, <1>5, <2>1 DEF Right, CallRight
  <2>4. row \in Rows
    BY <1>6, <2>1, <2>3, RowOf, MediaEdited DEF Right, Typed
  <2>5. CallRight(k)'
    <3>1. SavedRight(k)'
      BY <1>4, <1>5, <2>3, <2>4 DEF SavedRight
    <3>2. Exists(k.draft)'
      BY <1>4, <1>5, <2>3 DEF Exists
    <3> QED
      BY <1>4, <3>1, <3>2 DEF CallRight
  <2>6. Typed'
    BY <1>5, <1>6, <2>1 DEF Right, Typed
  <2>7. InOrder'
    <3>1. media'[d] <= MaxMedia
      BY <1>5, <1>6, <2>1, <2>3, MediaAssumption DEF Right, Typed
    <3>2. \A e \in Drafts : media'[e] <= MaxMedia
      BY <1>5, <1>6, <2>1, <3>1 DEF Right, InOrder, Typed
    <3> QED
      BY <1>5, <2>1, <3>2 DEF Right, InOrder, Exists
  <2>8. Reviewed'
    BY <1>5, <2>1 DEF Right, Reviewed, IsLive, history
  <2> QED
    BY <2>2, <2>5, <2>6, <2>7, <2>8
<1> QED
  BY <1>5, <1>7, StepTidy

(* A draft that is written back is what was reviewed, or waits for it.     *)
LEMMA SavedReviewed ==
    ASSUME Base, Typed, InOrder, Reviewed, NEW k, NEW d \in Drafts, k.draft = d, Exists(d),
           SavedRight(k), draft' = [draft EXCEPT ![d] = k.row], Note(d, k.why, k.row),
           UNCHANGED profiles
    PROVE  Reviewed'
<1>1. PICK row \in Rows : row = k.row
  BY DEF SavedRight
<1>2. /\ draft'[d] = row /\ \A e \in Drafts : e # d => draft'[e] = draft[e]
      /\ vetted'[d] = IF row.decision = "APPROVED" THEN row.contents
                      ELSE IF row.status = "DRAFT" THEN vetted[d] ELSE NoContents
      /\ \A e \in Drafts : e # d => vetted'[e] = vetted[e]
  BY <1>1 DEF Base, Note
<1>3. \A e \in Drafts : e # d => (e \in lifted' <=> e \in lifted)
  BY DEF Note
<1>4. row.contents \in Contents /\ k.why \in {"update", "review", "media"}
  BY <1>1 DEF Rows, SavedRight
<1> DEFINE Covered == \/ ~NeedsReview(profiles[Len(profiles)].contents, row.contents)
                      \/ ~NeedsReview(vetted'[d], row.contents)
<1>5. /\ row.status \in {"DRAFT", "PUBLISHED"} /\ IsLive(d) /\ d \notin lifted' => Covered
      /\ row.status = "DRAFT" /\ row.decision = "APPROVED" => vetted'[d] = row.contents
  <2>1. CASE k.why = "update"
    <3>1. row.decision = "none" /\ row.status \in {"PENDING_REVIEW", "DRAFT"}
      BY <1>1, <2>1 DEF SavedRight
    <3>2. row.status = "DRAFT" => vetted'[d] = vetted[d] /\ ~NeedsReview(reviewBaseline(d), row.contents)
      BY <1>1, <1>2, <2>1, <3>1 DEF SavedRight
    <3>3. CASE draft[d].status = "DRAFT" /\ draft[d].decision = "APPROVED"
      <4>1. reviewBaseline(d) = vetted[d]
        BY <3>3, BaselineFacts DEF Reviewed
      <4> QED
        BY <3>1, <3>2, <4>1
    <3>4. CASE ~(draft[d].status = "DRAFT" /\ draft[d].decision = "APPROVED")
      <4>1. IsLive(d) => reviewBaseline(d) = profiles[Len(profiles)].contents
        BY <3>4, BaselineFacts
      <4> QED
        BY <3>1, <3>2, <4>1
    <3> QED
      BY <3>3, <3>4
  <2>2. CASE k.why = "review"
    <3>1. \/ row.status = "DRAFT" /\ row.decision = "APPROVED"
          \/ row.status = "REJECTED" /\ row.decision = "REJECTED"
      BY <1>1, <2>2 DEF SavedRight
    <3> QED
      BY <1>2, <3>1, Same
  <2>3. CASE k.why = "media"
    <3>1. PICK now \in Rows : now = draft[d]
      BY RowOf DEF Typed
    <3>2. row = mediaEditedDraft(now)
      BY <1>1, <2>3, <3>1 DEF SavedRight
    <3>3. CASE row.status = "DRAFT"
      <4>1. row.decision = "none" /\ vetted'[d] = vetted[d] /\ row.contents = now.contents
        BY <1>2, <3>2, <3>3, MediaEdited
      <4>2. now.status # "PENDING_REVIEW"
        BY <3>2, <3>3, MediaEdited
      <4>3. CASE now.status = "REJECTED"
        <5>1. d \in lifted'
          BY <2>3, <3>1, <4>3 DEF Note
        <5> QED
          BY <4>1, <5>1
      <4>4. CASE now.status \in {"DRAFT", "PUBLISHED"}
        <5>1. d \notin lifted' => d \notin lifted
          BY <2>3 DEF Note
        <5>2. IsLive(d) /\ d \notin lifted =>
                \/ ~NeedsReview(profiles[Len(profiles)].contents, now.contents)
                \/ ~NeedsReview(vetted[d], now.contents)
          BY <3>1, <4>4 DEF Reviewed
        <5> QED
          BY <4>1, <5>1, <5>2
      <4> QED
        BY <4>2, <4>3, <4>4 DEF Rows
    <3>4. CASE row.status # "DRAFT"
      BY <3>2, <3>4, MediaEdited
    <3> QED
      BY <3>3, <3>4
  <2> QED
    BY <1>4, <2>1, <2>2, <2>3
<1>6. ASSUME NEW e \in Drafts
      PROVE  /\ draft'[e].status \in {"DRAFT", "PUBLISHED"} /\ IsLive(e) /\ e \notin lifted' =>
                   \/ ~NeedsReview(profiles[Len(profiles)].contents, draft'[e].contents)
                   \/ ~NeedsReview(vetted'[e], draft'[e].contents)
             /\ draft'[e].status = "DRAFT" /\ draft'[e].decision = "APPROVED" =>
                   vetted'[e] = draft'[e].contents
  <2>1. CASE e = d
    BY <1>2, <1>5, <2>1
  <2>2. CASE e # d
    BY <1>2, <1>3, <2>2 DEF Reviewed
  <2> QED
    BY <2>1, <2>2
<1> QED
  BY <1>6 DEF Reviewed, IsLive

LEMMA SaveTidy ==
    ASSUME Base, Tidy, NEW c \in Calls, saveDraft(c)
    PROVE  Tidy'
<1>1. PICK k : k = call[c]
  OBVIOUS
<1>2. PICK d \in Drafts : d = k.draft
  BY <1>1 DEF saveDraft, CallAt, Base, CallSound
<1>3. /\ Go(c, IdleCall) /\ k.pc = "save" /\ UNCHANGED <<media, profiles, overlaps>>
      /\ IF Exists(d) THEN draft' = [draft EXCEPT ![d] = k.row] /\ Note(d, k.why, k.row)
                      ELSE UNCHANGED <<draft, history>>
  BY <1>1, <1>2 DEF saveDraft, CallAt, counters
<1>4. CallRight(IdleCall)'
  BY DEF CallRight, IdleCall
<1>5. ASSUME overlaps' = 0
      PROVE  /\ \A e \in Calls : e # c => call[e].pc = "idle"
             /\ Typed' /\ InOrder' /\ Reviewed'
  <2>1. overlaps = 0 /\ Right
    BY <1>3, <1>5 DEF Tidy
  <2>2. \A e \in Calls : e # c => call[e].pc = "idle"
    BY <1>1, <1>3, <2>1, OthersIdle
  <2>3. Exists(d) /\ SavedRight(k)
    BY <1>1, <1>2, <1>3, <2>1 DEF Right, CallRight
  <2>4. PICK row \in Rows : row = k.row
    BY <2>3 DEF SavedRight
  <2>5. draft' = [draft EXCEPT ![d] = row]
    BY <1>3, <2>3, <2>4
  <2>6. Typed'
    BY <1>3, <2>1, <2>4, <2>5 DEF Right, Typed, DraftRows
  <2>7. InOrder'
    <3>1. row.status \notin {"NONE", "GONE"}
      BY <2>4 DEF Rows
    <3>2. \A e : Exists(e) => Exists(e)'
      BY <2>5, <3>1 DEF Exists, Base
    <3> QED
      BY <1>3, <2>1, <3>2 DEF Right, InOrder
  <2>8. Reviewed'
    BY <1>2, <1>3, <2>1, <2>3, SavedReviewed DEF Right
  <2> QED
    BY <2>2, <2>6, <2>7, <2>8
<1> QED
  BY <1>3, <1>4, <1>5, StepTidy
(* A publication adds the next version and archives the one before.        *)
LEMMA PublishedNext ==
    ASSUME Typed, InOrder, NEW new \in Versions, NEW n \in Nat, n = Len(profiles),
           new.version = n + 1, new.status = "LIVE",
           profiles' = Append(IF findLiveProfile = <<>> THEN profiles
                              ELSE Archived(findLiveProfile[1]), new)
    PROVE  /\ profiles' \in Seq(Versions) /\ Len(profiles') = n + 1
           /\ DOMAIN profiles' = 1..(n + 1) /\ profiles'[n + 1] = new
           /\ \A i \in 1..n : /\ profiles'[i].version = i /\ profiles'[i].status # "LIVE"
                              /\ profiles'[i].draft = profiles[i].draft
<1>1. /\ profiles \in Seq(Versions) /\ DOMAIN profiles = 1..n
      /\ \A i \in 1..n : profiles[i] \in Versions
  BY DEF Typed
<1>2. PICK before : before = IF findLiveProfile = <<>> THEN profiles ELSE Archived(findLiveProfile[1])
  OBVIOUS
<1>3. /\ before \in Seq(Versions) /\ Len(before) = n
      /\ \A i \in 1..n : /\ before[i].version = i /\ before[i].status # "LIVE"
                         /\ before[i].draft = profiles[i].draft
  <2>1. CASE profiles = <<>>
    <3>1. n = 0 /\ before = profiles
      BY <1>2, <2>1, LiveFacts
    <3> QED
      BY <1>1, <3>1
  <2>2. CASE profiles # <<>>
    <3>1. findLiveProfile = <<n>> /\ n \in 1..n
      <4>1. n # 0
        BY <1>1, <2>2, EmptySeq
      <4> QED
        BY <2>2, <4>1, LiveFacts
    <3>2. findLiveProfile # <<>> /\ findLiveProfile[1] = n
      BY <3>1
    <3>3. before = [profiles EXCEPT ![n] = [profiles[n] EXCEPT !.status = "ARCHIVED"]]
      BY <1>2, <3>2 DEF Archived
    <3>4. PICK row : row = [profiles[n] EXCEPT !.status = "ARCHIVED"]
      OBVIOUS
    <3>5. /\ row \in Versions /\ row.status = "ARCHIVED" /\ row.version = profiles[n].version
          /\ row.draft = profiles[n].draft
      BY <1>1, <3>1, <3>4 DEF Versions, VersionsOf
    <3>6. before = [profiles EXCEPT ![n] = row]
      BY <3>3, <3>4
    <3>7. before \in Seq(Versions) /\ Len(before) = n
      BY <1>1, <3>1, <3>5, <3>6
    <3>8. ASSUME NEW i \in 1..n
          PROVE  /\ before[i].version = i /\ before[i].status # "LIVE"
                 /\ before[i].draft = profiles[i].draft
      <4>1. CASE i = n
        BY <1>1, <3>5, <3>6, <4>1 DEF InOrder
      <4>2. CASE i # n
        BY <1>1, <3>6, <4>2 DEF InOrder
      <4> QED
        BY <4>1, <4>2
    <3> QED
      BY <3>7, <3>8
  <2> QED
    BY <2>1, <2>2
<1>4. profiles' = Append(before, new)
  BY <1>2
<1>5. profiles' \in Seq(Versions) /\ Len(profiles') = n + 1
  <2>1. Append(before, new) \in Seq(Versions) /\ Len(Append(before, new)) = Len(before) + 1
    BY <1>3, AppendProperties
  <2> QED
    BY <1>3, <1>4, <2>1
<1>6. profiles'[n + 1] = new /\ \A i \in 1..n : profiles'[i] = before[i]
  <2>1. Len(before) + 1 = n + 1
    BY <1>3
  <2> QED
    BY <1>3, <1>4, <2>1, AppendProperties
<1> QED
  BY <1>3, <1>5, <1>6

LEMMA PublishTidy ==
    ASSUME Base, Tidy, NEW c \in Calls, publishProfile(c)
    PROVE  Tidy'
<1>1. PICK k : k = call[c]
  OBVIOUS
<1>2. PICK d \in Drafts : d = k.draft
  BY <1>1 DEF publishProfile, CallAt, Base, CallSound
<1>3. /\ Go(c, IdleCall) /\ k.pc = "publish" /\ UNCHANGED <<media, overlaps>>
      /\ IF Exists(d) /\ (k.old = <<>> \/ k.old[1] \in DOMAIN profiles)
         THEN /\ profiles' = Append(IF k.old = <<>> THEN profiles ELSE Archived(k.old[1]), k.new)
              /\ draft' = [draft EXCEPT ![d] = [k.row EXCEPT !.contents = draft[d].contents]]
              /\ vetted' = [vetted EXCEPT ![d] = NoContents]
              /\ lifted' = lifted \ {d}
         ELSE UNCHANGED <<profiles, draft, history>>
  BY <1>1, <1>2 DEF publishProfile, CallAt, counters
<1>4. CallRight(IdleCall)'
  BY DEF CallRight, IdleCall
<1>5. ASSUME overlaps' = 0
      PROVE  /\ \A e \in Calls : e # c => call[e].pc = "idle"
             /\ Typed' /\ InOrder' /\ Reviewed'
  <2>1. overlaps = 0 /\ Typed /\ InOrder /\ Reviewed
    BY <1>3, <1>5 DEF Tidy, Right
  <2>2. \A e \in Calls : e # c => call[e].pc = "idle"
    BY <1>1, <1>3, <2>1, OthersIdle
  <2>3. /\ Exists(d) /\ k.row = [draft[d] EXCEPT !.status = "PUBLISHED"] /\ k.old = findLiveProfile
        /\ k.new = [draft |-> d, contents |-> draft[d].contents, status |-> "LIVE",
                    version |-> Len(profiles) + 1]
    BY <1>1, <1>2, <1>3, <2>1 DEF Tidy, Right, CallRight
  <2>4. PICK n \in Nat : n = Len(profiles)
    BY <2>1 DEF Typed
  <2>5. PICK now \in Rows : now = draft[d]
    BY <2>1, <2>3, RowOf DEF Typed
  <2>6. PICK new : new = [draft |-> d, contents |-> now.contents, status |-> "LIVE",
                          version |-> n + 1]
    OBVIOUS
  <2>7. /\ new \in Versions /\ new.draft = d /\ new.contents = now.contents
        /\ new.status = "LIVE" /\ new.version = n + 1
    BY <2>5, <2>6 DEF Rows, Versions, VersionsOf
  <2>8. PICK row : row = [now EXCEPT !.status = "PUBLISHED"]
    OBVIOUS
  <2>9. row \in Rows /\ row.status = "PUBLISHED" /\ row.contents = now.contents
    BY <2>8 DEF Rows
  <2>10. [k.row EXCEPT !.contents = draft[d].contents] = row
    <3>1. k.row = row
      BY <2>3, <2>5, <2>8
    <3> QED
      BY <2>5, <2>9, <3>1 DEF Rows
  <2>11. k.old = <<>> \/ k.old[1] \in DOMAIN profiles
    <3>1. CASE profiles = <<>>
      BY <2>1, <2>3, <3>1, LiveFacts
    <3>2. CASE profiles # <<>>
      <4>1. k.old = <<n>> /\ n # 0 /\ DOMAIN profiles = 1..n
        BY <2>1, <2>3, <2>4, <3>2, LiveFacts, EmptySeq DEF Typed
      <4> QED
        BY <2>4, <4>1
    <3> QED
      BY <3>1, <3>2
  <2>12. /\ profiles' = Append(IF findLiveProfile = <<>> THEN profiles
                               ELSE Archived(findLiveProfile[1]), new)
         /\ draft' = [draft EXCEPT ![d] = row] /\ vetted' = [vetted EXCEPT ![d] = NoContents]
         /\ lifted' = lifted \ {d}
    <3>1. k.new = new
      BY <2>3, <2>4, <2>5, <2>6
    <3> QED
      BY <1>3, <2>3, <2>10, <2>11, <3>1
  <2>13. /\ profiles' \in Seq(Versions) /\ Len(profiles') = n + 1
         /\ DOMAIN profiles' = 1..(n + 1) /\ profiles'[n + 1] = new
         /\ \A i \in 1..n : /\ profiles'[i].version = i /\ profiles'[i].status # "LIVE"
                            /\ profiles'[i].draft = profiles[i].draft
    BY <2>1, <2>4, <2>7, <2>12, PublishedNext
  <2>14. draft'[d] = row /\ \A e \in Drafts : e # d => draft'[e] = draft[e] /\ vetted'[e] = vetted[e]
    BY <2>12 DEF Base
  <2>15. Typed'
    BY <1>3, <2>1, <2>9, <2>12, <2>13 DEF Typed, DraftRows
  <2>16. InOrder'
    <3>1. \A e : Exists(e) => Exists(e)'
      <4>1. row.status \notin {"NONE", "GONE"}
        BY <2>9
      <4> QED
        BY <2>12, <4>1 DEF Base, Exists
    <3>2. ASSUME NEW i \in 1..(n + 1)
          PROVE  /\ profiles'[i].version = i
                 /\ profiles'[i].status = "LIVE" <=> i = n + 1
                 /\ Exists(profiles[i].draft)'
      <4>1. CASE i = n + 1
        <5>1. profiles'[i] = new
          BY <2>13, <4>1
        <5>2. Exists(new.draft)'
          BY <2>3, <2>7, <3>1
        <5> QED
          BY <2>7, <4>1, <5>1, <5>2 DEF Exists
      <4>2. CASE i # n + 1
        <5>1. i \in 1..n
          BY <2>4, <4>2
        <5>2. Exists(profiles[i].draft)
          BY <2>1, <2>4, <5>1 DEF Typed, InOrder
        <5> QED
          <6>1. profiles'[i].draft = profiles[i].draft
            BY <2>13, <5>1
          <6>2. Exists(profiles[i].draft)'
            BY <2>14, <3>1, <5>2, <6>1 DEF Exists
          <6> QED
            BY <2>13, <4>2, <5>1, <6>2
      <4> QED
        BY <4>1, <4>2
    <3> QED
      <4>1. \A e \in Drafts : media'[e] <= MaxMedia
        BY <1>3, <2>1 DEF InOrder
      <4> QED
        BY <2>13, <3>2, <4>1 DEF InOrder
  <2>17. Reviewed'
    <3>1. \A e \in Drafts : IsLive(e)' => e = d
      BY <2>7, <2>13 DEF IsLive
    <3>2. profiles'[Len(profiles')].contents = draft'[d].contents
      BY <2>7, <2>9, <2>13, <2>14
    <3>3. draft'[d].status # "DRAFT"
      BY <2>9, <2>14
    <3>4. ASSUME NEW e \in Drafts
          PROVE  /\ draft'[e].status \in {"DRAFT", "PUBLISHED"} /\ IsLive(e)' /\ e \notin lifted' =>
                       \/ ~NeedsReview(profiles'[Len(profiles')].contents, draft'[e].contents)
                       \/ ~NeedsReview(vetted'[e], draft'[e].contents)
                 /\ draft'[e].status = "DRAFT" /\ draft'[e].decision = "APPROVED" =>
                       vetted'[e] = draft'[e].contents
      <4>1. CASE e = d
        BY <3>2, <3>3, <4>1, Same
      <4>2. CASE e # d
        BY <2>1, <2>14, <3>1, <4>2 DEF Reviewed
      <4> QED
        BY <4>1, <4>2
    <3> QED
      BY <3>4 DEF Reviewed
  <2> QED
    BY <2>2, <2>15, <2>16, <2>17
<1> QED
  BY <1>3, <1>4, <1>5, StepTidy
(* A new draft is nobody's.                                                *)
LEMMA CreateTidy ==
    ASSUME Base, Tidy, NEW d \in Drafts, createDraft(d)
    PROVE  Tidy'
<1> SUFFICES ASSUME overlaps' = 0 PROVE Single' /\ Right'
  BY DEF Tidy
<1>1. PICK contents \in Contents : draft' = [draft EXCEPT ![d] = DraftRow("DRAFT", contents, "none")]
  BY DEF createDraft
<1>2. PICK row \in Rows : /\ row = DraftRow("DRAFT", contents, "none")
                          /\ row.status = "DRAFT" /\ row.decision = "none"
  BY RowMade
<1>3. /\ draft' = [draft EXCEPT ![d] = row] /\ ~Exists(d) /\ overlaps = 0
      /\ UNCHANGED <<media, profiles, call, history>>
  <2>1. NoDraft.status = "NONE" /\ draft[d] = NoDraft
    BY DEF createDraft, NoDraft
  <2>2. ~Exists(d)
    BY <2>1 DEF Exists
  <2> QED
    BY <1>1, <1>2, <2>2 DEF createDraft, counters
<1>4. Single /\ Right
  BY <1>3 DEF Tidy
<1>5. draft'[d] = row /\ \A e : e # d => draft'[e] = draft[e]
  BY <1>3 DEF Base
<1>6. \A e : Exists(e) => e # d /\ Exists(e)'
  BY <1>3, <1>5 DEF Exists
<1>7. Single'
  BY <1>3, <1>4 DEF Single
<1>8. Typed'
  BY <1>3, <1>4 DEF Right, Typed, DraftRows
<1>9. InOrder'
  BY <1>3, <1>4, <1>6 DEF Right, InOrder
<1>10. ~IsLive(d)
  <2>1. CASE profiles = <<>>
    BY <2>1 DEF IsLive
  <2>2. CASE profiles # <<>>
    <3>1. Len(profiles) \in DOMAIN profiles
      BY <1>4, <2>2, EmptySeq DEF Right, Typed
    <3>2. Exists(profiles[Len(profiles)].draft)
      BY <1>4, <3>1 DEF Right, InOrder
    <3> QED
      BY <1>3, <3>2 DEF IsLive
  <2> QED
    BY <2>1, <2>2
<1>11. Reviewed'
  <2>1. ASSUME NEW e \in Drafts
        PROVE  /\ draft'[e].status \in {"DRAFT", "PUBLISHED"} /\ IsLive(e) /\ e \notin lifted =>
                     \/ ~NeedsReview(profiles[Len(profiles)].contents, draft'[e].contents)
                     \/ ~NeedsReview(vetted[e], draft'[e].contents)
               /\ draft'[e].status = "DRAFT" /\ draft'[e].decision = "APPROVED" =>
                     vetted[e] = draft'[e].contents
    <3>1. CASE e = d
      BY <1>2, <1>5, <1>10, <3>1
    <3>2. CASE e # d
      BY <1>4, <1>5, <3>2 DEF Right, Reviewed
    <3> QED
      BY <3>1, <3>2
  <2> QED
    BY <1>3, <2>1 DEF Reviewed, IsLive, history
<1>12. ASSUME NEW c \in Calls PROVE CallRight(call[c])'
  <2>1. PICK k : k = call[c]
    OBVIOUS
  <2>2. CallRight(k)
    BY <1>4, <2>1 DEF Right
  <2>3. CASE k.pc = "idle"
    BY <1>3, <2>1, <2>3 DEF CallRight
  <2>4. CASE k.pc # "idle"
    <3>1. draft'[k.draft] = draft[k.draft] /\ Exists(k.draft) /\ Exists(k.draft)'
      BY <1>5, <1>6, <2>2, <2>4 DEF CallRight
    <3>2. findLiveProfile' = findLiveProfile /\ profiles' = profiles /\ media' = media
      BY <1>3 DEF findLiveProfile, LiveRows
    <3>3. reviewBaseline(k.draft)' = reviewBaseline(k.draft)
      BY <3>1, <3>2 DEF reviewBaseline
    <3>4. SavedRight(k) => SavedRight(k)'
      BY <3>1, <3>3 DEF SavedRight
    <3>5. CallRight(k)'
      BY <2>2, <3>1, <3>2, <3>4 DEF CallRight
    <3> QED
      BY <1>3, <2>1, <3>5
  <2> QED
    BY <2>3, <2>4
<1> QED
  BY <1>7, <1>8, <1>9, <1>11, <1>12 DEF Right

(* What an erasure leaves, with nothing in progress, has nothing to show.  *)
LEMMA EraseTidy ==
    ASSUME Base, Tidy, eraseTenantHoldings
    PROVE  Tidy'
<1> SUFFICES ASSUME overlaps' = 0 PROVE Single' /\ Right'
  BY DEF Tidy
<1>1. overlaps = 0 /\ Quiet /\ UNCHANGED call
  BY BeginAlone DEF eraseTenantHoldings
<1>2. /\ draft' = [d \in Drafts |-> IF Exists(d) THEN GoneDraft ELSE draft[d]]
      /\ media' = [d \in Drafts |-> 0] /\ profiles' = <<>>
  BY DEF eraseTenantHoldings
<1>3. Single' /\ \A c \in Calls : CallRight(call[c])'
  BY <1>1 DEF Quiet, Single, CallRight
<1>4. Typed'
  <2>1. draft \in [Drafts -> DraftRows]
    BY DEF Base
  <2> QED
    BY <1>2, <2>1 DEF Typed, DraftRows
<1>5. InOrder'
  BY <1>2, MediaAssumption DEF InOrder
<1>6. Reviewed'
  BY <1>2 DEF Reviewed, IsLive, Exists, GoneDraft
<1> QED
  BY <1>3, <1>4, <1>5, <1>6 DEF Right

LEMMA CrashTidy ==
    ASSUME Base, Tidy, Crash
    PROVE  Tidy'
<1>1. PICK c \in Calls : ~CallAt(c, "idle") /\ Go(c, IdleCall)
  BY DEF Crash
<1>2. UNCHANGED <<draft, media, profiles, history, overlaps>>
  BY DEF Crash
<1>3. CallRight(IdleCall)'
  BY DEF CallRight, IdleCall
<1>4. ASSUME overlaps' = 0
      PROVE  /\ \A e \in Calls : e # c => call[e].pc = "idle"
             /\ Typed' /\ InOrder' /\ Reviewed'
  <2>1. overlaps = 0 /\ Right
    BY <1>2, <1>4 DEF Tidy
  <2>2. \A e \in Calls : e # c => call[e].pc = "idle"
    BY <1>1, <2>1, OthersIdle DEF CallAt
  <2> QED
    BY <1>2, <2>1, <2>2, Unmoved DEF Right
<1> QED
  BY <1>1, <1>3, <1>4, StepTidy

LEMMA UnchangedTidy ==
    ASSUME Tidy, UNCHANGED vars
    PROVE  Tidy'
<1> SUFFICES ASSUME overlaps' = 0 PROVE Single' /\ Right'
  BY DEF Tidy
<1>1. Single /\ Right /\ UNCHANGED <<draft, media, profiles, history>> /\ UNCHANGED call
  BY DEF Tidy, vars, history
<1>2. Single'
  BY <1>1 DEF Single
<1>3. Typed' /\ InOrder' /\ Reviewed'
  BY <1>1, Unmoved DEF Right
<1>4. ASSUME NEW c \in Calls PROVE CallRight(call[c])'
  <2>1. PICK k : k = call[c] /\ CallRight(k)
    BY <1>1 DEF Right
  <2>2. CallRight(k)'
    BY <1>1, <2>1, CallUnmoved
  <2> QED
    BY <1>1, <2>1, <2>2
<1> QED
  BY <1>2, <1>3, <1>4 DEF Right
-----------------------------------------------------------------------------
(* The strengthening: under any interleaving Base holds; while operations  *)
(* come one at a time, at most one is in progress and what it has read is  *)
(* as things stand (Right), and what may be published was reviewed.        *)
THEOREM ProfilesInvariant == Spec => []IInv
<1>1. Init => Tidy
  <2> SUFFICES ASSUME Init PROVE Single /\ Right
    BY DEF Tidy
  <2>1. Single /\ \A c \in Calls : CallRight(call[c])
    BY DEF Init, Single, CallRight, IdleCall
  <2>2. Typed
    BY DEF Init, Typed, DraftRows
  <2>3. InOrder
    BY MediaAssumption DEF Init, InOrder
  <2>4. Reviewed
    BY DEF Init, Reviewed, IsLive, NoDraft
  <2> QED
    BY <2>1, <2>2, <2>3, <2>4 DEF Right
<1>2. Base /\ Tidy /\ [Next]_vars => Tidy'
  <2> SUFFICES ASSUME Base, Tidy, [Next]_vars PROVE Tidy'
    OBVIOUS
  <2>1. CASE UNCHANGED vars
    BY <2>1, UnchangedTidy
  <2>2. CASE eraseTenantHoldings
    BY <2>2, EraseTidy
  <2>3. CASE Crash
    BY <2>3, CrashTidy
  <2>4. ASSUME NEW d \in Drafts, createDraft(d) PROVE Tidy'
    BY <2>4, CreateTidy
  <2>5. ASSUME NEW c \in Calls, NEW d \in Drafts,
               \/ updateDraft(c, d) \/ completeReview(c, d)
               \/ addDraftMedia(c, d) \/ publishDraft(c, d)
        PROVE  Tidy'
    BY <2>5, EntersTidy
  <2>6. ASSUME NEW c \in Calls, createMediaAsset(c) PROVE Tidy'
    BY <2>6, MediaTidy
  <2>7. ASSUME NEW c \in Calls, saveDraft(c) PROVE Tidy'
    BY <2>7, SaveTidy
  <2>8. ASSUME NEW c \in Calls, publishProfile(c) PROVE Tidy'
    BY <2>8, PublishTidy
  <2> QED
    BY <2>1, <2>2, <2>3, <2>4, <2>5, <2>6, <2>7, <2>8 DEF Next
<1> QED
  BY <1>1, <1>2, BaseInvariant, PTL DEF Spec, IInv

(* A version that replaces a live one of its draft was read as things      *)
(* stand, and so is covered by Reviewed.                                   *)
LEMMA PublicationReviewed ==
    ASSUME Base, Tidy, NEW c \in Calls, publishProfile(c), call[c].old # <<>>, overlaps = 0,
           profiles[call[c].old[1]].draft = call[c].draft, call[c].draft \notin lifted
    PROVE  \/ ~NeedsReview(profiles[call[c].old[1]].contents, call[c].new.contents)
           \/ ~NeedsReview(vetted[call[c].draft], call[c].new.contents)
<1>1. PICK k : k = call[c]
  OBVIOUS
<1>2. PICK d \in Drafts : d = k.draft
  BY <1>1 DEF publishProfile, CallAt, Base, CallSound
<1>3. Typed /\ InOrder /\ Reviewed /\ CallRight(k) /\ k.pc = "publish"
  BY <1>1 DEF Tidy, Right, publishProfile, CallAt
<1>4. /\ draft[d].status \in {"DRAFT", "PUBLISHED"} /\ k.old = findLiveProfile
      /\ k.new = [draft |-> d, contents |-> draft[d].contents, status |-> "LIVE",
                  version |-> Len(profiles) + 1]
  BY <1>2, <1>3 DEF CallRight
<1>5. k.new.contents = draft[d].contents
  BY <1>4
<1>6. profiles # <<>> /\ k.old = <<Len(profiles)>>
  BY <1>1, <1>3, <1>4, LiveFacts
<1>7. k.old[1] = Len(profiles)
  BY <1>6
<1>8. IsLive(d) /\ d \notin lifted
  BY <1>1, <1>2, <1>6, <1>7 DEF IsLive
<1> QED
  BY <1>1, <1>2, <1>3, <1>4, <1>5, <1>7, <1>8 DEF Reviewed

(* Nothing is written over a draft that was erased.                        *)
LEMMA GoneStays ==
    ASSUME Base, [Next]_vars, NEW d \in Drafts, draft[d] = GoneDraft
    PROVE  draft'[d] = GoneDraft
<1>1. ~Exists(d) /\ draft[d] # NoDraft
  BY DEF Exists, GoneDraft, NoDraft
<1>2. CASE UNCHANGED vars
  BY <1>2 DEF vars
<1>3. CASE eraseTenantHoldings
  BY <1>1, <1>3 DEF eraseTenantHoldings
<1>4. CASE Crash
  BY <1>4 DEF Crash
<1>5. ASSUME NEW e \in Drafts, createDraft(e) PROVE draft'[d] = GoneDraft
  <2>1. e # d
    BY <1>1, <1>5 DEF createDraft
  <2> QED
    BY <1>5, <2>1 DEF createDraft, Base
<1>6. ASSUME NEW c \in Calls, NEW e \in Drafts,
             \/ updateDraft(c, e) \/ completeReview(c, e)
             \/ addDraftMedia(c, e) \/ publishDraft(c, e)
      PROVE  draft'[d] = GoneDraft
  BY <1>6 DEF updateDraft, completeReview, addDraftMedia, publishDraft, Enter
<1>7. ASSUME NEW c \in Calls, createMediaAsset(c) PROVE draft'[d] = GoneDraft
  BY <1>7 DEF createMediaAsset
<1>8. ASSUME NEW c \in Calls, saveDraft(c) \/ publishProfile(c) PROVE draft'[d] = GoneDraft
  <2>1. \/ draft' = draft
        \/ \E e, row : Exists(e) /\ draft' = [draft EXCEPT ![e] = row]
    BY <1>8 DEF saveDraft, publishProfile
  <2> QED
    BY <1>1, <2>1 DEF Base
<1> QED
  BY <1>2, <1>3, <1>4, <1>5, <1>6, <1>7, <1>8 DEF Next

(* Operations one at a time publish versions in order, one of them live,   *)
(* and none replaces a live one with changes that nobody reviewed; however *)
(* operations interleave, nothing that is published outlives its draft,    *)
(* and no draft that was erased comes back                                 *)
(* (publishDraft, reviewBaseline, completeReview, eraseTenantHoldings).    *)
THEOREM LiveKept == Spec => LiveInOrder
<1>1. IInv => PublishedInOrder
  BY DEF IInv, Base, Tidy, Right, InOrder, PublishedInOrder, VersionsInOrder
<1> DEFINE Vetted == \A c \in Calls :
             publishProfile(c) /\ Len(profiles') > Len(profiles) /\ call[c].old # <<>> /\ overlaps = 0 =>
                LET d == call[c].draft
                    old == profiles[call[c].old[1]]
                    new == call[c].new.contents
                IN  old.draft = d /\ d \notin lifted =>
                        \/ ~NeedsReview(old.contents, new)
                        \/ ~NeedsReview(vetted[d], new)
<1>2. IInv => [Vetted]_vars
  <2> SUFFICES ASSUME IInv PROVE Vetted
    OBVIOUS
  <2> QED
    BY PublicationReviewed DEF IInv
<1>3. IInv /\ [Next]_vars => [\A d \in Drafts : draft[d] = GoneDraft => draft'[d] = GoneDraft]_vars
  BY GoneStays DEF IInv
<1> QED
  BY <1>1, <1>2, <1>3, ProfilesInvariant, PTL DEF LiveInOrder, LiveChangesReviewed, ErasedStaysErased, Spec
=============================================================================
