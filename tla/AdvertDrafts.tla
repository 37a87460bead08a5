----------------------------- MODULE AdvertDrafts -----------------------------
(***************************************************************************)
(* The drafts of adverts: a tenant writes a draft, attaches files to it,   *)
(* publishes it as an advert with files of its own, and duplicates a draft *)
(* or an advert into a new draft.  What happens to an advert afterwards is *)
(* AdvertLifecycle's.                                                      *)
(*                                                                         *)
(* Requests overlap: each reads the draft, checks that it is still one,    *)
(* and only then writes; an edit and an upload write the whole draft they  *)
(* read, its status included.                                              *)
(***************************************************************************)
EXTENDS AdvertOverlaps, Integers, Sequences, FiniteSets, SequencesExt, FiniteSetsExt

CONSTANTS
    Drafts,       \* the ids drafts may get
    Requests,     \* requests that may be in progress together
    Contents,     \* the texts assertValidAdvert allows
    MaxItems,     \* mediaPolicy.maxItemsPerOwner
    MaxUploads,   \* bound on the uploads
    MaxPosts      \* bound on the adverts published

ASSUME DraftsAssumption == IsFiniteSet(Requests) /\ MaxItems \in Nat

VARIABLES
    draft,     \* the AdvertDraft rows
    posts,     \* the PublishedAdvert rows, in the order they were made
    files,     \* the MediaAsset rows of drafts and adverts
    request    \* per request: where it is, and its locals

draftsVars == <<draft, posts, files, request, overlaps, crashes>>

NoDraft == [status |-> "NONE", content |-> "none"]
Idle == [pc |-> "idle", op |-> "none", owner |-> <<>>, row |-> NoDraft,
         listed |-> {}, version |-> 0]

(* Who owns a file. *)
OfDraft(d) == <<"draft", d>>
OfPost(n) == <<"post", n>>

listMediaAssets(owner) == {f \in files : f.owner = owner}
-----------------------------------------------------------------------------
DraftsInit ==
    /\ draft = [d \in Drafts |-> NoDraft]
    /\ posts = <<>>
    /\ files = {}
    /\ request = [r \in Requests |-> Idle]
    /\ overlaps = 0 /\ crashes = 0

NoRequest == \A r \in Requests : request[r].pc = "idle"
Arrive == /\ IF NoRequest THEN UNCHANGED overlaps
             ELSE overlaps < MaxOverlaps /\ overlaps' = overlaps + 1
          /\ UNCHANGED crashes
At(r, pc) == request[r].pc = pc
Go(r, k) == request' = [request EXCEPT ![r] = k]

Fresh(d) == draft[d].status = "NONE" /\ \A r \in Requests : request[r].owner # OfDraft(d)
NewDraft(d, content) == draft' = [draft EXCEPT ![d] = [status |-> "DRAFT", content |-> content]]

(* createDraft: one write.  createAdvert goes on to publish what it made.  *)
createDraft(r) ==
    /\ At(r, "idle")
    /\ Arrive
    /\ \E d \in Drafts, content \in Contents :
          /\ Fresh(d)
          /\ NewDraft(d, content)
          /\ Go(r, [Idle EXCEPT !.pc = "create", !.owner = OfDraft(d)])
    /\ UNCHANGED <<posts, files>>

createAdvert(r) ==
    /\ At(r, "create")
    /\ \/ Go(r, Idle)
       \/ Go(r, [request[r] EXCEPT !.pc = "read", !.op = "publish"])
    /\ UNCHANGED <<draft, posts, files, overlaps, crashes>>

beginDraft(r) ==
    /\ At(r, "idle")
    /\ Arrive
    /\ \E d \in Drafts, op \in {"update", "media", "publish", "duplicate"} :
          /\ draft[d].status # "NONE"
          /\ Go(r, [Idle EXCEPT !.pc = "read", !.op = op, !.owner = OfDraft(d)])
    /\ UNCHANGED <<draft, posts, files>>

(* Mutant: what is published can be published again. *)
getDraftMutant(r) ==
    /\ At(r, "read")
    /\ LET d == request[r].owner[2] op == request[r].op IN
          Go(r, [request[r] EXCEPT !.row = draft[d],
                    !.pc = CASE op = "update" -> "save" [] op = "duplicate" -> "copy" [] OTHER -> "list"])
    /\ UNCHANGED <<draft, posts, files, overlaps, crashes>>

(* getDraft, and the refusal of what is published by all but duplication.  *)
getDraft(r) ==
    /\ At(r, "read")
    /\ LET d == request[r].owner[2] op == request[r].op IN
          Go(r, IF draft[d].status # "DRAFT" /\ op # "duplicate" THEN Idle
                ELSE [request[r] EXCEPT !.row = draft[d],
                         !.pc = CASE op = "update" -> "save"
                                  [] op = "duplicate" -> "copy" [] OTHER -> "list"])
    /\ UNCHANGED <<draft, posts, files, overlaps, crashes>>

(* updateDraft of the repository writes the status that was read; an edit  *)
(* brings a content, an upload the content that was read.                  *)
updateDraft(r) ==
    /\ At(r, "save")
    /\ \E content \in IF request[r].op = "update" THEN Contents ELSE {request[r].row.content} :
          draft' = [draft EXCEPT ![request[r].owner[2]] = [request[r].row EXCEPT !.content = content]]
    /\ Go(r, Idle)
    /\ UNCHANGED <<posts, files, overlaps, crashes>>
-----------------------------------------------------------------------------
(* Files. *)

listDraftMedia(r) ==
    /\ At(r, "list")
    /\ Go(r, [request[r] EXCEPT !.listed = listMediaAssets(request[r].owner),
                 !.pc = IF request[r].op = "media" THEN "attach" ELSE "version"])
    /\ UNCHANGED <<draft, posts, files, overlaps, crashes>>

OrdersOf(listed) == {f.order : f \in listed}

nextMediaDisplayOrder(listed) ==
    LET free == 0..(MaxItems - 1) \ OrdersOf(listed)
    IN  IF free = {} THEN Cardinality(listed) ELSE Min(free)

Uploads == {f.upload : f \in files}

(* Mutant: the position asked for is not compared with those in use. *)
addMediaMutant(r) ==
    /\ At(r, "attach")
    /\ IF Cardinality(request[r].listed) >= MaxItems
       THEN Go(r, Idle) /\ UNCHANGED files
       ELSE \E order \in {nextMediaDisplayOrder(request[r].listed)} \cup 0..(MaxItems - 1) :
               /\ Cardinality(Uploads) < MaxUploads
               /\ files' = files \cup {[owner |-> request[r].owner, order |-> order,
                                        upload |-> Cardinality(Uploads) + 1, status |-> "READY_FOR_PREVIEW"]}
               /\ Go(r, [request[r] EXCEPT !.pc = "save"])
    /\ UNCHANGED <<draft, posts, overlaps, crashes>>

(* addMedia: at most MaxItems, each in a position of its own, which the    *)
(* tenant names or the service finds; then the draft is saved.             *)
addMedia(r) ==
    /\ At(r, "attach")
    /\ IF Cardinality(request[r].listed) >= MaxItems
       THEN Go(r, Idle) /\ UNCHANGED files
       ELSE \E order \in {nextMediaDisplayOrder(request[r].listed)} \cup 0..(MaxItems - 1) :
               IF order \in OrdersOf(request[r].listed)
               THEN Go(r, Idle) /\ UNCHANGED files
               ELSE /\ Cardinality(Uploads) < MaxUploads
                    /\ files' = files \cup {[owner |-> request[r].owner, order |-> order,
                                             upload |-> Cardinality(Uploads) + 1,
                                             status |-> "READY_FOR_PREVIEW"]}
                    /\ Go(r, [request[r] EXCEPT !.pc = "save"])
    /\ UNCHANGED <<draft, posts, overlaps, crashes>>
-----------------------------------------------------------------------------
(* Publication. *)

nextVersion(r) ==
    /\ At(r, "version")
    /\ Go(r, [request[r] EXCEPT !.pc = "publish",
                 !.version = IF posts = <<>> THEN 1 ELSE Max({posts[n].version : n \in DOMAIN posts}) + 1])
    /\ UNCHANGED <<draft, posts, files, overlaps, crashes>>

(* publishAdvert: one transaction marks the draft, and makes the advert    *)
(* and its copies of the files that were listed.  The draft's other fields *)
(* are left as they are by now; the advert has those that were read.       *)
publishAdvert(r) ==
    /\ At(r, "publish")
    /\ Len(posts) < MaxPosts
    /\ LET d == request[r].owner[2] IN
          /\ draft' = [draft EXCEPT ![d].status = "PUBLISHED"]
          /\ posts' = Append(posts, [source |-> d, version |-> request[r].version,
                                     content |-> request[r].row.content])
    /\ files' = files \cup {[f EXCEPT !.owner = OfPost(Len(posts) + 1), !.status = "LIVE"] :
                               f \in request[r].listed}
    /\ Go(r, Idle)
    /\ UNCHANGED <<overlaps, crashes>>
-----------------------------------------------------------------------------
(* Duplication. *)

duplicateAdvert(r) ==
    /\ At(r, "idle")
    /\ Arrive
    /\ \E n \in DOMAIN posts :
          Go(r, [Idle EXCEPT !.pc = "copy", !.op = "duplicate", !.owner = OfPost(n),
                             !.row = [status |-> "DRAFT", content |-> posts[n].content]])
    /\ UNCHANGED <<draft, posts, files>>

(* The new draft has the texts of its source, not its status. *)
createDuplicateDraft(r) ==
    /\ At(r, "copy")
    /\ \E d \in Drafts :
          /\ Fresh(d)
          /\ NewDraft(d, request[r].row.content)
          /\ Go(r, [request[r] EXCEPT !.pc = "files", !.version = d])
    /\ UNCHANGED <<posts, files, overlaps, crashes>>

(* copyAdvertMedia lists the files of the source and copies one at a time. *)
copyAdvertMedia(r) ==
    /\ At(r, "files")
    /\ Go(r, [request[r] EXCEPT !.pc = "each", !.listed = listMediaAssets(request[r].owner)])
    /\ UNCHANGED <<draft, posts, files, overlaps, crashes>>

createMediaAsset(r) ==
    /\ At(r, "each")
    /\ IF request[r].listed = {} THEN Go(r, Idle) /\ UNCHANGED files
       ELSE LET f == CHOOSE g \in request[r].listed :
                        \A h \in request[r].listed : g.order <= h.order
            IN  /\ files' = files \cup {[f EXCEPT !.owner = OfDraft(request[r].version),
                                                  !.status = "READY_FOR_PREVIEW"]}
                /\ Go(r, [request[r] EXCEPT !.listed = @ \ {f}])
    /\ UNCHANGED <<draft, posts, overlaps, crashes>>
-----------------------------------------------------------------------------
Abandon(r) ==
    /\ ~At(r, "idle") /\ crashes < MaxCrashes
    /\ crashes' = crashes + 1
    /\ Go(r, Idle)
    /\ UNCHANGED <<draft, posts, files, overlaps>>

DraftsNext ==
    \E r \in Requests :
        \/ createDraft(r) \/ createAdvert(r) \/ beginDraft(r) \/ getDraft(r) \/ updateDraft(r)
        \/ listDraftMedia(r) \/ addMedia(r) \/ nextVersion(r) \/ publishAdvert(r)
        \/ duplicateAdvert(r) \/ createDuplicateDraft(r) \/ copyAdvertMedia(r)
        \/ createMediaAsset(r) \/ Abandon(r)

DraftsSpec == DraftsInit /\ [][DraftsNext]_draftsVars
-----------------------------------------------------------------------------
(* Properties. *)

PostsOf(d) == {n \in DOMAIN posts : posts[n].source = d}
Owners == {OfDraft(d) : d \in Drafts} \cup {OfPost(n) : n \in DOMAIN posts}

(* A draft becomes one advert: more only by requests that overlap, each of *)
(* which costs at most one; and no draft is marked published without one.  *)
OneAdvertPerDraft ==
    \A d \in Drafts :
        /\ Cardinality(PostsOf(d)) <= 1 + overlaps
        /\ draft[d].status = "PUBLISHED" => PostsOf(d) # {}

(* An owner has at most MaxItems files, each in its own position, but for  *)
(* uploads that overlap.                                                   *)
FilesInPlace ==
    \A o \in Owners :
        /\ Cardinality(listMediaAssets(o)) <= MaxItems + overlaps
        /\ Cardinality(listMediaAssets(o)) <= Cardinality(OrdersOf(listMediaAssets(o))) + overlaps

(* Of requests that come one at a time: an advert has the text and the     *)
(* files that its draft keeps, and versions count the tenant's adverts.    *)
AdvertsMatchDrafts ==
    overlaps = 0 => \A n \in DOMAIN posts :
        LET d == posts[n].source
            Shown(o) == {<<f.order, f.upload>> : f \in listMediaAssets(o)}
        IN  /\ draft[d] = [status |-> "PUBLISHED", content |-> posts[n].content]
            /\ Shown(OfPost(n)) = Shown(OfDraft(d))
            /\ posts[n].version = n

(* The records of a publication agree. *)
DraftsHold == OneAdvertPerDraft /\ FilesInPlace /\ AdvertsMatchDrafts
=============================================================================
