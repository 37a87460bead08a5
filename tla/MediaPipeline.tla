---------------------------- MODULE MediaPipeline ----------------------------
(***************************************************************************)
(* Processing one uploaded media file: the attach flow queues its scan,    *)
(* moderation and transform jobs; runs of the media worker claim batches   *)
(* of jobs from the Prisma outbox, process them one by one, complete or    *)
(* fail them, and publish the outcome on the media asset and as a review   *)
(* case; publishing the draft copies the asset; moderators settle cases.   *)
(*                                                                         *)
(* A run goes from await to await.  It may die anywhere (Crash), and any   *)
(* database call may throw (Throw).  Time is left out: a retried job is    *)
(* due at any time, as the backoff counts from the start of the run.       *)
(***************************************************************************)
EXTENDS Naturals, Sequences, FiniteSets

CONSTANTS
    Runs,         \* calls of runOnce that may be in progress together
    WorkerIds,    \* the workerIds a call may give: the scheduler's is always the same
    Types,        \* the job types that are enqueued
    MaxJobs,      \* bound on the jobs that get enqueued and the overlaps together
    MaxAttempts,  \* maxAttempts of a job
    MaxOverlaps,  \* bound on the runs that begin while another is in progress
    MaxFaults,    \* bound on the runs that die and the calls that throw
    MaxCases      \* bound on the review cases

AllTypes == {"MALWARE_SCAN", "CONTENT_MODERATION", "TRANSFORM"}

ASSUME TypesAssumption == Types \subseteq AllTypes
ASSUME WorkerIdsAssumption == \A r \in Runs : "nobody" \notin WorkerIds[r]
ASSUME AttemptsAssumption == MaxAttempts \in Nat \ {0}

VARIABLES
    job,      \* the MediaProcessingJobs of the file, by type
    asset,    \* the MediaAssets: the draft's, as publishDraft read it, and the live copy
    cases,    \* the MediaReviewCases, oldest first
    run,      \* per run: where it is, its batch, and its locals
    overlaps, \* how many runs began while another was in progress
    shared,   \* has one of them begun with the workerId of that other?
    faults    \* how many runs died or had a database call throw

vars == <<job, asset, cases, run, overlaps, shared, faults>>
counters == <<overlaps, shared, faults>>

NoJob == [status |-> "NONE", attempts |-> 0, owner |-> "nobody", result |-> "none"]
NoAsset == [status |-> "NONE", moderation |-> "NONE", transform |-> "NONE"]
Idle == [pc |-> "idle", id |-> "nobody", todo |-> {}, mine |-> {}, job |-> "none",
         outcome |-> "none", result |-> "none", retry |-> FALSE, caught |-> FALSE]

(* What a processor may answer for a job type; "unknown" is any verdict    *)
(* that is neither passing nor unsafe.                                     *)
Results(t) == IF t = "TRANSFORM" THEN {"PENDING", "READY", "FAILED", "NOT_REQUIRED"}
              ELSE {"passed", "unsafe", "unknown"}
-----------------------------------------------------------------------------
(* Publication: buildMediaAssetPublicationPatch, requiresMediaReviewCase   *)
(* and presentUserFacingMediaReview.                                       *)

IsUnsafe(t, outcome, result) ==
    t # "TRANSFORM" /\ (outcome = "FAILED" \/ result = "unsafe")

(* Mutant: a passing moderation clears the whole asset. *)
PatchedMutant(a, t, outcome, result) ==
    CASE IsUnsafe(t, outcome, result) ->
            [a EXCEPT !.status = "BLOCKED", !.moderation = "BLOCKED"]
      [] t = "CONTENT_MODERATION" /\ outcome # "FAILED" /\ result = "passed" ->
            [a EXCEPT !.status = "READY_FOR_PREVIEW", !.moderation = "PASSED"]
      [] OTHER -> a

Patched(a, t, outcome, result) ==
    CASE IsUnsafe(t, outcome, result) ->
            [a EXCEPT !.status = "BLOCKED", !.moderation = "BLOCKED"]
      [] t = "TRANSFORM" ->
            [a EXCEPT !.transform = IF outcome = "FAILED" THEN "FAILED" ELSE result]
      [] t = "CONTENT_MODERATION" /\ outcome # "FAILED" /\ result = "passed" ->
            [a EXCEPT !.moderation = "PASSED"]
      [] OTHER -> a

NeedsCase(t, outcome, result) ==
    outcome = "FAILED" \/ result \in {"unsafe", "FAILED"}

(* presentUserFacingMediaReview answers READY. *)
IsPublic(a) ==
    /\ a.status \notin {"NONE", "BLOCKED", "ARCHIVED"}
    /\ a.moderation = "PASSED"
    /\ a.transform \in {"READY", "NOT_REQUIRED"}
-----------------------------------------------------------------------------
Init ==
    /\ job = [t \in AllTypes |-> NoJob]
    /\ asset = [draft |-> NoAsset, read |-> NoAsset, live |-> NoAsset]
    /\ cases = <<>>
    /\ run = [r \in Runs |-> Idle]
    /\ overlaps = 0 /\ shared = FALSE /\ faults = 0

(* Media is attached to a draft with what the moderation and transform     *)
(* adapters say at once; then the jobs are queued, in two transactions     *)
(* side by side, either of which may not come about.                       *)
Attach ==
    /\ asset.draft = NoAsset
    /\ \E m \in {"PASSED", "PENDING"}, x \in {"PENDING", "READY"} :
          asset' = [asset EXCEPT !.draft = [status |-> "READY_FOR_PREVIEW",
                                            moderation |-> m, transform |-> x]]
    /\ UNCHANGED <<job, cases, run, counters>>

Enqueued == {t \in AllTypes : job[t] # NoJob}

Enqueue(group) ==
    /\ asset.draft # NoAsset
    /\ \A t \in group : job[t] = NoJob
    /\ Cardinality(group \cup Enqueued) + overlaps <= MaxJobs
    /\ job' = [t \in AllTypes |->
                  IF t \in group THEN [NoJob EXCEPT !.status = "QUEUED"] ELSE job[t]]
    /\ UNCHANGED <<asset, cases, run, counters>>

(* Mutant: blocked media is listed too. *)
ReadMediaMutant ==
    /\ asset.read = NoAsset
    /\ asset.draft # NoAsset
    /\ asset' = [asset EXCEPT !.read = asset.draft]
    /\ UNCHANGED <<job, cases, run, counters>>

(* publishDraft lists the draft's media, which leaves out what is blocked  *)
(* (the publication followed is the one that comes to its end first) ...   *)
ReadMedia ==
    /\ asset.read = NoAsset
    /\ asset.draft.status = "READY_FOR_PREVIEW"
    /\ asset' = [asset EXCEPT !.read = asset.draft]
    /\ UNCHANGED <<job, cases, run, counters>>

(* ... and, awaits later, stores a copy of what it read as a new asset of  *)
(* the live owner; no job refers to the copy.                              *)
PublishDraft ==
    /\ asset.read # NoAsset
    /\ asset.live = NoAsset
    /\ asset' = [asset EXCEPT !.live = [asset.read EXCEPT !.status = "LIVE"]]
    /\ UNCHANGED <<job, cases, run, counters>>
-----------------------------------------------------------------------------
(* The worker.                                                             *)

At(r, pc) == run[r].pc = pc
Set(r, k) == run' = [run EXCEPT ![r] = k]
Goto(r, pc) == Set(r, [run[r] EXCEPT !.pc = pc])
NextJob(r) == Goto(r, "work")  \* on to the next job of the batch

(* Is the job still running under the lock of the run's workerId? *)
Locked(r) == LET j == job[run[r].job] IN j.status = "RUNNING" /\ j.owner = run[r].id

(* claimQueuedJobs: the candidates, then each of them if it is still       *)
(* queued.                                                                 *)
FindCandidates(r) ==
    /\ At(r, "idle")
    /\ IF \A s \in Runs \ {r} : At(s, "idle") THEN UNCHANGED overlaps
       ELSE /\ overlaps < MaxOverlaps /\ Cardinality(Enqueued) + overlaps < MaxJobs
            /\ overlaps' = overlaps + 1
    /\ \E todo \in SUBSET {t \in AllTypes : job[t].status = "QUEUED"}, id \in WorkerIds[r] :
          /\ todo # {}
          /\ shared' = (shared \/ \E s \in Runs : run[s].id = id)
          /\ Set(r, [Idle EXCEPT !.pc = "claim", !.id = id, !.todo = todo])
    /\ UNCHANGED <<job, asset, cases, faults>>

(* Mutant: the claim does not ask whether the job is still queued. *)
ClaimMutant(r) ==
    /\ At(r, "claim")
    /\ \E t \in run[r].todo :
          /\ job' = [job EXCEPT ![t] = [@ EXCEPT !.status = "RUNNING", !.owner = run[r].id,
                                                 !.attempts = @ + 1]]
          /\ Set(r, [run[r] EXCEPT !.todo = @ \ {t}, !.mine = @ \cup {t}])
    /\ UNCHANGED <<asset, cases, counters>>

(* Mutant: an attempt is not counted. *)
ClaimUncountedMutant(r) ==
    /\ At(r, "claim")
    /\ \E t \in run[r].todo :
          IF job[t].status = "QUEUED"
          THEN /\ job' = [job EXCEPT ![t] = [@ EXCEPT !.status = "RUNNING", !.owner = run[r].id]]
               /\ Set(r, [run[r] EXCEPT !.todo = @ \ {t}, !.mine = @ \cup {t}])
          ELSE /\ Set(r, [run[r] EXCEPT !.todo = @ \ {t}])
               /\ UNCHANGED job
    /\ UNCHANGED <<asset, cases, counters>>

Claim(r) ==
    /\ At(r, "claim")
    /\ \E t \in run[r].todo :
          IF job[t].status = "QUEUED"
          THEN /\ job' = [job EXCEPT ![t] = [status |-> "RUNNING", owner |-> run[r].id,
                                             attempts |-> job[t].attempts + 1,
                                             result |-> job[t].result]]
               /\ Set(r, [run[r] EXCEPT !.todo = @ \ {t}, !.mine = @ \cup {t}])
          ELSE /\ Set(r, [run[r] EXCEPT !.todo = @ \ {t}])
               /\ UNCHANGED job
    /\ UNCHANGED <<asset, cases, counters>>

Claimed(r) ==
    /\ At(r, "claim")
    /\ run[r].todo = {}
    /\ NextJob(r)
    /\ UNCHANGED <<job, asset, cases, counters>>

(* The processor answers, refuses for good, or asks for another try (as a  *)
(* processor that throws does).                                            *)
Process(r) ==
    /\ At(r, "work")
    /\ \E t \in run[r].mine :
          LET next == [Idle EXCEPT !.id = run[r].id, !.mine = run[r].mine \ {t}, !.job = t] IN
          \/ \E result \in Results(t) :
                Set(r, [next EXCEPT !.pc = "complete", !.result = result])
          \/ \E retry, caught \in BOOLEAN :
                Set(r, [next EXCEPT !.pc = "fail.find",
                                    !.retry = retry \/ caught, !.caught = caught])
    /\ UNCHANGED <<job, asset, cases, counters>>

Finish(r) ==
    /\ At(r, "work")
    /\ run[r].mine = {}
    /\ Set(r, Idle)
    /\ UNCHANGED <<job, asset, cases, counters>>

(* Mutant: the outcome of a job that succeeds is not published. *)
CompleteMutant(r) ==
    /\ At(r, "complete")
    /\ NextJob(r)
    /\ IF Locked(r)
       THEN job' = [job EXCEPT ![run[r].job] =
                 [status |-> "SUCCEEDED", owner |-> "nobody",
                  attempts |-> job[run[r].job].attempts, result |-> run[r].result]]
       ELSE UNCHANGED job
    /\ UNCHANGED <<asset, cases, counters>>

(* completeJob *)
Complete(r) ==
    /\ At(r, "complete")
    /\ IF Locked(r)
       THEN /\ job' = [job EXCEPT ![run[r].job] =
                 [status |-> "SUCCEEDED", owner |-> "nobody",
                  attempts |-> job[run[r].job].attempts, result |-> run[r].result]]
            /\ Set(r, [run[r] EXCEPT !.pc = "patch", !.outcome = "SUCCEEDED"])
       ELSE NextJob(r) /\ UNCHANGED job
    /\ UNCHANGED <<asset, cases, counters>>

(* Mutant: one attempt too many. *)
FailFindMutant(r) ==
    /\ At(r, "fail.find")
    /\ IF Locked(r)
       THEN Set(r, [run[r] EXCEPT !.pc = "fail.write",
                       !.retry = @ /\ job[run[r].job].attempts <= MaxAttempts])
       ELSE NextJob(r)
    /\ UNCHANGED <<job, asset, cases, counters>>

(* failJob: the decision to retry is made on a first read; the answer is a *)
(* second read, after the write, and anything but QUEUED in it counts as a *)
(* final failure.                                                          *)
FailFind(r) ==
    /\ At(r, "fail.find")
    /\ IF Locked(r)
       THEN Set(r, [run[r] EXCEPT !.pc = "fail.write",
                       !.retry = @ /\ job[run[r].job].attempts < MaxAttempts])
       ELSE NextJob(r)
    /\ UNCHANGED <<job, asset, cases, counters>>

FailWrite(r) ==
    /\ At(r, "fail.write")
    /\ IF Locked(r)
       THEN /\ job' = [job EXCEPT ![run[r].job] =
                 [status |-> IF run[r].retry THEN "QUEUED" ELSE "FAILED",
                  owner |-> "nobody", attempts |-> job[run[r].job].attempts,
                  result |-> job[run[r].job].result]]
            /\ Goto(r, "fail.read")
       ELSE NextJob(r) /\ UNCHANGED job
    /\ UNCHANGED <<asset, cases, counters>>

FailRead(r) ==
    /\ At(r, "fail.read")
    /\ IF job[run[r].job].status = "QUEUED"
       THEN NextJob(r)
       ELSE Set(r, [run[r] EXCEPT !.pc = "patch", !.outcome = "FAILED"])
    /\ UNCHANGED <<job, asset, cases, counters>>

(* The publisher patches the asset the job names, then looks for an open   *)
(* case of the same job, then creates one.                                 *)
Patch(r) ==
    /\ At(r, "patch")
    /\ asset' = [asset EXCEPT
          !.draft = Patched(@, run[r].job, run[r].outcome, run[r].result)]
    /\ IF NeedsCase(run[r].job, run[r].outcome, run[r].result)
       THEN Goto(r, "case.find") ELSE NextJob(r)
    /\ UNCHANGED <<job, cases, counters>>

CaseFind(r) ==
    /\ At(r, "case.find")
    /\ IF \E i \in DOMAIN cases : cases[i].job = run[r].job /\ cases[i].status = "OPEN"
       THEN NextJob(r) ELSE Goto(r, "case.create")
    /\ UNCHANGED <<job, asset, cases, counters>>

CaseCreate(r) ==
    /\ At(r, "case.create")
    /\ Len(cases) < MaxCases
    /\ cases' = Append(cases, [job |-> run[r].job, status |-> "OPEN"])
    /\ NextJob(r)
    /\ UNCHANGED <<job, asset, counters>>

Fault == faults < MaxFaults /\ faults' = faults + 1

(* A database call throws.  Inside the try of the loop it is answered by   *)
(* failJob, retryable; from there the run itself ends, batch and all.      *)
Throw(r) ==
    /\ Fault
    /\ run[r].pc \in {"claim", "complete", "fail.find", "fail.write", "fail.read",
                      "patch", "case.find", "case.create"}
    /\ IF run[r].caught \/ At(r, "claim") THEN Set(r, Idle)
       ELSE Set(r, [run[r] EXCEPT !.pc = "fail.find", !.retry = TRUE, !.caught = TRUE])
    /\ UNCHANGED <<job, asset, cases, overlaps, shared>>

Crash(r) ==
    /\ ~At(r, "idle")
    /\ Fault
    /\ Set(r, Idle)
    /\ UNCHANGED <<job, asset, cases, overlaps, shared>>
-----------------------------------------------------------------------------
(* Moderators: both are conditional on the status the case has, and none   *)
(* of them touches the asset.                                              *)
ResolveCase(i) ==
    /\ cases[i].status = "OPEN"
    /\ \E status \in {"RESOLVED", "ESCALATED", "DISMISSED"} :
          cases' = [cases EXCEPT ![i].status = status]
    /\ UNCHANGED <<job, asset, run, counters>>

ReopenCase(i) ==
    /\ cases[i].status = "DISMISSED"
    /\ cases' = [cases EXCEPT ![i].status = "OPEN"]
    /\ UNCHANGED <<job, asset, run, counters>>
-----------------------------------------------------------------------------
Uploads == \/ Attach \/ ReadMedia \/ PublishDraft
           \/ Enqueue(Types \ {"TRANSFORM"}) \/ Enqueue(Types \cap {"TRANSFORM"})

Step(r) == \/ Claim(r) \/ Claimed(r) \/ Process(r) \/ Finish(r)
           \/ Complete(r) \/ FailFind(r) \/ FailWrite(r) \/ FailRead(r)
           \/ Patch(r) \/ CaseFind(r) \/ CaseCreate(r)

Worker(r) == FindCandidates(r) \/ Step(r) \/ Throw(r) \/ Crash(r)

Moderators == \E i \in DOMAIN cases : ResolveCase(i) \/ ReopenCase(i)

Next == Uploads \/ (\E r \in Runs : Worker(r)) \/ Moderators

(* A run that has started goes on, and the scheduler starts runs again and *)
(* again that ask for every type.                                          *)
AskForAll(r) ==
    FindCandidates(r)
    /\ run'[r].todo = {t \in AllTypes : job[t].status = "QUEUED"}

Spec == Init /\ [][Next]_vars
FairSpec == Spec /\ \A r \in Runs : WF_vars(Step(r)) /\ WF_vars(AskForAll(r))
-----------------------------------------------------------------------------
(* Properties.                                                             *)

Pcs == {"idle", "claim", "work", "complete", "fail.find", "fail.write", "fail.read",
        "patch", "case.find", "case.create"}
AllResults == {"none"} \cup UNION {Results(t) : t \in AllTypes}
Owners == {"nobody"} \cup UNION {WorkerIds[r] : r \in Runs}

JobRows == [status : {"NONE", "QUEUED", "RUNNING", "SUCCEEDED", "FAILED"},
            attempts : Nat, owner : Owners, result : AllResults]
RunStates == [pc : Pcs, id : Owners, todo : SUBSET AllTypes, mine : SUBSET AllTypes,
              job : AllTypes \cup {"none"}, outcome : {"none", "SUCCEEDED", "FAILED"},
              result : AllResults, retry : BOOLEAN, caught : BOOLEAN]
Assets == [status : {"NONE", "READY_FOR_PREVIEW", "LIVE", "BLOCKED"},
           moderation : {"NONE", "PENDING", "PASSED", "BLOCKED"},
           transform : {"NONE", "PENDING", "READY", "FAILED", "NOT_REQUIRED"}]

TypeOK ==
    /\ job \in [AllTypes -> JobRows]
    /\ run \in [Runs -> RunStates]
    /\ asset \in [draft : Assets, read : Assets, live : Assets]

(* The run has the job before it, or is about to write how it ended; a run *)
(* that only cleans up after a throw does not work on the job any more.    *)
Works(r, t) == \/ t \in run[r].mine
               \/ /\ run[r].job = t
                  /\ ~run[r].caught
                  /\ run[r].pc \in {"complete", "fail.find", "fail.write"}

(* A job is worked on by one run at a time (the conditional update of      *)
(* claimQueuedJobs, the lock completeJob and failJob ask for).             *)
OneWorkerPerJob ==
    \A t \in AllTypes : \A r, s \in Runs : Works(r, t) /\ Works(s, t) => r = s

(* A job is tried at most maxAttempts times, and one that is queued again  *)
(* has an attempt left (failJob).                                          *)
AttemptLeft ==
    \A t \in AllTypes : /\ job[t].attempts <= MaxAttempts
                        /\ job[t].status = "QUEUED" => job[t].attempts < MaxAttempts

(* A run works alone on a job, and counts the try, as long as no run began *)
(* with the workerId of another in progress; and with one workerId for     *)
(* them all, as the scheduler has it, as long as none died or had a call   *)
(* throw: the lock then tells no run from another, but the claim does.     *)
LockHolds == ~shared \/ faults = 0 => OneWorkerPerJob /\ AttemptLeft

(* Media that is blocked stays blocked: no later result of another job,    *)
(* in whatever order they arrive, brings it back (the patches of the       *)
(* publisher set the asset status only to BLOCKED).                        *)
BlockedIsFinal ==
    [][asset.draft.status = "BLOCKED" => asset'.draft.status = "BLOCKED"]_vars

(* One run came after the other and none died or met an error. *)
Undisturbed == overlaps = 0 /\ faults = 0

(* Media is blocked only for an unsafe result or a final failure: a try    *)
(* that is repeated blocks nothing (failJob's answer, applyDecision).      *)
BlockIsEarned ==
    asset.draft.status = "BLOCKED" =>
        \E t \in AllTypes \ {"TRANSFORM"} :
            job[t].status = "FAILED" \/ job[t].result = "unsafe"

(* Once a run is done with a job, its verdict has arrived: a scan or       *)
(* moderation that failed for good or found the media unsafe has blocked   *)
(* it (the publication fails closed), and a job has one review case if it  *)
(* ended badly and none otherwise, a try that is repeated included.  A run *)
(* that dies first leaves the media unblocked.                             *)
VerdictArrives ==
    \A t \in AllTypes :
        (\A r \in Runs : run[r].job # t) =>
            LET bad == /\ job[t].status \in {"SUCCEEDED", "FAILED"}
                       /\ NeedsCase(t, job[t].status, job[t].result)
            IN  /\ bad /\ t # "TRANSFORM" => asset.draft.status = "BLOCKED"
                /\ Cardinality({i \in DOMAIN cases : cases[i].job = t}) = IF bad THEN 1 ELSE 0

(* What the jobs found is what is published, as long as no run begins      *)
(* during another: no block without its reason, whatever dies, and no      *)
(* verdict lost unless a run dies.                                         *)
VerdictIsPublished ==
    /\ overlaps = 0 => BlockIsEarned
    /\ Undisturbed => VerdictArrives

(* Media that is blocked before publishDraft lists it never reaches the    *)
(* public (the list leaves it out, and nothing unblocks it).  What is      *)
(* blocked later does: the copy is of the media as it was read.            *)
BlockedIsNotPublic ==
    [](asset.draft.status = "BLOCKED" /\ asset.read = NoAsset
           => []~IsPublic(asset.live))

(* A block holds: nothing lifts it, and what it holds back stays unpublished. *)
BlockStands == BlockedIsFinal /\ BlockedIsNotPublic

(* Every queued job is finished in the end, unless a run died or met an    *)
(* error: the durable outbox does not lose it.                              *)
JobsFinish ==
    \A t \in AllTypes :
        job[t].status = "QUEUED" ~> \/ job[t].status \in {"SUCCEEDED", "FAILED"}
                                   \/ faults > 0
=============================================================================
