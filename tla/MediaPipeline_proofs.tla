------------------------- MODULE MediaPipeline_proofs -------------------------
(***************************************************************************)
(* Theorems about the media pipeline, for any number of runs, crashes and  *)
(* throws: runs that lock with their own workerId exclude each other and   *)
(* count the attempts; media that is blocked stays blocked whatever they   *)
(* do; and while no run begins during another, every block has its reason  *)
(* and every verdict arrives.  And about the source alerts: an alert is    *)
(* told of once, whatever overlaps, and decisions of operations that come  *)
(* one at a time stand.  And about review cases: of racing moderators one  *)
(* decides, and playbook, note and audit are of that decision.             *)
(***************************************************************************)
EXTENDS MediaPipeline, MediaReview, SourceAlerts, FiniteSetTheorems, WellFoundedInduction, TLAPS

USE DEF AllTypes, Pcs

(* Rows and locals keep their types. *)
Typed == job \in [AllTypes -> JobRows] /\ run \in [Runs -> RunStates]

LEMMA ResultTypes == \A t \in AllTypes : Results(t) \subseteq AllResults
  BY DEF AllResults

LEMMA NoneIsResult == "none" \in AllResults
  BY DEF AllResults

(* A run step that writes only its own locals. *)
LEMMA SetTyped ==
    ASSUME Typed, NEW r \in Runs, NEW k \in RunStates, Set(r, k)
    PROVE  run' \in [Runs -> RunStates] /\ run'[r] = k
           /\ \A s \in Runs : s # r => run'[s] = run[s]
  BY DEF Typed, Set

LEMMA NobodyOwns == "nobody" \in Owners
  BY DEF Owners

LEMMA IdleTyped == Idle \in RunStates
  BY NoneIsResult, NobodyOwns DEF Idle, RunStates

LEMMA FreeRow == NoJob \in JobRows
  BY NoneIsResult, NobodyOwns DEF NoJob, JobRows

(* A write of one job row; outside the types nothing is written. *)
LEMMA JobTyped ==
    ASSUME Typed, NEW t, NEW row, t \in AllTypes => row \in JobRows
    PROVE  [job EXCEPT ![t] = row] \in [AllTypes -> JobRows]
  BY DEF Typed

(* What each step of a run leaves of its locals and of the job rows.       *)
LEMMA TypedInvariant == Spec => []Typed
<1>1. Init => Typed
  BY IdleTyped, FreeRow DEF Init, Typed
<1>2. Typed /\ [Next]_vars => Typed'
  <2> SUFFICES ASSUME Typed, [Next]_vars PROVE Typed'
    OBVIOUS
  <2>1. CASE Uploads
    <3>1. run' = run
      BY <2>1 DEF Uploads, Attach, Enqueue, ReadMedia, PublishDraft
    <3>2. [NoJob EXCEPT !.status = "QUEUED"] \in JobRows
      BY FreeRow DEF JobRows, NoJob
    <3>3. job' \in [AllTypes -> JobRows]
      BY <2>1, <3>2 DEF Uploads, Attach, Enqueue, ReadMedia, PublishDraft, Typed
    <3> QED BY <3>1, <3>3 DEF Typed
  <2>2. ASSUME NEW r \in Runs, Worker(r) PROVE Typed'
    <3> USE IdleTyped, NoneIsResult, ResultTypes, SetTyped
    <3> DEFINE me == run[r]
    <3>0. me \in RunStates
      BY DEF Typed
    <3>1. \A pc \in Pcs : [me EXCEPT !.pc = pc] \in RunStates
      BY <3>0 DEF RunStates
    <3>2. CASE FindCandidates(r)
      <4>1. PICK todo \in SUBSET AllTypes, id \in WorkerIds[r] :
              Set(r, [Idle EXCEPT !.pc = "claim", !.id = id, !.todo = todo])
        BY <3>2 DEF FindCandidates
      <4>2. id \in Owners
        BY DEF Owners
      <4>3. [Idle EXCEPT !.pc = "claim", !.id = id, !.todo = todo] \in RunStates
        BY <4>2 DEF RunStates, Idle
      <4> QED BY <3>2, <4>1, <4>3 DEF FindCandidates, Typed
    <3>3. CASE Claim(r)
      <4>1. PICK t \in me.todo :
              IF job[t].status = "QUEUED"
              THEN /\ job' = [job EXCEPT ![t] = [status |-> "RUNNING", owner |-> run[r].id,
                                                 attempts |-> job[t].attempts + 1,
                                                 result |-> job[t].result]]
                   /\ Set(r, [me EXCEPT !.todo = @ \ {t}, !.mine = @ \cup {t}])
              ELSE Set(r, [me EXCEPT !.todo = @ \ {t}]) /\ UNCHANGED job
        BY <3>3 DEF Claim
      <4>2. t \in AllTypes
        BY <3>0 DEF RunStates
      <4>3. [me EXCEPT !.todo = @ \ {t}, !.mine = @ \cup {t}] \in RunStates
        BY <3>0, <4>2 DEF RunStates
      <4>4. [me EXCEPT !.todo = @ \ {t}] \in RunStates
        BY <3>0 DEF RunStates
      <4>5. [status |-> "RUNNING", owner |-> run[r].id, attempts |-> job[t].attempts + 1,
             result |-> job[t].result] \in JobRows
        BY <3>0, <4>2 DEF Typed, JobRows, RunStates
      <4>6. CASE job[t].status = "QUEUED"
        <5>1. job' \in [AllTypes -> JobRows]
          BY <4>1, <4>5, <4>6, JobTyped
        <5> QED BY <4>1, <4>3, <4>6, <5>1 DEF Typed
      <4> QED BY <4>1, <4>4, <4>6 DEF Typed
    <3>4. CASE Claimed(r) \/ (FailRead(r) /\ job[me.job].status = "QUEUED")
      BY <3>0, <3>1, <3>4 DEF Claimed, FailRead, NextJob, Goto, Typed
    <3>5. CASE Process(r)
      <4>1. PICK t \in me.mine :
              LET next == [Idle EXCEPT !.id = me.id, !.mine = me.mine \ {t}, !.job = t] IN
              \/ \E result \in Results(t) :
                    Set(r, [next EXCEPT !.pc = "complete", !.result = result])
              \/ \E retry, caught \in BOOLEAN :
                    Set(r, [next EXCEPT !.pc = "fail.find",
                                        !.retry = retry \/ caught, !.caught = caught])
        BY <3>5 DEF Process
      <4>2. t \in AllTypes
        BY <3>0 DEF RunStates
      <4> DEFINE next == [Idle EXCEPT !.id = me.id, !.mine = me.mine \ {t}, !.job = t]
      <4>3. next \in RunStates
        BY <3>0, <4>2 DEF RunStates, Idle
      <4>4. \A x \in AllResults : [next EXCEPT !.pc = "complete", !.result = x] \in RunStates
        BY <4>3 DEF RunStates
      <4>5. \A x, y \in BOOLEAN :
               [next EXCEPT !.pc = "fail.find", !.retry = x, !.caught = y] \in RunStates
        BY <4>3 DEF RunStates
      <4> HIDE DEF next
      <4>6. CASE \E result \in Results(t) :
                    Set(r, [next EXCEPT !.pc = "complete", !.result = result])
        BY <3>5, <4>2, <4>4, <4>6 DEF Process, Typed
      <4>7. CASE \E retry, caught \in BOOLEAN :
                    Set(r, [next EXCEPT !.pc = "fail.find",
                                        !.retry = retry \/ caught, !.caught = caught])
        <5>1. PICK retry \in BOOLEAN, caught \in BOOLEAN :
                Set(r, [next EXCEPT !.pc = "fail.find",
                                    !.retry = retry \/ caught, !.caught = caught])
          BY <4>7, Zenon
        <5>2. [next EXCEPT !.pc = "fail.find",
                           !.retry = retry \/ caught, !.caught = caught] \in RunStates
          BY <4>5
        <5> QED BY <3>5, <5>1, <5>2 DEF Process, Typed
      <4> QED BY <4>1, <4>6, <4>7 DEF next
    <3>6. CASE Finish(r) \/ Crash(r)
      BY <3>6 DEF Finish, Crash, Typed
    <3>7. CASE Complete(r)
      <4>1. CASE Locked(r)
        <5>1. me.job \in AllTypes =>
                 [status |-> "SUCCEEDED", owner |-> "nobody",
                  attempts |-> job[me.job].attempts, result |-> me.result] \in JobRows
          BY <3>0, NobodyOwns DEF Typed, JobRows, RunStates
        <5>2. [me EXCEPT !.pc = "patch", !.outcome = "SUCCEEDED"] \in RunStates
          BY <3>0 DEF RunStates
        <5>4. job' \in [AllTypes -> JobRows]
          BY <3>7, <4>1, <5>1, JobTyped DEF Complete
        <5> QED BY <3>7, <4>1, <5>2, <5>4 DEF Complete, Typed
      <4> QED BY <3>1, <3>7, <4>1 DEF Complete, NextJob, Goto, Typed
    <3>8. CASE FailFind(r)
      <4>1. [me EXCEPT !.pc = "fail.write",
                !.retry = @ /\ job[me.job].attempts < MaxAttempts] \in RunStates
        BY <3>0 DEF RunStates
      <4> QED BY <3>1, <3>8, <4>1 DEF FailFind, NextJob, Goto, Typed
    <3>9. CASE FailWrite(r)
      <4>1. CASE Locked(r)
        <5>1. \A x \in {"QUEUED", "FAILED"} : me.job \in AllTypes =>
                 [status |-> x, owner |-> "nobody", attempts |-> job[me.job].attempts,
                  result |-> job[me.job].result] \in JobRows
          BY NobodyOwns DEF Typed, JobRows
        <5>2. PICK x \in {"QUEUED", "FAILED"} :
                job' = [job EXCEPT ![me.job] =
                 [status |-> x, owner |-> "nobody", attempts |-> job[me.job].attempts,
                  result |-> job[me.job].result]]
          BY <3>9, <4>1 DEF FailWrite
        <5>3. job' \in [AllTypes -> JobRows]
          BY <5>1, <5>2, JobTyped
        <5> QED BY <3>1, <3>9, <4>1, <5>3 DEF FailWrite, Goto, Typed
      <4> QED BY <3>1, <3>9, <4>1 DEF FailWrite, NextJob, Goto, Typed
    <3>10. CASE FailRead(r) /\ job[me.job].status # "QUEUED"
      <4>1. [me EXCEPT !.pc = "patch", !.outcome = "FAILED"] \in RunStates
        BY <3>0 DEF RunStates
      <4> QED BY <3>10, <4>1 DEF FailRead, Typed
    <3>11. CASE Patch(r) \/ CaseFind(r) \/ CaseCreate(r)
      BY <3>1, <3>11 DEF Patch, CaseFind, CaseCreate, NextJob, Goto, Typed
    <3>12. CASE Throw(r)
      <4>1. [me EXCEPT !.pc = "fail.find", !.retry = TRUE, !.caught = TRUE] \in RunStates
        BY <3>0 DEF RunStates
      <4>2. run' \in [Runs -> RunStates]
        BY <3>12, <4>1 DEF Throw
      <4> QED BY <3>12, <4>2 DEF Throw, Typed
    <3>13. CASE FailRead(r)
      BY <3>4, <3>10, <3>13
    <3>14. CASE Step(r)
      BY <3>3, <3>4, <3>5, <3>6, <3>7, <3>8, <3>9, <3>11, <3>13, <3>14 DEF Step
    <3> QED BY <2>2, <3>2, <3>6, <3>12, <3>14 DEF Worker
  <2>3. CASE Moderators \/ UNCHANGED vars
    BY <2>3 DEF Moderators, ResolveCase, ReopenCase, vars, Typed
  <2> QED BY <2>1, <2>2, <2>3 DEF Next
<1> QED BY <1>1, <1>2, PTL DEF Spec
-----------------------------------------------------------------------------
(* Why a run works alone: whoever works on a job owns its row, only a run  *)
(* that gives the owner's workerId ends or requeues it, and while no call  *)
(* throws such a run is the one that claimed it.                           *)
SoundLocals(k) ==
    /\ k.job \notin k.mine
    /\ k.pc = "idle" => k.mine = {}
    /\ k.pc \in {"idle", "claim"} => k.job = "none"
    /\ k.pc \notin {"idle", "claim", "work"} => k.job \in AllTypes
    /\ k.pc = "complete" \/ (k.pc = "patch" /\ k.outcome # "FAILED")
          => k.result \in Results(k.job)

Local == \A r \in Runs : SoundLocals(run[r])

LEMMA LocalInvariant == Spec => []Local
<1>1. Init => Local
  BY DEF Init, Local, Idle, SoundLocals
<1>2. Typed /\ Local /\ [Next]_vars => Local'
  <2> SUFFICES ASSUME Typed, Local, [Next]_vars PROVE Local'
    OBVIOUS
  <2>1. ASSUME NEW r \in Runs, Worker(r) PROVE Local'
    <3> DEFINE me == run[r]
    <3>0. me \in RunStates /\ SoundLocals(me)
      BY DEF Typed, Local
    <3>1. ASSUME NEW k, Set(r, k), SoundLocals(k) PROVE Local'
      BY <3>1 DEF Set, Typed, Local
    <3>2. SoundLocals([me EXCEPT !.pc = "work"])
      BY <3>0 DEF RunStates, SoundLocals
    <3>3. SoundLocals(Idle)
      BY DEF Idle, SoundLocals
    <3> HIDE DEF me
    <3>4. CASE FindCandidates(r)
      <4>1. PICK todo, id : Set(r, [Idle EXCEPT !.pc = "claim", !.id = id, !.todo = todo])
        BY <3>4 DEF FindCandidates
      <4>2. SoundLocals([Idle EXCEPT !.pc = "claim", !.id = id, !.todo = todo])
        BY DEF Idle, SoundLocals
      <4> QED BY <3>1, <4>1, <4>2
    <3>5. CASE Claim(r)
      <4>1. me.pc = "claim" /\ me.job = "none"
        BY <3>0, <3>5 DEF Claim, At, me, SoundLocals
      <4>2. \A t \in me.todo :
               /\ SoundLocals([me EXCEPT !.todo = @ \ {t}, !.mine = @ \cup {t}])
               /\ SoundLocals([me EXCEPT !.todo = @ \ {t}])
        BY <3>0, <4>1 DEF RunStates, SoundLocals
      <4> QED BY <3>1, <3>5, <4>2 DEF Claim, me
    <3>6. CASE Process(r)
      <4>1. PICK t \in me.mine :
              LET next == [Idle EXCEPT !.id = me.id, !.mine = me.mine \ {t}, !.job = t] IN
              \/ \E result \in Results(t) :
                    Set(r, [next EXCEPT !.pc = "complete", !.result = result])
              \/ \E retry, caught \in BOOLEAN :
                    Set(r, [next EXCEPT !.pc = "fail.find",
                                        !.retry = retry \/ caught, !.caught = caught])
        BY <3>6 DEF Process, me
      <4> DEFINE next == [Idle EXCEPT !.id = me.id, !.mine = me.mine \ {t}, !.job = t]
      <4>2. t \in AllTypes
        BY <3>0 DEF RunStates
      <4>3. /\ \A x \in Results(t) : SoundLocals([next EXCEPT !.pc = "complete", !.result = x])
            /\ \A x, y : SoundLocals([next EXCEPT !.pc = "fail.find", !.retry = x, !.caught = y])
        BY <4>2 DEF Idle, SoundLocals
      <4> HIDE DEF next
      <4>4. CASE \E result \in Results(t) :
                    Set(r, [next EXCEPT !.pc = "complete", !.result = result])
        BY <3>1, <4>3, <4>4
      <4>5. CASE \E retry, caught \in BOOLEAN :
                    Set(r, [next EXCEPT !.pc = "fail.find",
                                        !.retry = retry \/ caught, !.caught = caught])
        BY <3>1, <4>3, <4>5, Zenon
      <4> QED BY <4>1, <4>4, <4>5 DEF next
    <3>7. CASE Complete(r)
      <4>1. SoundLocals([me EXCEPT !.pc = "patch", !.outcome = "SUCCEEDED"])
        BY <3>0, <3>7 DEF RunStates, SoundLocals, Complete, At, me
      <4> QED BY <3>1, <3>2, <3>7, <4>1 DEF Complete, NextJob, Goto, me
    <3>8. CASE FailFind(r)
      <4>1. \A x : SoundLocals([me EXCEPT !.pc = "fail.write", !.retry = x])
        BY <3>0, <3>8 DEF RunStates, SoundLocals, FailFind, At, me
      <4> QED BY <3>1, <3>2, <3>8, <4>1 DEF FailFind, NextJob, Goto, me
    <3>9. CASE FailWrite(r)
      <4>1. SoundLocals([me EXCEPT !.pc = "fail.read"])
        BY <3>0, <3>9 DEF RunStates, SoundLocals, FailWrite, At, me
      <4> QED BY <3>1, <3>2, <3>9, <4>1 DEF FailWrite, NextJob, Goto, me
    <3>10. CASE FailRead(r)
      <4>1. SoundLocals([me EXCEPT !.pc = "patch", !.outcome = "FAILED"])
        BY <3>0, <3>10 DEF RunStates, SoundLocals, FailRead, At, me
      <4> QED BY <3>1, <3>2, <3>10, <4>1 DEF FailRead, NextJob, Goto, me
    <3>11. CASE Patch(r) \/ CaseFind(r) \/ CaseCreate(r) \/ Claimed(r)
      <4>1. ~Claimed(r) => /\ SoundLocals([me EXCEPT !.pc = "case.find"])
                           /\ SoundLocals([me EXCEPT !.pc = "case.create"])
        BY <3>0, <3>11 DEF RunStates, SoundLocals, Patch, CaseFind, CaseCreate, At, me
      <4> QED BY <3>1, <3>2, <3>11, <4>1
              DEF Patch, CaseFind, CaseCreate, Claimed, NextJob, Goto, me
    <3>12. CASE Throw(r)
      <4>1. CASE me.caught \/ me.pc = "claim"
        BY <3>1, <3>3, <3>12, <4>1 DEF Throw, At, me
      <4>2. CASE ~me.caught /\ me.pc # "claim"
        <5>1. Set(r, [me EXCEPT !.pc = "fail.find", !.retry = TRUE, !.caught = TRUE])
          BY <3>12, <4>2 DEF Throw, At, me
        <5>2. me.job \in AllTypes
          BY <3>0, <3>12, <4>2 DEF Throw, SoundLocals, me
        <5>3. SoundLocals([me EXCEPT !.pc = "fail.find", !.retry = TRUE, !.caught = TRUE])
          BY <3>0, <5>2 DEF RunStates, SoundLocals
        <5> QED BY <3>1, <5>1, <5>3
      <4> QED BY <4>1, <4>2
    <3>13. CASE Finish(r) \/ Crash(r)
      BY <3>1, <3>3, <3>13 DEF Finish, Crash
    <3> QED BY <2>1, <3>4, <3>5, <3>6, <3>7, <3>8, <3>9, <3>10, <3>11, <3>12, <3>13
            DEF Worker, Step
  <2>2. CASE Uploads \/ Moderators \/ UNCHANGED vars
    BY <2>2 DEF Uploads, Attach, Enqueue, ReadMedia, PublishDraft, Moderators, ResolveCase, ReopenCase,
                vars, Local
  <2> QED BY <2>1, <2>2 DEF Next
<1> QED BY <1>1, <1>2, TypedInvariant, PTL DEF Spec
-----------------------------------------------------------------------------
(* What the lock is worth: it tells runs apart, or no call has thrown yet. *)
Trusted == faults = 0 \/ ~shared

(* The run has the job, or has yet to write how it ended; one that only    *)
(* cleans up after a throw counts as long as no database call threw.       *)
Standing(k, t) == \/ t \in k.mine
                  \/ /\ k.job = t /\ k.pc \in {"complete", "fail.find", "fail.write"}
                     /\ faults = 0 \/ ~k.caught

(* Whoever stands at a job owns its running row, alone; a row that is      *)
(* queued has an attempt left, and so has one about to be queued again.    *)
Locks ==
    Trusted =>
        /\ \A r \in Runs, t \in AllTypes :
              Standing(run[r], t) => job[t].status = "RUNNING" /\ job[t].owner = run[r].id
        /\ \A r, s \in Runs, t \in AllTypes :
              Standing(run[r], t) /\ Standing(run[s], t) => r = s
        /\ ~shared => \A r, s \in Runs :
              run[r].pc # "idle" /\ run[s].pc # "idle" /\ run[r].id = run[s].id => r = s
        /\ AttemptLeft
        /\ \A r \in Runs : run[r].pc = "fail.write" /\ run[r].retry /\ Locked(r)
                              => job[run[r].job].attempts < MaxAttempts

(* A run that finds its job locked by itself, and nobody else stands there. *)
LEMMA AloneAtJob ==
    ASSUME Local, Locks, Trusted, NEW r \in Runs, NEW s \in Runs, NEW t \in AllTypes,
           Locked(r), run[r].job = t, run[r].pc \in {"complete", "fail.find", "fail.write"},
           Standing(run[s], t)
    PROVE  s = r
<1>1. job[t].owner = run[r].id /\ job[t].owner = run[s].id
  BY DEF Locks, Locked
<1>2. run[s].pc # "idle"
  BY DEF Standing, Local, SoundLocals
<1>3. CASE faults = 0
  BY <1>3 DEF Standing, Locks
<1>4. CASE ~shared
  BY <1>1, <1>2, <1>4 DEF Locks
<1> QED BY <1>3, <1>4 DEF Trusted

(* A step that gives up work, or keeps it, and writes no row. *)
LEMMA KeptLocks ==
    ASSUME Typed, Locks, NEW r \in Runs, NEW k, Set(r, k), UNCHANGED <<job, shared>>,
           faults' = faults \/ faults' # 0,
           k = Idle \/ (k.id = run[r].id /\ run[r].pc # "idle"),
           \A t \in AllTypes : Standing(k, t)' => Standing(run[r], t),
           k.pc = "fail.write" /\ k.retry => job[k.job].attempts < MaxAttempts
    PROVE  Locks'
<1> SUFFICES ASSUME Trusted' PROVE Locks'
  BY DEF Locks
<1>1. Trusted
  BY DEF Trusted
<1>2. run'[r] = k /\ \A s \in Runs : s # r => run'[s] = run[s]
  BY DEF Set, Typed
<1>3. \A s \in Runs, t \in AllTypes : Standing(run[s], t)' => Standing(run[s], t)
  <2> SUFFICES ASSUME NEW s \in Runs, NEW t \in AllTypes, Standing(run[s], t)'
               PROVE  Standing(run[s], t)
    OBVIOUS
  <2>1. CASE s = r
    <3>1. Standing(k, t)'
      BY <1>2, <2>1 DEF Standing
    <3> QED BY <2>1, <3>1
  <2>2. CASE s # r
    BY <1>2, <2>2 DEF Standing
  <2> QED BY <2>1, <2>2
<1>4. \A s \in Runs : run'[s] = Idle \/ (run'[s].id = run[s].id /\ (run'[s].pc # "idle" => run[s].pc # "idle"))
  BY <1>2
<1>5. ASSUME NEW s \in Runs, NEW t \in AllTypes, Standing(run[s], t)'
      PROVE  job'[t].status = "RUNNING" /\ job'[t].owner = run'[s].id
  <2>1. Standing(run[s], t)
    BY <1>3, <1>5
  <2>2. job[t].status = "RUNNING" /\ job[t].owner = run[s].id
    BY <1>1, <2>1 DEF Locks
  <2>3. run'[s].id = run[s].id
    BY <1>4, <1>5 DEF Standing, Idle
  <2> QED BY <2>2, <2>3
<1>6. ASSUME NEW p \in Runs, NEW q \in Runs, NEW t \in AllTypes,
             Standing(run[p], t)', Standing(run[q], t)'
      PROVE  p = q
  BY <1>1, <1>3, <1>6 DEF Locks
<1>7. ~shared' => \A p, q \in Runs :
         run'[p].pc # "idle" /\ run'[q].pc # "idle" /\ run'[p].id = run'[q].id => p = q
  BY <1>1, <1>4 DEF Locks, Idle
<1>8. AttemptLeft'
  BY <1>1 DEF Locks, AttemptLeft
<1>9. ASSUME NEW s \in Runs, run'[s].pc = "fail.write", run'[s].retry, Locked(s)'
      PROVE  job'[run'[s].job].attempts < MaxAttempts
  BY <1>1, <1>2, <1>9 DEF Locks, Locked
<1> QED BY <1>5, <1>6, <1>7, <1>8, <1>9 DEF Locks

(* A run that owns the row of a job ends or requeues it. *)
LEMMA FinishedRow ==
    ASSUME Typed, Local, Locks, NEW r \in Runs, NEW t \in AllTypes, NEW k,
           Locked(r), run[r].job = t, run[r].pc \in {"complete", "fail.find", "fail.write"},
           UNCHANGED <<shared, faults>>,
           run'[r] = k, \A s \in Runs : s # r => run'[s] = run[s],
           k.pc # "fail.write", k.id = run[r].id,
           \A x \in AllTypes : Standing(k, x) => Standing(run[r], x) /\ x # t,
           job'[t].status # "RUNNING",
           job'[t].attempts = job[t].attempts,
           job'[t].status = "QUEUED" => job[t].attempts < MaxAttempts,
           \A x \in AllTypes : x # t => job'[x] = job[x]
    PROVE  Locks'
<1> SUFFICES ASSUME Trusted PROVE Locks'
  BY DEF Locks, Trusted
<1>1. ASSUME NEW s \in Runs, NEW x \in AllTypes, Standing(run[s], x)'
      PROVE  Standing(run[s], x) /\ x # t /\ run'[s].id = run[s].id
  <2>1. CASE s = r
    <3>1. Standing(k, x)
      BY <1>1, <2>1 DEF Standing
    <3> QED BY <2>1, <3>1
  <2>2. CASE s # r
    <3>1. Standing(run[s], x)
      BY <1>1, <2>2 DEF Standing
    <3> QED BY <2>2, <3>1, AloneAtJob
  <2> QED BY <2>1, <2>2
<1>2. ASSUME NEW s \in Runs, NEW x \in AllTypes, Standing(run[s], x)'
      PROVE  job'[x].status = "RUNNING" /\ job'[x].owner = run'[s].id
  BY <1>1, <1>2 DEF Locks
<1>3. ASSUME NEW p \in Runs, NEW q \in Runs, NEW x \in AllTypes,
             Standing(run[p], x)', Standing(run[q], x)'
      PROVE  p = q
  BY <1>1, <1>3 DEF Locks
<1>4. ~shared' => \A p, q \in Runs :
         run'[p].pc # "idle" /\ run'[q].pc # "idle" /\ run'[p].id = run'[q].id => p = q
  BY DEF Locks
<1>5. AttemptLeft'
  BY DEF AttemptLeft, Locks
<1>6. ASSUME NEW s \in Runs, run'[s].pc = "fail.write", run'[s].retry, Locked(s)'
      PROVE  job'[run'[s].job].attempts < MaxAttempts
  <2>1. s # r /\ run'[s] = run[s]
    BY <1>6
  <2>2. run[s].job \in AllTypes
    BY <1>6, <2>1 DEF Local, SoundLocals
  <2>3. run[s].job # t
    BY <1>6, <2>1 DEF Locked
  <2> QED BY <1>6, <2>1, <2>2, <2>3 DEF Locks, Locked
<1> QED BY <1>2, <1>3, <1>4, <1>5, <1>6 DEF Locks

(* A run begins: with a workerId of another in progress, or a new one. *)
LEMMA LocksBegin ==
    ASSUME Typed, Locks, NEW r \in Runs, FindCandidates(r)
    PROVE  Locks'
<1>1. PICK todo, id : /\ Set(r, [Idle EXCEPT !.pc = "claim", !.id = id, !.todo = todo])
                      /\ shared' = (shared \/ \E s \in Runs : run[s].id = id)
  BY DEF FindCandidates
<1>2. PICK k : k = [Idle EXCEPT !.pc = "claim", !.id = id, !.todo = todo]
  OBVIOUS
<1>3. k.pc = "claim" /\ k.id = id /\ k.mine = {}
  BY <1>2 DEF Idle
<1>4. run'[r] = k /\ \A s \in Runs : s # r => run'[s] = run[s]
  BY <1>1, <1>2 DEF Set, Typed
<1>5. job' = job /\ faults' = faults
  BY DEF FindCandidates
<1> SUFFICES ASSUME Trusted' PROVE Locks'
  BY DEF Locks
<1>6. Trusted
  BY <1>1, <1>5 DEF Trusted
<1>7. ASSUME NEW s \in Runs, NEW t \in AllTypes, Standing(run[s], t)'
      PROVE  s # r /\ Standing(run[s], t)
  <2>1. s # r
    BY <1>3, <1>4, <1>7 DEF Standing
  <2> QED BY <1>4, <1>5, <1>7, <2>1 DEF Standing
<1>8. ASSUME NEW s \in Runs, NEW t \in AllTypes, Standing(run[s], t)'
      PROVE  job'[t].status = "RUNNING" /\ job'[t].owner = run'[s].id
  BY <1>4, <1>5, <1>6, <1>7, <1>8 DEF Locks
<1>9. ASSUME NEW p \in Runs, NEW q \in Runs, NEW t \in AllTypes,
             Standing(run[p], t)', Standing(run[q], t)'
      PROVE  p = q
  BY <1>6, <1>7, <1>9 DEF Locks
<1>10. ASSUME ~shared', NEW p \in Runs, NEW q \in Runs,
              run'[p].pc # "idle", run'[q].pc # "idle", run'[p].id = run'[q].id
       PROVE  p = q
  <2>1. ~shared /\ \A s \in Runs : run[s].id # id
    BY <1>1, <1>10
  <2>2. p # r /\ q # r => p = q
    BY <1>4, <1>6, <1>10, <2>1 DEF Locks
  <2> QED BY <1>3, <1>4, <1>10, <2>1, <2>2
<1>11. AttemptLeft'
  BY <1>5, <1>6 DEF AttemptLeft, Locks
<1>12. ASSUME NEW s \in Runs, run'[s].pc = "fail.write", run'[s].retry, Locked(s)'
       PROVE  job'[run'[s].job].attempts < MaxAttempts
  <2>1. s # r
    BY <1>3, <1>4, <1>12
  <2> QED BY <1>4, <1>5, <1>6, <1>12, <2>1 DEF Locks, Locked
<1> QED BY <1>8, <1>9, <1>10, <1>11, <1>12 DEF Locks

(* A run claims a job that is still queued: nobody stands there. *)
LEMMA LocksClaim ==
    ASSUME Typed, Local, Locks, NEW r \in Runs, NEW t \in AllTypes, NEW k,
           run[r].pc = "claim", job[t].status = "QUEUED", UNCHANGED <<shared, faults>>,
           run'[r] = k, \A s \in Runs : s # r => run'[s] = run[s],
           k.pc = "claim", k.id = run[r].id,
           \A x \in AllTypes : Standing(k, x) => Standing(run[r], x) \/ x = t,
           job'[t].status = "RUNNING", job'[t].owner = run[r].id,
           job'[t].attempts = job[t].attempts + 1,
           \A x \in AllTypes : x # t => job'[x] = job[x]
    PROVE  Locks'
<1> SUFFICES ASSUME Trusted PROVE Locks'
  BY DEF Locks, Trusted
<1>1. \A s \in Runs : ~Standing(run[s], t)
  BY DEF Locks
<1>2. ASSUME NEW s \in Runs, NEW x \in AllTypes, Standing(run[s], x)'
      PROVE  (s = r /\ x = t) \/ (Standing(run[s], x) /\ x # t /\ run'[s].id = run[s].id)
  <2>1. CASE s = r
    <3>1. Standing(k, x)
      BY <1>2, <2>1 DEF Standing
    <3> QED BY <1>1, <2>1, <3>1
  <2>2. CASE s # r
    <3>1. Standing(run[s], x)
      BY <1>2, <2>2 DEF Standing
    <3> QED BY <1>1, <2>2, <3>1
  <2> QED BY <2>1, <2>2
<1>3. ASSUME NEW s \in Runs, NEW x \in AllTypes, Standing(run[s], x)'
      PROVE  job'[x].status = "RUNNING" /\ job'[x].owner = run'[s].id
  BY <1>2, <1>3 DEF Locks
<1>4. ASSUME NEW p \in Runs, NEW q \in Runs, NEW x \in AllTypes,
             Standing(run[p], x)', Standing(run[q], x)'
      PROVE  p = q
  BY <1>2, <1>4 DEF Locks
<1>5. ~shared' => \A p, q \in Runs :
         run'[p].pc # "idle" /\ run'[q].pc # "idle" /\ run'[p].id = run'[q].id => p = q
  BY DEF Locks
<1>6. AttemptLeft'
  <2>1. job[t].attempts \in Nat /\ job[t].attempts < MaxAttempts
    BY DEF Typed, JobRows, Locks, AttemptLeft
  <2> QED BY <2>1, AttemptsAssumption DEF AttemptLeft, Locks
<1>7. ASSUME NEW s \in Runs, run'[s].pc = "fail.write", run'[s].retry, Locked(s)'
      PROVE  job'[run'[s].job].attempts < MaxAttempts
  <2>1. s # r /\ run'[s] = run[s]
    BY <1>7
  <2>2. run[s].job \in AllTypes
    BY <1>7, <2>1 DEF Local, SoundLocals
  <2>3. ASSUME run[s].job = t PROVE FALSE
    <3>1. run[s].id = run[r].id
      BY <1>7, <2>1, <2>3 DEF Locked
    <3>2. CASE ~shared
      BY <1>7, <2>1, <3>1, <3>2 DEF Locks
    <3>3. CASE faults = 0
      BY <1>1, <1>7, <2>1, <2>3, <3>3 DEF Standing
    <3> QED BY <3>2, <3>3 DEF Trusted
  <2> QED BY <1>7, <2>1, <2>2, <2>3 DEF Locks, Locked
<1> QED BY <1>3, <1>4, <1>5, <1>6, <1>7 DEF Locks

Counted == faults \in Nat

LEMMA LocksInvariant == Spec => []Locks
<1>1. Init => Locks
  BY AttemptsAssumption DEF Init, Locks, Standing, AttemptLeft, Idle, NoJob
<1>2. Typed /\ Local /\ Counted /\ Locks /\ [Next]_vars => Locks'
  <2> SUFFICES ASSUME Typed, Local, Counted, Locks, [Next]_vars PROVE Locks'
    OBVIOUS
  <2>1. ASSUME NEW r \in Runs, Worker(r) PROVE Locks'
    <3> DEFINE me == run[r]
    <3>0. me \in RunStates /\ SoundLocals(me)
      BY DEF Typed, Local
    <3>1. ASSUME NEW k, Set(r, k), UNCHANGED <<job, shared, faults>>,
                 k = Idle \/ (k.id = me.id /\ me.pc # "idle"),
                 \A t \in AllTypes : Standing(k, t) => Standing(me, t),
                 k.pc = "fail.write" /\ k.retry => job[k.job].attempts < MaxAttempts
          PROVE  Locks'
      <4>1. \A t \in AllTypes : Standing(k, t)' => Standing(run[r], t)
        BY <3>1 DEF Standing
      <4> QED BY <3>1, <4>1, KeptLocks
    <3>2. /\ \A t : Standing([me EXCEPT !.pc = "work"], t) => Standing(me, t)
          /\ [me EXCEPT !.pc = "work"].id = me.id
      BY <3>0 DEF RunStates, Standing
    <3>3. \A t \in AllTypes : ~Standing(Idle, t)
      BY DEF Idle, Standing
    <3>4. [me EXCEPT !.pc = "work"].pc = "work" /\ Idle.pc = "idle"
      BY <3>0 DEF RunStates, Idle
    <3> HIDE DEF me
    <3>5. CASE FindCandidates(r)
      BY <3>5, LocksBegin
    <3>6. CASE Finish(r)
      BY <3>1, <3>3, <3>4, <3>6 DEF Finish, counters
    <3>7. CASE Claim(r)
      <4>1. PICK t \in me.todo :
              IF job[t].status = "QUEUED"
              THEN /\ job' = [job EXCEPT ![t] = [status |-> "RUNNING", owner |-> run[r].id,
                                                 attempts |-> job[t].attempts + 1,
                                                 result |-> job[t].result]]
                   /\ Set(r, [me EXCEPT !.todo = @ \ {t}, !.mine = @ \cup {t}])
              ELSE Set(r, [me EXCEPT !.todo = @ \ {t}]) /\ UNCHANGED job
        BY <3>7 DEF Claim, me
      <4>2. t \in AllTypes /\ me.pc = "claim" /\ UNCHANGED <<shared, faults>>
        BY <3>0, <3>7 DEF RunStates, Claim, At, me, counters
      <4>3. CASE job[t].status # "QUEUED"
        <5> DEFINE k == [me EXCEPT !.todo = @ \ {t}]
        <5>1. k.pc = "claim" /\ k.id = me.id /\ \A x : Standing(k, x) => Standing(me, x)
          BY <3>0, <4>2 DEF RunStates, Standing
        <5>2. Set(r, k) /\ UNCHANGED job
          BY <4>1, <4>3
        <5> HIDE DEF k
        <5> QED BY <3>1, <4>2, <5>1, <5>2
      <4>4. CASE job[t].status = "QUEUED"
        <5> DEFINE k == [me EXCEPT !.todo = @ \ {t}, !.mine = @ \cup {t}]
        <5>1. /\ k.pc = "claim" /\ k.id = me.id
              /\ \A x : Standing(k, x) => Standing(me, x) \/ x = t
          BY <3>0, <4>2 DEF RunStates, Standing
        <5>2. Set(r, k)
          BY <4>1, <4>4
        <5> HIDE DEF k
        <5>3. run'[r] = k /\ \A s \in Runs : s # r => run'[s] = run[s]
          BY <5>2 DEF Set, Typed
        <5>4. /\ job'[t].status = "RUNNING" /\ job'[t].owner = run[r].id
              /\ job'[t].attempts = job[t].attempts + 1
              /\ \A x \in AllTypes : x # t => job'[x] = job[x]
          BY <4>1, <4>2, <4>4 DEF Typed
        <5> QED BY <4>2, <4>4, <5>1, <5>3, <5>4, LocksClaim DEF me
      <4> QED BY <4>3, <4>4
    <3>8. CASE Process(r)
      <4>1. PICK t \in me.mine :
              LET next == [Idle EXCEPT !.id = me.id, !.mine = me.mine \ {t}, !.job = t] IN
              \/ \E result \in Results(t) :
                    Set(r, [next EXCEPT !.pc = "complete", !.result = result])
              \/ \E retry, caught \in BOOLEAN :
                    Set(r, [next EXCEPT !.pc = "fail.find",
                                        !.retry = retry \/ caught, !.caught = caught])
        BY <3>8 DEF Process, me
      <4> DEFINE next == [Idle EXCEPT !.id = me.id, !.mine = me.mine \ {t}, !.job = t]
      <4>2. \A x, y : LET k == [next EXCEPT !.pc = "complete", !.result = x] IN
               k.pc = "complete" /\ k.id = me.id /\ (Standing(k, y) => Standing(me, y))
        BY DEF Idle, Standing
      <4>3. \A x, y, z : LET k == [next EXCEPT !.pc = "fail.find", !.retry = x, !.caught = y] IN
               k.pc = "fail.find" /\ k.id = me.id /\ (Standing(k, z) => Standing(me, z))
        BY DEF Idle, Standing
      <4>6. me.pc = "work" /\ UNCHANGED <<job, shared, faults>>
        BY <3>8 DEF Process, At, me, counters
      <4> HIDE DEF next
      <4>4. CASE \E result \in Results(t) :
                    Set(r, [next EXCEPT !.pc = "complete", !.result = result])
        BY <3>1, <4>2, <4>4, <4>6
      <4>5. CASE \E retry, caught \in BOOLEAN :
                    Set(r, [next EXCEPT !.pc = "fail.find",
                                        !.retry = retry \/ caught, !.caught = caught])
        <5>1. PICK retry \in BOOLEAN, caught \in BOOLEAN :
                Set(r, [next EXCEPT !.pc = "fail.find",
                                    !.retry = retry \/ caught, !.caught = caught])
          BY <4>5, Zenon
        <5> DEFINE k == [next EXCEPT !.pc = "fail.find", !.retry = retry \/ caught, !.caught = caught]
        <5>2. k.pc = "fail.find" /\ k.id = me.id /\ \A z : Standing(k, z) => Standing(me, z)
          BY <4>3
        <5> HIDE DEF k
        <5> QED BY <3>1, <4>6, <5>1, <5>2 DEF k
      <4> QED BY <4>1, <4>4, <4>5 DEF next
    <3>9. CASE Complete(r)
      <4>0. /\ me.job \in AllTypes /\ me.job \notin me.mine /\ me.pc = "complete"
            /\ UNCHANGED <<shared, faults>>
        BY <3>0, <3>9 DEF SoundLocals, Complete, At, me, counters
      <4>1. CASE ~Locked(r)
        BY <3>1, <3>2, <3>4, <3>9, <4>0, <4>1 DEF Complete, NextJob, Goto, me
      <4>2. CASE Locked(r)
        <5> DEFINE t == me.job
        <5> DEFINE k == [me EXCEPT !.pc = "patch", !.outcome = "SUCCEEDED"]
        <5>1. k.pc = "patch" /\ k.id = me.id /\ \A x : Standing(k, x) => Standing(me, x) /\ x # t
          BY <3>0, <4>0 DEF RunStates, Standing
        <5>2. Set(r, k)
          BY <3>9, <4>2 DEF Complete, Goto, me
        <5> HIDE DEF k
        <5>3. run'[r] = k /\ \A s \in Runs : s # r => run'[s] = run[s]
          BY <5>2 DEF Set, Typed
        <5>4. /\ job'[t].status = "SUCCEEDED"
              /\ job'[t].attempts = job[t].attempts
              /\ \A x \in AllTypes : x # t => job'[x] = job[x]
          BY <3>9, <4>0, <4>2 DEF Complete, Typed, me
        <5> QED BY <4>0, <4>2, <5>1, <5>3, <5>4, FinishedRow DEF me
      <4> QED BY <4>1, <4>2
    <3>10. CASE FailFind(r)
      <4>0. me.pc = "fail.find" /\ UNCHANGED <<job, shared, faults>>
        BY <3>10 DEF FailFind, At, me, counters
      <4>1. CASE ~Locked(r)
        BY <3>1, <3>2, <3>4, <3>10, <4>0, <4>1 DEF FailFind, NextJob, Goto, me
      <4>2. CASE Locked(r)
        <5> DEFINE k == [me EXCEPT !.pc = "fail.write",
                                   !.retry = @ /\ job[me.job].attempts < MaxAttempts]
        <5>1. /\ \A x : Standing(k, x) => Standing(me, x)
              /\ k.job = me.job /\ k.id = me.id
          BY <3>0, <4>0 DEF RunStates, Standing
        <5>2. k.retry => job[me.job].attempts < MaxAttempts
          BY <3>0 DEF RunStates
        <5>3. Set(r, k)
          BY <3>10, <4>2 DEF FailFind, me
        <5> HIDE DEF k
        <5> QED BY <3>1, <4>0, <5>1, <5>2, <5>3
      <4> QED BY <4>1, <4>2
    <3>11. CASE FailWrite(r)
      <4>0. /\ me.job \in AllTypes /\ me.job \notin me.mine /\ me.pc = "fail.write"
            /\ UNCHANGED <<shared, faults>>
        BY <3>0, <3>11 DEF SoundLocals, FailWrite, At, me, counters
      <4>1. CASE ~Locked(r)
        BY <3>1, <3>2, <3>4, <3>11, <4>0, <4>1 DEF FailWrite, NextJob, Goto, me
      <4>2. CASE Locked(r)
        <5> DEFINE t == me.job
        <5> DEFINE k == [me EXCEPT !.pc = "fail.read"]
        <5>1. k.pc = "fail.read" /\ k.id = me.id /\ \A x : Standing(k, x) => Standing(me, x) /\ x # t
          BY <3>0, <4>0 DEF RunStates, Standing
        <5>2. Set(r, k)
          BY <3>11, <4>2 DEF FailWrite, Goto, me
        <5> HIDE DEF k
        <5>3. run'[r] = k /\ \A s \in Runs : s # r => run'[s] = run[s]
          BY <5>2 DEF Set, Typed
        <5>4. /\ job'[t].status \in {"QUEUED", "FAILED"}
              /\ job'[t].attempts = job[t].attempts
              /\ job'[t].status = "QUEUED" => me.retry
              /\ \A x \in AllTypes : x # t => job'[x] = job[x]
          BY <3>0, <3>11, <4>0, <4>2 DEF FailWrite, Typed, me
        <5>5. CASE Trusted
          <6>1. job'[t].status = "QUEUED" => job[t].attempts < MaxAttempts
            BY <4>0, <4>2, <5>4, <5>5 DEF Locks, me
          <6> QED BY <4>0, <4>2, <5>1, <5>3, <5>4, <6>1, FinishedRow DEF me
        <5>6. CASE ~Trusted
          BY <4>0, <5>6 DEF Locks, Trusted
        <5> QED BY <5>5, <5>6
      <4> QED BY <4>1, <4>2
    <3>12. CASE FailRead(r)
      <4> DEFINE k == [me EXCEPT !.pc = "patch", !.outcome = "FAILED"]
      <4>0. me.pc = "fail.read" /\ UNCHANGED <<job, shared, faults>>
        BY <3>12 DEF FailRead, At, me, counters
      <4>1. k.pc = "patch" /\ k.id = me.id /\ \A x : Standing(k, x) => Standing(me, x)
        BY <3>0 DEF RunStates, Standing
      <4> HIDE DEF k
      <4> QED BY <3>1, <3>2, <3>4, <3>12, <4>0, <4>1 DEF FailRead, NextJob, Goto, me, k
    <3>13. CASE Patch(r) \/ CaseFind(r) \/ CaseCreate(r) \/ Claimed(r)
      <4> DEFINE k(pc) == [me EXCEPT !.pc = pc]
      <4>0. me.pc # "idle" /\ UNCHANGED <<job, shared, faults>>
        BY <3>13 DEF Patch, CaseFind, CaseCreate, Claimed, At, me, counters
      <4>1. \A pc \in {"case.find", "case.create"} :
               k(pc).pc = pc /\ k(pc).id = me.id /\ \A x : Standing(k(pc), x) => Standing(me, x)
        BY <3>0 DEF RunStates, Standing
      <4> HIDE DEF k
      <4> QED BY <3>1, <3>2, <3>4, <3>13, <4>0, <4>1
              DEF Patch, CaseFind, CaseCreate, Claimed, NextJob, Goto, me, k
    <3>14. CASE Throw(r) \/ Crash(r)
      <4>0. UNCHANGED <<job, shared>> /\ faults' # 0
        <5>1. faults \in Nat /\ faults' = faults + 1
          BY <3>14 DEF Throw, Crash, Fault, Counted
        <5> QED BY <3>14, <5>1 DEF Throw, Crash
      <4>1. CASE Set(r, Idle)
        <5>1. \A t \in AllTypes : ~Standing(Idle, t)'
          BY DEF Idle, Standing
        <5> QED BY <3>4, <4>0, <4>1, <5>1, KeptLocks
      <4>2. CASE ~Set(r, Idle)
        <5>0. PICK k : k = [me EXCEPT !.pc = "fail.find", !.retry = TRUE, !.caught = TRUE]
          OBVIOUS
        <5>1. k.pc = "fail.find" /\ k.id = me.id /\ k.caught /\ k.mine = me.mine
          BY <3>0, <5>0 DEF RunStates
        <5>2. Set(r, k) /\ me.pc # "idle"
          BY <3>14, <4>2, <5>0 DEF Throw, Crash, At, me
        <5>3. \A x \in AllTypes : Standing(k, x)' => Standing(me, x)
          BY <4>0, <5>1 DEF Standing
        <5> QED BY <4>0, <5>1, <5>2, <5>3, KeptLocks DEF me
      <4> QED BY <4>1, <4>2
    <3>15. CASE Step(r)
      BY <3>6, <3>7, <3>8, <3>9, <3>10, <3>11, <3>12, <3>13, <3>15 DEF Step
    <3> QED BY <2>1, <3>5, <3>14, <3>15 DEF Worker
  <2>2. CASE Uploads
    <3>1. run' = run /\ UNCHANGED <<shared, faults>>
      BY <2>2 DEF Uploads, Attach, Enqueue, ReadMedia, PublishDraft, counters
    <3>2. \A t \in AllTypes : job'[t] = job[t] \/ (/\ job[t].status = "NONE"
                                                  /\ job'[t].status = "QUEUED"
                                                  /\ job'[t].attempts = 0)
      BY <2>2 DEF Uploads, Attach, Enqueue, ReadMedia, PublishDraft, NoJob
    <3> SUFFICES ASSUME Trusted PROVE Locks'
      BY <3>1 DEF Locks, Trusted
    <3>3. \A r \in Runs, t \in AllTypes : Standing(run[r], t)' =>
             Standing(run[r], t) /\ job'[t] = job[t]
      <4>1. \A r \in Runs, t \in AllTypes : Standing(run[r], t)' => Standing(run[r], t)
        BY <3>1 DEF Standing
      <4> QED BY <3>2, <4>1 DEF Locks
    <3>4. \A r \in Runs : run[r].pc = "fail.write" => run[r].job \in AllTypes
      BY DEF Local, SoundLocals
    <3>5. AttemptLeft'
      BY <3>2, AttemptsAssumption DEF Locks, AttemptLeft
    <3>6. \A r \in Runs : run[r].pc = "fail.write" /\ run[r].retry /\ Locked(r)'
                             => job'[run[r].job].attempts < MaxAttempts
      BY <3>1, <3>2, <3>4 DEF Locks, Locked
    <3> QED BY <3>1, <3>3, <3>5, <3>6 DEF Locks
  <2>3. CASE Moderators \/ UNCHANGED vars
    <3>1. UNCHANGED <<job, run, shared, faults>>
      BY <2>3 DEF Moderators, ResolveCase, ReopenCase, vars, counters
    <3> QED BY <3>1 DEF Locks, AttemptLeft, Locked, Standing, Trusted
  <2> QED BY <2>1, <2>2, <2>3 DEF Next
<1>3. Init => Counted
  BY DEF Init, Counted
<1>4. Counted /\ [Next]_vars => Counted'
  <2>1. ASSUME NEW r \in Runs, Throw(r) \/ Crash(r) PROVE faults' = faults + 1
    BY <2>1 DEF Throw, Crash, Fault
  <2>2. ASSUME NEW r \in Runs, FindCandidates(r) \/ Step(r) PROVE faults' = faults
    BY <2>2 DEF FindCandidates, Step, Claim, Claimed, Process, Finish, Complete, FailFind, FailWrite,
                FailRead, Patch, CaseFind, CaseCreate, counters
  <2>3. ASSUME Uploads \/ Moderators \/ UNCHANGED vars PROVE faults' = faults
    BY <2>3 DEF Uploads, Attach, Enqueue, ReadMedia, PublishDraft, Moderators, ResolveCase, ReopenCase,
                counters, vars
  <2> QED BY <2>1, <2>2, <2>3 DEF Counted, Next, Worker
<1> QED BY <1>1, <1>2, <1>3, <1>4, TypedInvariant, LocalInvariant, PTL DEF Spec

LEMMA PatchedTyped ==
    ASSUME NEW a \in Assets, NEW t, NEW outcome, NEW result,
           t = "TRANSFORM" /\ outcome # "FAILED" =>
              result \in {"PENDING", "READY", "FAILED", "NOT_REQUIRED"}
    PROVE  Patched(a, t, outcome, result) \in Assets
<1>1. [a EXCEPT !.status = "BLOCKED", !.moderation = "BLOCKED"] \in Assets
  BY DEF Assets
<1>2. [a EXCEPT !.moderation = "PASSED"] \in Assets
  BY DEF Assets
<1>3. \A x \in {"NONE", "PENDING", "READY", "FAILED", "NOT_REQUIRED"} :
         [a EXCEPT !.transform = x] \in Assets
  BY DEF Assets
<1>4. t = "TRANSFORM" =>
         [a EXCEPT !.transform = IF outcome = "FAILED" THEN "FAILED" ELSE result] \in Assets
  BY <1>3
<1> QED BY <1>1, <1>2, <1>4 DEF Patched

(* Every step keeps the asset's types: with the rows and the locals, the   *)
(* whole type invariant.                                                   *)
THEOREM TypeCorrect == Spec => []TypeOK
<1> DEFINE AssetTyped == asset \in [draft : Assets, read : Assets, live : Assets]
<1>1. Init => AssetTyped
  BY DEF Init, NoAsset, Assets
<1>2. Typed /\ Local /\ AssetTyped /\ [Next]_vars => AssetTyped'
  <2> SUFFICES ASSUME Typed, Local, AssetTyped, [Next]_vars PROVE AssetTyped'
    OBVIOUS
  <2>1. CASE Attach
    <3>1. \A m \in {"PASSED", "PENDING"}, x \in {"PENDING", "READY"} :
            [status |-> "READY_FOR_PREVIEW", moderation |-> m, transform |-> x] \in Assets
      BY DEF Assets
    <3> QED BY <2>1, <3>1 DEF Attach
  <2>2. CASE ReadMedia \/ PublishDraft
    <3>1. [asset.read EXCEPT !.status = "LIVE"] \in Assets
      BY DEF Assets
    <3> QED BY <2>2, <3>1 DEF ReadMedia, PublishDraft
  <2>3. ASSUME NEW r \in Runs, Patch(r) PROVE AssetTyped'
    <3> DEFINE me == run[r]
    <3>1. me.job \in AllTypes \cup {"none"} /\ me.result \in AllResults
          /\ me.outcome \in {"none", "SUCCEEDED", "FAILED"}
      BY DEF Typed, RunStates
    <3>2. me.job = "TRANSFORM" /\ me.outcome # "FAILED" =>
            me.result \in {"PENDING", "READY", "FAILED", "NOT_REQUIRED"}
      BY <2>3 DEF Patch, At, Local, SoundLocals, Results
    <3>3. asset.draft \in Assets
      OBVIOUS
    <3> HIDE DEF me
    <3>4. Patched(asset.draft, me.job, me.outcome, me.result) \in Assets
      BY <3>2, <3>3, PatchedTyped
    <3> QED BY <2>3, <3>4 DEF Patch, me
  <2>4. CASE UNCHANGED asset
    BY <2>4
  <2>5. ASSUME NEW r \in Runs, Worker(r), ~Patch(r) PROVE UNCHANGED asset
    BY <2>5 DEF Worker, Step, FindCandidates, Claim, Claimed, Process, Finish, Complete,
         FailFind, FailWrite, FailRead, CaseFind, CaseCreate, Throw, Crash
  <2>6. CASE Moderators \/ UNCHANGED vars \/ (Uploads /\ ~Attach /\ ~ReadMedia /\ ~PublishDraft)
    BY <2>6 DEF Moderators, ResolveCase, ReopenCase, vars, Uploads, Enqueue
  <2> QED BY <2>1, <2>2, <2>3, <2>4, <2>5, <2>6 DEF Next, Uploads
<1>3. Typed /\ AssetTyped => TypeOK
  BY DEF Typed, TypeOK
<1> QED BY <1>1, <1>2, <1>3, TypedInvariant, LocalInvariant, PTL DEF Spec

(* Media that is blocked stays blocked, with any workerIds, any number of  *)
(* runs and any order of the results.                                      *)
LEMMA BlockStays == Spec => BlockedIsFinal
<1> DEFINE Kept == asset.draft.status = "BLOCKED" => asset'.draft.status = "BLOCKED"
<1>1. TypeOK /\ [Next]_vars => [Kept]_vars
  <2> SUFFICES ASSUME TypeOK, Next, asset.draft.status = "BLOCKED"
               PROVE  asset'.draft.status = "BLOCKED"
    BY DEF vars
  <2>1. CASE Uploads
    BY <2>1 DEF Uploads, Attach, Enqueue, ReadMedia, PublishDraft, NoAsset, TypeOK
  <2>2. ASSUME NEW r \in Runs, Worker(r) PROVE asset'.draft.status = "BLOCKED"
    <3>1. CASE Patch(r)
      <4>1. \A t, o, x : Patched(asset.draft, t, o, x).status = "BLOCKED"
        BY DEF Patched, TypeOK, Assets
      <4> QED BY <3>1, <4>1 DEF Patch, TypeOK
    <3>2. CASE ~Patch(r)
      BY <2>2, <3>2 DEF Worker, Step, FindCandidates, Claim, Claimed, Process, Finish, Complete,
         FailFind, FailWrite, FailRead, CaseFind, CaseCreate, Throw, Crash
    <3> QED BY <3>1, <3>2
  <2>3. CASE Moderators
    BY <2>3 DEF Moderators, ResolveCase, ReopenCase
  <2> QED BY <2>1, <2>2, <2>3 DEF Next
<1> QED BY <1>1, TypeCorrect, PTL DEF Spec, BlockedIsFinal

(* Media blocked before publishDraft lists it never reaches the public,    *)
(* with any workerIds, runs and order of the results: no result unblocks   *)
(* it, the list leaves blocked media out, and nothing else is copied.      *)
LEMMA BlockStaysPrivate == Spec => BlockedIsNotPublic
<1> DEFINE Copied == asset.live # NoAsset => asset.read # NoAsset
           Held == asset.draft.status = "BLOCKED" /\ asset.read = NoAsset
           Kept == asset.draft.status = "BLOCKED" => asset'.draft.status = "BLOCKED"
<1>1. TypeOK /\ [Next]_vars =>
         /\ Copied => Copied'
         /\ Held /\ [Kept]_vars => Held'
  <2> SUFFICES ASSUME TypeOK, [Next]_vars
               PROVE  /\ Copied => Copied'
                      /\ Held /\ [Kept]_vars => Held'
    OBVIOUS
  <2>1. Held /\ [Kept]_vars => asset'.draft.status = "BLOCKED"
    BY DEF vars
  <2>2. CASE asset'.read = asset.read /\ asset'.live = asset.live
    BY <2>1, <2>2
  <2>3. CASE Uploads
    <3>1. CASE Attach \/ \E group : Enqueue(group)
      BY <2>2, <3>1 DEF Attach, Enqueue, TypeOK
    <3>2. CASE ReadMedia
      <4>1. asset'.read = asset.draft /\ asset'.live = asset.live /\ asset.draft # NoAsset
        BY <3>2 DEF ReadMedia, NoAsset, TypeOK
      <4>2. ~Held
        BY <3>2 DEF ReadMedia
      <4> QED BY <4>1, <4>2
    <3>3. CASE PublishDraft
      <4>1. asset'.read = asset.read /\ asset.read # NoAsset
        BY <3>3 DEF PublishDraft, TypeOK
      <4> QED BY <4>1
    <3> QED BY <2>3, <3>1, <3>2, <3>3 DEF Uploads
  <2>4. ASSUME NEW r \in Runs, Patch(r) PROVE asset'.read = asset.read /\ asset'.live = asset.live
    BY <2>4 DEF Patch, TypeOK
  <2>5. ASSUME NEW r \in Runs, Worker(r), ~Patch(r) PROVE UNCHANGED asset
    BY <2>5 DEF Worker, Step, FindCandidates, Claim, Claimed, Process, Finish, Complete,
       FailFind, FailWrite, FailRead, CaseFind, CaseCreate, Throw, Crash
  <2>6. CASE Moderators \/ UNCHANGED vars
    BY <2>2, <2>6 DEF Moderators, ResolveCase, ReopenCase, vars
  <2> QED
    BY <2>2, <2>3, <2>4, <2>5, <2>6 DEF Next
<1>2. Init => Copied
  BY DEF Init
<1>3. Held /\ Copied => ~IsPublic(asset.live)
  BY DEF IsPublic, NoAsset
<1>4. Spec => [][Kept]_vars
  BY BlockStays DEF BlockedIsFinal
<1> QED
  BY <1>1, <1>2, <1>3, <1>4, TypeCorrect, PTL DEF Spec, BlockedIsNotPublic

(* A run has its job alone and counts the try: with workerIds of their own *)
(* whatever dies or throws, and with one for all as long as nothing does.  *)
THEOREM LocksHold == Spec => []LockHolds
<1>1. Locks => LockHolds
  BY DEF Locks, LockHolds, Trusted, OneWorkerPerJob, Works, Standing
<1> QED BY <1>1, LocksInvariant, PTL

(* A block holds, of the draft and against its publication, for any runs.  *)
THEOREM BlockHolds == Spec => BlockStands
  BY BlockStays, BlockStaysPrivate DEF BlockStands
-----------------------------------------------------------------------------
(* Why the verdict is published when no run begins during another: the one *)
(* run in progress knows what became of its job, and every other job that  *)
(* is done with has told the asset and the moderators.                     *)
CaseRows == [job : AllTypes, status : {"OPEN", "RESOLVED", "ESCALATED", "DISMISSED"}]
Recorded == cases \in Seq(CaseRows) /\ overlaps \in Nat /\ faults \in Nat

Of(t) == {i \in DOMAIN cases : cases[i].job = t}
Bad(t) == /\ job[t].status \in {"SUCCEEDED", "FAILED"}
          /\ NeedsCase(t, job[t].status, job[t].result)
Blocked == asset.draft.status = "BLOCKED"

(* The verdict on a job is where it belongs. *)
Arrived(t) ==
    /\ Bad(t) => /\ t # "TRANSFORM" => Blocked
                 /\ \E i \in Of(t) : Of(t) = {i}
    /\ ~Bad(t) => Of(t) = {}

(* What a run in progress knows of its job. *)
Told(k) ==
    /\ k.pc = "fail.read" => job[k.job].status \in {"QUEUED", "FAILED"}
    /\ k.pc = "patch" => \/ k.outcome = "FAILED" /\ job[k.job].status = "FAILED"
                         \/ /\ k.outcome = "SUCCEEDED" /\ job[k.job].status = "SUCCEEDED"
                            /\ k.result = job[k.job].result

(* How far it has come with publishing the verdict on it. *)
Arriving(k) ==
    /\ k.pc # "idle" => \A t \in k.mine : job[t].status = "RUNNING"
    /\ \A t \in AllTypes : k.job = t =>
          /\ k.pc \in {"complete", "fail.find", "fail.write"} => job[t].status = "RUNNING"
          /\ k.pc \notin {"idle", "claim", "work"} => Of(t) = {}
          /\ k.pc \in {"case.find", "case.create"} => Bad(t) /\ (t # "TRANSFORM" => Blocked)
          /\ k.pc = "work" => Arrived(t)

Rows == \A t \in AllTypes : job[t].result # "none" => job[t].status = "SUCCEEDED"

Alone == \A r, s \in Runs : run[r].pc # "idle" /\ run[s].pc # "idle" => r = s

Lone ==
    /\ Rows
    /\ overlaps = 0 =>
          /\ Alone /\ BlockIsEarned
          /\ \A r \in Runs : Told(run[r])
          /\ faults = 0 => /\ \A t \in AllTypes : (\A r \in Runs : run[r].job # t) => Arrived(t)
                           /\ \A r \in Runs : Arriving(run[r])

Base == TypeOK /\ Local /\ Recorded

LEMMA RecordedInvariant == Spec => []Recorded
<1>1. Init => Recorded
  BY DEF Init, Recorded
<1>2. TypeOK /\ Local /\ Recorded /\ [Next]_vars => Recorded'
  <2> SUFFICES ASSUME TypeOK, Local, Recorded, [Next]_vars PROVE Recorded'
    OBVIOUS
  <2>1. CASE Uploads \/ UNCHANGED vars
    BY <2>1 DEF Uploads, Attach, Enqueue, ReadMedia, PublishDraft, vars, counters, Recorded
  <2>2. ASSUME NEW r \in Runs, CaseCreate(r) PROVE Recorded'
    <3>1. run[r].job \in AllTypes
      BY <2>2 DEF CaseCreate, At, Local, SoundLocals
    <3>2. PICK row : row = [job |-> run[r].job, status |-> "OPEN"]
      OBVIOUS
    <3>3. row \in CaseRows
      BY <3>1, <3>2 DEF CaseRows
    <3> QED BY <2>2, <3>2, <3>3 DEF CaseCreate, Recorded, counters
  <2>3. ASSUME NEW r \in Runs, Worker(r), ~CaseCreate(r) PROVE Recorded'
    <3>1. CASE Throw(r) \/ Crash(r)
      <4>1. cases' = cases /\ overlaps' = overlaps /\ faults' = faults + 1
        BY <3>1 DEF Throw, Crash, Fault
      <4> QED BY <4>1 DEF Recorded
    <3>2. CASE FindCandidates(r)
      <4>1. cases' = cases /\ faults' = faults /\ (overlaps' = overlaps \/ overlaps' = overlaps + 1)
        BY <3>2 DEF FindCandidates
      <4> QED BY <4>1 DEF Recorded
    <3>3. CASE Step(r)
      <4>1. UNCHANGED <<cases, overlaps, faults>>
        BY <2>3, <3>3 DEF Step, Claim, Claimed, Process, Finish, Complete,
           FailFind, FailWrite, FailRead, Patch, CaseFind, counters
      <4> QED BY <4>1 DEF Recorded
    <3> QED BY <2>3, <3>1, <3>2, <3>3 DEF Worker
  <2>4. ASSUME NEW i \in DOMAIN cases, ResolveCase(i) \/ ReopenCase(i) PROVE Recorded'
    <3>1. PICK st \in {"OPEN", "RESOLVED", "ESCALATED", "DISMISSED"} :
             cases' = [cases EXCEPT ![i].status = st] /\ UNCHANGED counters
      BY <2>4 DEF ResolveCase, ReopenCase
    <3>2. cases[i] \in CaseRows
      BY DEF Recorded
    <3>3. [cases[i] EXCEPT !.status = st] \in CaseRows
      BY <3>2 DEF CaseRows
    <3> QED BY <3>1, <3>3 DEF Recorded, counters
  <2> QED BY <2>1, <2>2, <2>3, <2>4 DEF Next, Moderators
<1> QED BY <1>1, <1>2, TypeCorrect, LocalInvariant, PTL DEF Spec

(* The run in progress is the only one, and all but its job has arrived.   *)
LEMMA Before ==
    ASSUME Base, Lone, overlaps = 0, NEW r \in Runs, run[r].pc # "idle"
    PROVE  /\ \A s \in Runs \ {r} : run[s].pc = "idle"
           /\ BlockIsEarned /\ Told(run[r])
           /\ faults = 0 => /\ Arriving(run[r])
                            /\ \A t \in AllTypes : t # run[r].job => Arrived(t)
<1>1. \A s \in Runs \ {r} : run[s].pc = "idle"
  BY DEF Lone, Alone
<1>2. \A s \in Runs \ {r} : run[s].job = "none"
  BY <1>1 DEF Base, Local, SoundLocals
<1> QED BY <1>1, <1>2 DEF Lone

(* A step of the one run that is in progress afterwards. *)
LEMMA LoneStep ==
    ASSUME Base, NEW r \in Runs, NEW k, Set(r, k), Rows',
           overlaps' = 0 =>
              /\ \A s \in Runs \ {r} : run[s].pc = "idle"
              /\ BlockIsEarned' /\ Told(k)'
              /\ faults' = 0 => /\ Arriving(k)'
                                /\ \A t \in AllTypes : t # k.job => Arrived(t)'
    PROVE  Lone'
<1>1. run'[r] = k /\ \A s \in Runs \ {r} : run'[s] = run[s]
  BY DEF Set, Base, TypeOK
<1> SUFFICES ASSUME overlaps' = 0
             PROVE  /\ Alone' /\ \A s \in Runs : Told(run[s])'
                    /\ faults' = 0 =>
                          /\ \A t \in AllTypes : (\A s \in Runs : run'[s].job # t) => Arrived(t)'
                          /\ \A s \in Runs : Arriving(run[s])'
  BY DEF Lone
<1>2. Alone'
  BY <1>1 DEF Alone
<1>3. \A s \in Runs : Told(run[s])'
  <2> SUFFICES ASSUME NEW s \in Runs PROVE Told(run[s])'
    OBVIOUS
  <2>1. CASE s = r
    BY <1>1, <2>1 DEF Told
  <2>2. CASE s # r
    BY <1>1, <2>2 DEF Told
  <2> QED BY <2>1, <2>2
<1>4. ASSUME faults' = 0 PROVE \A s \in Runs : Arriving(run[s])'
  <2> SUFFICES ASSUME NEW s \in Runs PROVE Arriving(run[s])'
    OBVIOUS
  <2>1. CASE s = r
    BY <1>1, <1>4, <2>1 DEF Arriving
  <2>2. CASE s # r
    <3>1. run'[s].pc = "idle"
      BY <1>1, <2>2
    <3> QED BY <3>1 DEF Arriving
  <2> QED BY <2>1, <2>2
<1>5. ASSUME faults' = 0 PROVE \A t \in AllTypes : (\A s \in Runs : run'[s].job # t) => Arrived(t)'
  BY <1>1, <1>5
<1> QED BY <1>2, <1>3, <1>4, <1>5

(* A step that writes only the locals of its run. *)
LEMMA OwnStep ==
    ASSUME Base, Lone, NEW r \in Runs, NEW k, Set(r, k), UNCHANGED <<job, asset, cases>>,
           overlaps' = 0 => overlaps = 0 /\ (faults' = 0 => faults = 0),
           overlaps' = 0 => /\ \A s \in Runs \ {r} : run[s].pc = "idle"
                            /\ Told(k)
                            /\ faults' = 0 => /\ Arriving(k)
                                              /\ \A t \in AllTypes : t # k.job => Arrived(t)
    PROVE  Lone'
<1>1. Rows'
  BY DEF Lone, Rows
<1>2. overlaps' = 0 => BlockIsEarned'
  BY DEF Lone, BlockIsEarned
<1>3. overlaps' = 0 => Told(k)'
  BY DEF Told
<1>4. \A t \in AllTypes : Arrived(t) => Arrived(t)'
  BY DEF Arrived, Bad, Of, Blocked
<1>5. Arriving(k) => Arriving(k)'
  BY <1>4 DEF Arriving, Bad, Of, Blocked
<1> QED BY <1>1, <1>2, <1>3, <1>4, <1>5, LoneStep

(* No verdict is undone: rows that are done with stay, and so do blocks    *)
(* and cases.                                                              *)
LEMMA StillEarned ==
    ASSUME BlockIsEarned, asset'.draft.status = "BLOCKED" => Blocked,
           \A t \in AllTypes : job[t].status = "FAILED" \/ job[t].result = "unsafe" => job'[t] = job[t]
    PROVE  BlockIsEarned'
  BY DEF BlockIsEarned, Blocked

LEMMA StillArrived ==
    ASSUME NEW t \in AllTypes, job'[t] = job[t], UNCHANGED cases, Blocked => Blocked', Arrived(t)
    PROVE  Arrived(t)'
  BY DEF Arrived, Bad, Of

(* Uploads and moderators: rows are at most queued, blocks and the jobs of *)
(* the cases stay.                                                         *)
LEMMA OthersStep ==
    ASSUME Base, Lone, UNCHANGED <<run, overlaps, faults>>, Blocked' <=> Blocked,
           \A t : Of(t)' = Of(t),
           \A t \in AllTypes : \/ job'[t] = job[t]
                               \/ /\ job[t].status = "NONE" /\ job[t].result = "none"
                                  /\ job'[t].status = "QUEUED" /\ job'[t].result = "none"
    PROVE  Lone'
<1>1. Rows'
  BY DEF Lone, Rows
<1>2. \A t \in AllTypes : Bad(t)' <=> Bad(t)
  BY DEF Bad
<1>3. \A t \in AllTypes : Arrived(t)' <=> Arrived(t)
  BY <1>2 DEF Arrived
<1> SUFFICES ASSUME overlaps = 0
             PROVE  /\ Alone' /\ BlockIsEarned' /\ \A r \in Runs : Told(run[r])'
                    /\ faults = 0 => \A r \in Runs : Arriving(run[r])'
  BY <1>1, <1>3 DEF Lone
<1>4. Alone'
  BY DEF Lone, Alone
<1>5. BlockIsEarned'
  BY DEF Lone, BlockIsEarned, Blocked
<1>6. ASSUME NEW r \in Runs PROVE Told(run[r])'
  <2>1. Told(run[r])
    BY DEF Lone
  <2>2. run[r].pc \in {"fail.read", "patch"} => run[r].job \in AllTypes
    BY DEF Base, Local, SoundLocals
  <2> QED BY <2>1, <2>2 DEF Told
<1>7. ASSUME faults = 0, NEW r \in Runs PROVE Arriving(run[r])'
  <2>1. Arriving(run[r]) /\ run[r].mine \subseteq AllTypes
    BY <1>7 DEF Lone, Base, TypeOK, RunStates
  <2> QED BY <1>2, <1>3, <2>1 DEF Arriving
<1> QED BY <1>4, <1>5, <1>6, <1>7

LEMMA UploadsLone == ASSUME Base, Lone, Uploads PROVE Lone'
<1>1. CASE Attach \/ ReadMedia \/ PublishDraft
  <2>1. UNCHANGED <<job, cases, run, overlaps, faults>>
    BY <1>1 DEF Attach, ReadMedia, PublishDraft, counters
  <2>2. Blocked' <=> Blocked
    BY <1>1 DEF Attach, ReadMedia, PublishDraft, Blocked, NoAsset, Base, TypeOK
  <2>3. \A t : Of(t)' = Of(t)
    BY <2>1 DEF Of
  <2> QED BY <2>1, <2>2, <2>3, OthersStep
<1>2. ASSUME NEW group, Enqueue(group) PROVE Lone'
  <2>1. UNCHANGED <<asset, cases, run, overlaps, faults>>
    BY <1>2 DEF Enqueue, counters
  <2>2. \A t \in AllTypes : \/ job'[t] = job[t]
                            \/ /\ job[t].status = "NONE" /\ job[t].result = "none"
                               /\ job'[t].status = "QUEUED" /\ job'[t].result = "none"
    BY <1>2 DEF Enqueue, NoJob
  <2>3. (\A t : Of(t)' = Of(t)) /\ (Blocked' <=> Blocked)
    BY <2>1 DEF Of, Blocked
  <2> QED BY <2>1, <2>2, <2>3, OthersStep
<1> QED BY <1>1, <1>2 DEF Uploads

LEMMA ModeratorsLone == ASSUME Base, Lone, Moderators PROVE Lone'
<1>1. PICK i \in DOMAIN cases : ResolveCase(i) \/ ReopenCase(i)
  BY DEF Moderators
<1>2. UNCHANGED <<job, asset, run, overlaps, faults>>
  BY <1>1 DEF ResolveCase, ReopenCase, counters
<1>3. DOMAIN cases' = DOMAIN cases /\ \A n \in DOMAIN cases : cases'[n].job = cases[n].job
  <2>1. PICK st : cases' = [cases EXCEPT ![i].status = st]
    BY <1>1 DEF ResolveCase, ReopenCase
  <2>2. cases[i] \in CaseRows
    BY DEF Base, Recorded
  <2>3. [cases[i] EXCEPT !.status = st].job = cases[i].job
    BY <2>2 DEF CaseRows
  <2> QED BY <2>1, <2>3 DEF Base, Recorded
<1>4. (\A t : Of(t)' = Of(t)) /\ (Blocked' <=> Blocked)
  BY <1>2, <1>3 DEF Of, Blocked
<1> QED BY <1>2, <1>4, OthersStep

(* A run begins, claims, takes the next job of its batch, and ends. *)
LEMMA BatchLone ==
    ASSUME Base, Lone, NEW r \in Runs,
           FindCandidates(r) \/ Claim(r) \/ Claimed(r) \/ Process(r) \/ Finish(r)
    PROVE  Lone'
<1> DEFINE me == run[r]
<1>0. me \in RunStates /\ SoundLocals(me) /\ overlaps \in Nat
  BY DEF Base, TypeOK, Local, Recorded
<1>1. CASE FindCandidates(r)
  <2>1. PICK todo, id, k : k = [Idle EXCEPT !.pc = "claim", !.id = id, !.todo = todo] /\ Set(r, k)
    BY <1>1 DEF FindCandidates
  <2>2. k.pc = "claim" /\ k.mine = {} /\ k.job = "none"
    BY <2>1 DEF Idle
  <2>3. Told(k) /\ Arriving(k)
    BY <2>2 DEF Told, Arriving
  <2>4. overlaps' = 0 => overlaps = 0 /\ \A s \in Runs : run[s].pc = "idle"
    <3>1. CASE \A s \in Runs \ {r} : At(s, "idle")
      BY <1>1, <3>1 DEF FindCandidates, At
    <3>2. CASE ~(\A s \in Runs \ {r} : At(s, "idle"))
      <4>1. overlaps' = overlaps + 1
        BY <1>1, <3>2 DEF FindCandidates
      <4> QED BY <1>0, <4>1
    <3> QED BY <3>1, <3>2
  <2>5. overlaps' = 0 => \A s \in Runs : run[s].job = "none"
    BY <2>4 DEF Base, Local, SoundLocals
  <2>6. overlaps' = 0 /\ faults' = 0 => \A t \in AllTypes : Arrived(t)
    BY <1>1, <2>4, <2>5 DEF Lone, FindCandidates
  <2> QED BY <1>1, <2>1, <2>3, <2>4, <2>6, OwnStep DEF FindCandidates
<1>2. CASE Claim(r)
  <2>1. me.pc = "claim" /\ me.job = "none" /\ UNCHANGED <<asset, cases, overlaps, faults>>
    BY <1>0, <1>2 DEF Claim, At, SoundLocals, counters
  <2>2. PICK t \in me.todo :
          IF job[t].status = "QUEUED"
          THEN /\ job' = [job EXCEPT ![t] = [status |-> "RUNNING", owner |-> run[r].id,
                                             attempts |-> job[t].attempts + 1,
                                             result |-> job[t].result]]
               /\ Set(r, [me EXCEPT !.todo = @ \ {t}, !.mine = @ \cup {t}])
          ELSE Set(r, [me EXCEPT !.todo = @ \ {t}]) /\ UNCHANGED job
    BY <1>2 DEF Claim
  <2>3. t \in AllTypes
    BY <1>0 DEF RunStates
  <2>4. overlaps = 0 => /\ \A s \in Runs \ {r} : run[s].pc = "idle"
                        /\ BlockIsEarned
                        /\ faults = 0 => Arriving(me) /\ \A x \in AllTypes : Arrived(x)
    BY <2>1, Before
  <2>5. CASE job[t].status # "QUEUED"
    <3>1. PICK k : k = [me EXCEPT !.todo = @ \ {t}]
      OBVIOUS
    <3>2. k.pc = "claim" /\ k.mine = me.mine /\ k.job = "none"
      BY <1>0, <2>1, <3>1 DEF RunStates
    <3>3. Told(k) /\ (Arriving(me) => Arriving(k))
      BY <2>1, <3>2 DEF Told, Arriving
    <3>4. Set(r, k) /\ UNCHANGED job
      BY <2>2, <2>5, <3>1
    <3> HIDE DEF me
    <3> QED BY <2>1, <2>4, <3>3, <3>4, OwnStep
  <2>6. CASE job[t].status = "QUEUED"
    <3>1. PICK k : k = [me EXCEPT !.todo = @ \ {t}, !.mine = @ \cup {t}]
      OBVIOUS
    <3>2. k.pc = "claim" /\ k.mine = me.mine \cup {t} /\ k.job = "none"
      BY <1>0, <2>1, <3>1 DEF RunStates
    <3>3. Set(r, k)
      BY <2>2, <2>6, <3>1
    <3>4. /\ job'[t].status = "RUNNING" /\ job'[t].result = job[t].result
          /\ \A x \in AllTypes \ {t} : job'[x] = job[x]
      BY <2>2, <2>3, <2>6 DEF Base, TypeOK
    <3>5. job[t].result = "none"
      BY <2>3, <2>6 DEF Lone, Rows
    <3>6. Rows'
      BY <3>4, <3>5 DEF Lone, Rows
    <3>7. overlaps = 0 => BlockIsEarned'
      BY <2>1, <2>4, <2>6, <3>4, <3>5, StillEarned DEF Blocked
    <3>8. Told(k)' /\ (Arriving(me) => Arriving(k)')
      BY <1>0, <2>1, <3>2, <3>4 DEF Told, Arriving, RunStates
    <3>9. ASSUME NEW x \in AllTypes, Arrived(x) PROVE Arrived(x)'
      BY <2>1, <2>6, <3>4, <3>9 DEF Arrived, Bad, Of, Blocked
    <3> HIDE DEF me
    <3> QED BY <2>1, <2>4, <3>3, <3>6, <3>7, <3>8, <3>9, LoneStep
  <2> QED BY <2>5, <2>6
<1>3. CASE Claimed(r) \/ Process(r) \/ Finish(r)
  <2>1. UNCHANGED <<job, asset, cases, overlaps, faults>> /\ me.pc \in {"claim", "work"}
    BY <1>3 DEF Claimed, Process, Finish, At, counters
  <2>2. overlaps = 0 => /\ \A s \in Runs \ {r} : run[s].pc = "idle"
                        /\ faults = 0 => Arriving(me) /\ \A x \in AllTypes : Arrived(x)
    <3>1. me.job \in AllTypes => me.pc = "work"
      BY <1>0, <2>1 DEF SoundLocals
    <3>2. Arriving(me) => \A x \in AllTypes : x = me.job => Arrived(x)
      BY <3>1 DEF Arriving
    <3> QED BY <2>1, <3>2, Before
  <2> SUFFICES \E k : /\ Set(r, k) /\ Told(k)
                      /\ Arriving(me) /\ (\A x \in AllTypes : Arrived(x)) => Arriving(k)
    <3> HIDE DEF me
    <3> QED BY <2>1, <2>2, OwnStep
  <2>3. CASE Claimed(r)
    <3>1. PICK k : k = [me EXCEPT !.pc = "work"]
      OBVIOUS
    <3>2. k.pc = "work" /\ k.mine = me.mine /\ k.job = me.job
      BY <1>0, <3>1 DEF RunStates
    <3>3. Told(k) /\ (Arriving(me) /\ (\A x \in AllTypes : Arrived(x)) => Arriving(k))
      BY <2>1, <3>2 DEF Told, Arriving
    <3> QED BY <2>3, <3>1, <3>3 DEF Claimed, NextJob, Goto
  <2>4. CASE Finish(r)
    <3>1. Told(Idle) /\ Arriving(Idle)
      BY DEF Told, Arriving, Idle
    <3> QED BY <2>4, <3>1 DEF Finish
  <2>5. CASE Process(r)
    <3>0. PICK t \in me.mine :
            LET next == [Idle EXCEPT !.id = me.id, !.mine = me.mine \ {t}, !.job = t] IN
            \/ \E result \in Results(t) :
                  Set(r, [next EXCEPT !.pc = "complete", !.result = result])
            \/ \E retry, caught \in BOOLEAN :
                  Set(r, [next EXCEPT !.pc = "fail.find",
                                      !.retry = retry \/ caught, !.caught = caught])
      BY <2>5 DEF Process
    <3>1. PICK k :
            /\ Set(r, k) /\ k.mine = me.mine \ {t} /\ k.job = t /\ k.pc \in {"complete", "fail.find"}
      <4> DEFINE next == [Idle EXCEPT !.id = me.id, !.mine = me.mine \ {t}, !.job = t]
                 Completing(x) == [next EXCEPT !.pc = "complete", !.result = x]
                 Failing(x, y) == [next EXCEPT !.pc = "fail.find", !.retry = x \/ y, !.caught = y]
      <4>1. \A x : /\ Completing(x).mine = me.mine \ {t} /\ Completing(x).job = t
                   /\ Completing(x).pc = "complete"
        BY DEF Idle
      <4>2. \A x, y : /\ Failing(x, y).mine = me.mine \ {t} /\ Failing(x, y).job = t
                      /\ Failing(x, y).pc = "fail.find"
        BY DEF Idle
      <4>3. \/ \E x \in Results(t) : Set(r, Completing(x))
            \/ \E x, y \in BOOLEAN : Set(r, Failing(x, y))
        BY <3>0, Zenon
      <4> HIDE DEF Completing, Failing
      <4> QED BY <4>1, <4>2, <4>3
    <3>2. t \in AllTypes
      BY <1>0 DEF RunStates
    <3>3. Told(k)
      BY <3>1 DEF Told
    <3>4. ASSUME Arriving(me), Arrived(t) PROVE Arriving(k)
      <4>1. job[t].status = "RUNNING"
        BY <2>1, <3>4 DEF Arriving
      <4>2. Of(t) = {}
        BY <3>4, <4>1 DEF Arrived, Bad
      <4> QED BY <2>1, <3>1, <3>4, <4>1, <4>2 DEF Arriving
    <3> QED BY <3>1, <3>2, <3>3, <3>4
  <2> QED BY <1>3, <2>3, <2>4, <2>5
<1> QED BY <1>1, <1>2, <1>3

(* The job a run is at ends, or is queued again. *)
LEMMA EndedRow ==
    ASSUME Base, Lone, NEW r \in Runs, NEW k, Set(r, k), run[r].pc # "idle",
           NEW t \in AllTypes, run[r].job = t, k.job = t, k.mine = run[r].mine,
           job[t].status = "RUNNING", UNCHANGED <<asset, cases, overlaps, faults>>,
           \A x \in AllTypes \ {t} : job'[x] = job[x],
           job'[t].result # "none" => job'[t].status = "SUCCEEDED",
           k.pc \in {"fail.read", "patch"}, Told(k)'
    PROVE  Lone'
<1>1. run[r].mine \subseteq AllTypes /\ t \notin run[r].mine /\ run[r].pc \notin {"idle", "claim"}
  BY DEF Base, TypeOK, RunStates, Local, SoundLocals
<1>2. Rows'
  BY DEF Lone, Rows
<1> SUFFICES ASSUME overlaps = 0
             PROVE  /\ \A s \in Runs \ {r} : run[s].pc = "idle"
                    /\ BlockIsEarned'
                    /\ faults = 0 => /\ Arriving(k)'
                                     /\ \A x \in AllTypes : x # t => Arrived(x)'
  BY <1>2, LoneStep
<1>3. /\ \A s \in Runs \ {r} : run[s].pc = "idle"
      /\ BlockIsEarned
      /\ faults = 0 => Arriving(run[r]) /\ \A x \in AllTypes : x # t => Arrived(x)
  BY Before
<1>4. BlockIsEarned'
  <2>1. job[t].result = "none"
    BY DEF Lone, Rows
  <2> QED BY <1>3, <2>1, StillEarned DEF Blocked
<1>5. ASSUME faults = 0, NEW x \in AllTypes, x # t PROVE Arrived(x)'
  BY <1>3, <1>5, StillArrived DEF Blocked
<1>6. ASSUME faults = 0 PROVE Arriving(k)'
  <2>1. Of(t) = {}
    <3>1. run[r].pc = "work" => Arrived(t)
      BY <1>3, <1>6 DEF Arriving
    <3>2. Arrived(t) => Of(t) = {}
      BY DEF Arrived, Bad
    <3>3. run[r].pc # "work" => Of(t) = {}
      BY <1>1, <1>3, <1>6 DEF Arriving
    <3> QED BY <3>1, <3>2, <3>3
  <2>2. Of(t)' = {}
    BY <2>1 DEF Of
  <2>3. \A x \in k.mine : job'[x].status = "RUNNING"
    BY <1>1, <1>3, <1>6 DEF Arriving
  <2> QED BY <2>2, <2>3 DEF Arriving
<1> QED BY <1>3, <1>4, <1>5, <1>6

(* completeJob and failJob. *)
LEMMA EndingLone ==
    ASSUME Base, Lone, NEW r \in Runs,
           Complete(r) \/ FailFind(r) \/ FailWrite(r) \/ FailRead(r)
    PROVE  Lone'
<1> DEFINE me == run[r]
<1>0. me \in RunStates /\ SoundLocals(me)
  BY DEF Base, TypeOK, Local
<1>1. /\ me.pc \in {"complete", "fail.find", "fail.write", "fail.read"} /\ me.job \in AllTypes
      /\ UNCHANGED <<asset, cases, overlaps, faults>>
  BY <1>0 DEF Complete, FailFind, FailWrite, FailRead, At, SoundLocals, counters
<1>2. overlaps = 0 => /\ \A s \in Runs \ {r} : run[s].pc = "idle"
                      /\ Told(me)
                      /\ faults = 0 => /\ Arriving(me)
                                       /\ \A x \in AllTypes : x # me.job => Arrived(x)
  BY <1>1, Before
(* Steps that write no row. *)
<1>3. ASSUME NEW k, Set(r, k), UNCHANGED job, k.job = me.job, k.mine = me.mine,
             \/ k.pc = "work" /\ (overlaps = 0 /\ faults = 0 => Arrived(me.job))
             \/ k.pc = "fail.write" /\ me.pc = "fail.find"
             \/ k.pc = "patch" /\ me.pc = "fail.read" /\ Told(k)
      PROVE  Lone'
  <2>1. Told(k)
    BY <1>3 DEF Told
  <2>2. ASSUME overlaps = 0, faults = 0 PROVE Arriving(k)
    BY <1>1, <1>2, <1>3, <2>2 DEF Arriving
  <2> HIDE DEF me
  <2> QED BY <1>1, <1>2, <1>3, <2>1, <2>2, OwnStep
<1>4. Of(me.job) = {} /\ job[me.job].status \in {"RUNNING", "QUEUED"} => Arrived(me.job)
  BY DEF Arrived, Bad
<1>5. ASSUME overlaps = 0, faults = 0
      PROVE  /\ Of(me.job) = {}
             /\ me.pc # "fail.read" => job[me.job].status = "RUNNING"
  BY <1>1, <1>2, <1>5 DEF Arriving
<1>6. PICK k : k = [me EXCEPT !.pc = "work"]
  OBVIOUS
<1>7. k.pc = "work" /\ k.job = me.job /\ k.mine = me.mine
  BY <1>0, <1>6 DEF RunStates
<1>8. CASE NextJob(r) /\ UNCHANGED job
                      /\ (me.pc = "fail.read" => job[me.job].status = "QUEUED")
  <2>1. Set(r, k)
    BY <1>6, <1>8 DEF NextJob, Goto
  <2> QED BY <1>3, <1>4, <1>5, <1>7, <1>8, <2>1
<1>9. CASE Complete(r) /\ Locked(r)
  <2>1. PICK l : l = [me EXCEPT !.pc = "patch", !.outcome = "SUCCEEDED"]
    OBVIOUS
  <2>2. /\ l.pc = "patch" /\ l.outcome = "SUCCEEDED" /\ l.job = me.job /\ l.mine = me.mine
        /\ l.result = me.result
    BY <1>0, <2>1 DEF RunStates
  <2>3. Set(r, l)
    BY <1>9, <2>1 DEF Complete
  <2>4. /\ job'[me.job].status = "SUCCEEDED" /\ job'[me.job].result = me.result
        /\ \A x \in AllTypes \ {me.job} : job'[x] = job[x]
    BY <1>1, <1>9 DEF Complete, Base, TypeOK
  <2>5. job[me.job].status = "RUNNING"
    BY <1>9 DEF Locked
  <2>6. Told(l)'
    BY <2>2, <2>4 DEF Told
  <2> HIDE DEF me
  <2>7. PICK t \in AllTypes : t = run[r].job
    BY <1>1 DEF me
  <2> QED BY <1>1, <2>2, <2>3, <2>4, <2>5, <2>6, <2>7, EndedRow DEF me
<1>10. CASE FailFind(r) /\ Locked(r)
  <2>1. PICK l : l = [me EXCEPT !.pc = "fail.write", !.retry = @ /\ job[run[r].job].attempts < MaxAttempts]
    OBVIOUS
  <2>2. l.pc = "fail.write" /\ l.job = me.job /\ l.mine = me.mine
    BY <1>0, <2>1 DEF RunStates
  <2>3. Set(r, l) /\ UNCHANGED job /\ me.pc = "fail.find"
    BY <1>10, <2>1 DEF FailFind, At
  <2> QED BY <1>3, <2>2, <2>3
<1>11. CASE FailWrite(r) /\ Locked(r)
  <2>1. PICK l : l = [me EXCEPT !.pc = "fail.read"]
    OBVIOUS
  <2>2. l.pc = "fail.read" /\ l.job = me.job /\ l.mine = me.mine
    BY <1>0, <2>1 DEF RunStates
  <2>3. Set(r, l)
    BY <1>11, <2>1 DEF FailWrite, Goto
  <2>4. /\ job'[me.job].status \in {"QUEUED", "FAILED"} /\ job'[me.job].result = job[me.job].result
        /\ \A x \in AllTypes \ {me.job} : job'[x] = job[x]
    BY <1>1, <1>11 DEF FailWrite, Base, TypeOK
  <2>5. job[me.job].status = "RUNNING"
    BY <1>11 DEF Locked
  <2>6. Told(l)'
    BY <2>2, <2>4 DEF Told
  <2>7. job[me.job].result = "none"
    BY <1>1, <2>5 DEF Lone, Rows
  <2> HIDE DEF me
  <2>8. PICK t \in AllTypes : t = run[r].job
    BY <1>1 DEF me
  <2> QED BY <1>1, <2>2, <2>3, <2>4, <2>5, <2>6, <2>7, <2>8, EndedRow DEF me
<1>12. CASE FailRead(r) /\ job[run[r].job].status # "QUEUED"
  <2>1. PICK l : l = [me EXCEPT !.pc = "patch", !.outcome = "FAILED"]
    OBVIOUS
  <2>2. l.pc = "patch" /\ l.outcome = "FAILED" /\ l.job = me.job /\ l.mine = me.mine
    BY <1>0, <2>1 DEF RunStates
  <2>3. Set(r, l) /\ UNCHANGED job /\ me.pc = "fail.read"
    BY <1>12, <2>1 DEF FailRead, At
  <2>4. overlaps = 0 => Told(l)
    BY <1>2, <1>12, <2>2, <2>3 DEF Told
  <2>5. ASSUME overlaps # 0 PROVE Lone'
    <3>1. Rows'
      BY <2>3 DEF Lone, Rows
    <3> QED BY <1>1, <2>5, <3>1 DEF Lone
  <2> QED BY <1>3, <2>2, <2>3, <2>4, <2>5
<1> QED BY <1>8, <1>9, <1>10, <1>11, <1>12 DEF Complete, FailFind, FailWrite, FailRead, At

(* A patch blocks for an unsafe result or a final failure, and never       *)
(* unblocks.                                                               *)
LEMMA PatchBlocks ==
    ASSUME NEW a \in Assets, NEW t, NEW outcome, NEW result
    PROVE  Patched(a, t, outcome, result).status = "BLOCKED"
              <=> a.status = "BLOCKED" \/ IsUnsafe(t, outcome, result)
<1>1. CASE IsUnsafe(t, outcome, result)
  <2>1. Patched(a, t, outcome, result) = [a EXCEPT !.status = "BLOCKED", !.moderation = "BLOCKED"]
    BY <1>1 DEF Patched, IsUnsafe
  <2> QED BY <1>1, <2>1 DEF Assets
<1>2. CASE ~IsUnsafe(t, outcome, result)
  BY <1>2 DEF Patched, Assets
<1> QED BY <1>1, <1>2

(* The publisher patches the asset. *)
LEMMA PatchLone == ASSUME Base, Lone, NEW r \in Runs, Patch(r) PROVE Lone'
<1> DEFINE me == run[r]
<1>0. me \in RunStates /\ SoundLocals(me)
  BY DEF Base, TypeOK, Local
<1>1. me.pc = "patch" /\ me.job \in AllTypes /\ UNCHANGED <<job, cases, overlaps, faults>>
  BY <1>0 DEF Patch, At, SoundLocals, counters
<1>2. overlaps = 0 => /\ \A s \in Runs \ {r} : run[s].pc = "idle"
                      /\ BlockIsEarned /\ Told(me)
                      /\ faults = 0 => /\ Arriving(me)
                                       /\ \A x \in AllTypes : x # me.job => Arrived(x)
  BY <1>1, Before
<1>3. PICK t \in AllTypes : t = me.job
  BY <1>1
<1>4. PICK pc \in {"work", "case.find"} :
         Goto(r, pc) /\ (pc = "case.find" <=> NeedsCase(t, me.outcome, me.result))
  BY <1>3 DEF Patch, NextJob
<1>5. PICK k : k = [me EXCEPT !.pc = pc]
  OBVIOUS
<1>6. k.pc = pc /\ k.job = t /\ k.mine = me.mine
  BY <1>0, <1>3, <1>5 DEF RunStates
<1>7. Set(r, k)
  BY <1>4, <1>5 DEF Goto
<1>8. asset'.draft = Patched(asset.draft, t, me.outcome, me.result)
  BY <1>3 DEF Patch, Base, TypeOK
<1>9. Blocked' <=> Blocked \/ IsUnsafe(t, me.outcome, me.result)
  <2>1. asset.draft \in Assets
    BY DEF Base, TypeOK
  <2> QED BY <1>8, <2>1, PatchBlocks DEF Blocked
<1>10. Told(me) => (NeedsCase(t, me.outcome, me.result) <=> Bad(t))
  BY <1>1, <1>3 DEF Told, NeedsCase, Bad
<1>11. Told(me) /\ IsUnsafe(t, me.outcome, me.result) =>
          t # "TRANSFORM" /\ (job[t].status = "FAILED" \/ job[t].result = "unsafe")
  BY <1>1, <1>3 DEF Told, IsUnsafe
<1>12. Told(me) /\ Bad(t) /\ t # "TRANSFORM" => IsUnsafe(t, me.outcome, me.result)
  <2>1. me.outcome # "FAILED" => me.result \in {"passed", "unsafe", "unknown"} \/ t = "TRANSFORM"
    BY <1>0, <1>1, <1>3 DEF SoundLocals, Results
  <2> QED BY <1>1, <1>3, <2>1 DEF Told, IsUnsafe, Bad, NeedsCase
<1>13. Rows' /\ Told(k)'
  BY <1>1, <1>6 DEF Lone, Rows, Told
<1> HIDE DEF me
<1> SUFFICES ASSUME overlaps = 0
             PROVE  /\ BlockIsEarned'
                    /\ faults = 0 => /\ Arriving(k)'
                                     /\ \A x \in AllTypes : x # t => Arrived(x)'
  BY <1>1, <1>2, <1>6, <1>7, <1>13, LoneStep
<1>14. BlockIsEarned'
  <2>1. CASE IsUnsafe(t, me.outcome, me.result)
    BY <1>1, <1>2, <1>11, <2>1 DEF BlockIsEarned
  <2>2. CASE ~IsUnsafe(t, me.outcome, me.result)
    <3>1. asset'.draft.status = "BLOCKED" => Blocked
      BY <1>9, <2>2 DEF Blocked
    <3> QED BY <1>1, <1>2, <3>1, StillEarned
  <2> QED BY <2>1, <2>2
<1>15. ASSUME faults = 0 PROVE Arriving(k)'
  <2>1. Of(t) = {} /\ \A x \in k.mine : job[x].status = "RUNNING"
    BY <1>1, <1>2, <1>3, <1>6, <1>15 DEF Arriving
  <2>2. Of(t)' = {} /\ (Bad(t)' <=> Bad(t))
    BY <1>1, <2>1 DEF Of, Bad
  <2>3. pc = "work" => ~Bad(t) /\ Arrived(t)'
    BY <1>2, <1>4, <1>10, <2>2 DEF Arrived
  <2>4. pc = "case.find" => Bad(t) /\ (t # "TRANSFORM" => Blocked')
    BY <1>2, <1>4, <1>9, <1>10, <1>12
  <2> QED BY <1>1, <1>6, <2>1, <2>2, <2>3, <2>4 DEF Arriving
<1>16. ASSUME faults = 0, NEW x \in AllTypes, x # t PROVE Arrived(x)'
  BY <1>1, <1>2, <1>3, <1>9, <1>16, StillArrived
<1> QED BY <1>14, <1>15, <1>16

(* It looks for an open case, then creates one. *)
LEMMA CaseLone == ASSUME Base, Lone, NEW r \in Runs, CaseFind(r) \/ CaseCreate(r) PROVE Lone'
<1> DEFINE me == run[r]
<1>0. me \in RunStates /\ SoundLocals(me)
  BY DEF Base, TypeOK, Local
<1>1. /\ me.pc \in {"case.find", "case.create"} /\ me.job \in AllTypes
      /\ UNCHANGED <<job, asset, overlaps, faults>>
  BY <1>0 DEF CaseFind, CaseCreate, At, SoundLocals, counters
<1>2. overlaps = 0 => /\ \A s \in Runs \ {r} : run[s].pc = "idle"
                      /\ BlockIsEarned
                      /\ faults = 0 => /\ Arriving(me)
                                       /\ \A x \in AllTypes : x # me.job => Arrived(x)
  BY <1>1, Before
<1>3. PICK t \in AllTypes : t = me.job
  BY <1>1
<1>4. overlaps = 0 /\ faults = 0 => Of(t) = {} /\ Bad(t) /\ (t # "TRANSFORM" => Blocked)
  BY <1>1, <1>2, <1>3 DEF Arriving
<1>5. PICK pc \in {"work", "case.create"} :
         /\ Goto(r, pc)
         /\ pc = "work" => \/ CaseFind(r) /\ \E i \in DOMAIN cases : cases[i].job = t
                           \/ CaseCreate(r)
         /\ pc = "case.create" => CaseFind(r)
  BY <1>3 DEF CaseFind, CaseCreate, NextJob
<1>6. PICK k : k = [me EXCEPT !.pc = pc]
  OBVIOUS
<1>7. k.pc = pc /\ k.job = t /\ k.mine = me.mine
  BY <1>0, <1>3, <1>6 DEF RunStates
<1>8. Set(r, k)
  BY <1>5, <1>6 DEF Goto
<1>9. Rows' /\ Told(k)'
  BY <1>1, <1>7 DEF Lone, Rows, Told
<1>10. overlaps = 0 => BlockIsEarned'
  BY <1>1, <1>2, StillEarned DEF Blocked
<1>11. /\ \A x \in AllTypes : x # t => Of(x)' = Of(x)
       /\ CaseFind(r) => Of(t)' = Of(t)
       /\ CaseCreate(r) /\ Of(t) = {} => \E i \in Of(t)' : Of(t)' = {i}
  <2>1. CASE CaseFind(r)
    <3>1. cases' = cases /\ run[r].pc = "case.find"
      BY <2>1 DEF CaseFind, At
    <3>2. ~CaseCreate(r)
      BY <3>1 DEF CaseCreate, At
    <3> QED BY <3>1, <3>2 DEF Of
  <2>2. CASE CaseCreate(r)
    <3>1. PICK row : row = [job |-> t, status |-> "OPEN"]
      OBVIOUS
    <3>2. row.job = t /\ cases' = Append(cases, row) /\ run[r].pc = "case.create"
      BY <1>3, <2>2, <3>1 DEF CaseCreate, At
    <3>3. cases \in Seq(CaseRows) /\ row \in CaseRows
      BY <3>1 DEF Base, Recorded, CaseRows
    <3>4. /\ DOMAIN cases' = DOMAIN cases \cup {Len(cases) + 1} /\ Len(cases) + 1 \notin DOMAIN cases
          /\ cases'[Len(cases) + 1] = row /\ \A i \in DOMAIN cases : cases'[i] = cases[i]
      BY <3>2, <3>3
    <3>5. ~CaseFind(r)
      BY <3>2 DEF CaseFind, At
    <3>6. Of(t)' = Of(t) \cup {Len(cases) + 1}
      BY <3>2, <3>4 DEF Of
    <3>7. \A x \in AllTypes : x # t => Of(x)' = Of(x)
      BY <3>2, <3>4 DEF Of
    <3> QED BY <3>5, <3>6, <3>7
  <2> QED BY <2>1, <2>2
<1>12. \A x : (Bad(x)' <=> Bad(x)) /\ (Blocked' <=> Blocked)
  BY <1>1 DEF Bad, Blocked
<1>13. ASSUME overlaps = 0, faults = 0, NEW x \in AllTypes, x # t PROVE Arrived(x)'
  BY <1>2, <1>3, <1>11, <1>12, <1>13 DEF Arrived
<1>14. ASSUME overlaps = 0, faults = 0 PROVE Arriving(k)'
  <2>1. \A x \in k.mine : job'[x].status = "RUNNING"
    BY <1>1, <1>2, <1>7, <1>14 DEF Arriving
  <2>2. pc = "work" => CaseCreate(r)
    BY <1>4, <1>5, <1>14 DEF Of
  <2>3. pc = "work" => Arrived(t)'
    BY <1>4, <1>11, <1>12, <1>14, <2>2 DEF Arrived
  <2>4. pc = "case.create" => Of(t)' = {} /\ Bad(t)' /\ (t # "TRANSFORM" => Blocked')
    BY <1>4, <1>5, <1>11, <1>12, <1>14
  <2> QED BY <1>7, <2>1, <2>3, <2>4 DEF Arriving
<1> HIDE DEF me
<1> QED BY <1>1, <1>2, <1>7, <1>8, <1>9, <1>10, <1>13, <1>14, LoneStep

(* A run dies, or a call throws; from then on no verdict is promised. *)
LEMMA FaultLone == ASSUME Base, Lone, NEW r \in Runs, Throw(r) \/ Crash(r) PROVE Lone'
<1> DEFINE me == run[r]
<1>0. me \in RunStates /\ faults \in Nat
  BY DEF Base, TypeOK, Recorded
<1>1. /\ me.pc # "idle" /\ faults' = faults + 1
      /\ UNCHANGED <<job, asset, cases, overlaps>>
  BY DEF Throw, Crash, Fault, At
<1>2. faults' # 0
  BY <1>0, <1>1
<1>3. PICK k : Set(r, k) /\ k.pc \in {"idle", "fail.find"}
  <2>1. Idle.pc = "idle" /\ [me EXCEPT !.pc = "fail.find", !.retry = TRUE, !.caught = TRUE].pc = "fail.find"
    BY <1>0 DEF Idle, RunStates
  <2> QED BY <2>1 DEF Throw, Crash
<1>4. Told(k)
  BY <1>3 DEF Told
<1>5. overlaps = 0 => \A s \in Runs \ {r} : run[s].pc = "idle"
  BY <1>1, Before
<1> HIDE DEF me
<1> QED BY <1>1, <1>2, <1>3, <1>4, <1>5, OwnStep

LEMMA LoneInvariant == Spec => []Lone
<1>1. Init => Lone
  BY DEF Init, Lone, Rows, Alone, BlockIsEarned, Told, Arriving, Arrived, Bad, Of, Blocked,
         NoJob, NoAsset, Idle, NeedsCase
<1>2. Base /\ Lone /\ [Next]_vars => Lone'
  <2> SUFFICES ASSUME Base, Lone, [Next]_vars PROVE Lone'
    OBVIOUS
  <2>1. CASE UNCHANGED vars
    <3>1. UNCHANGED <<job, asset, cases, run, overlaps, faults>>
      BY <2>1 DEF vars
    <3>2. (\A t : Of(t)' = Of(t)) /\ (Blocked' <=> Blocked)
      BY <3>1 DEF Of, Blocked
    <3> QED BY <3>1, <3>2, OthersStep
  <2>2. ASSUME NEW r \in Runs, Worker(r) PROVE Lone'
    BY <2>2, BatchLone, EndingLone, PatchLone, CaseLone, FaultLone DEF Worker, Step
  <2> QED BY <2>1, <2>2, UploadsLone, ModeratorsLone DEF Next
<1> QED BY <1>1, <1>2, TypeCorrect, LocalInvariant, RecordedInvariant, PTL DEF Spec, Base

(* As long as no run begins during another, whatever dies or throws, media *)
(* is blocked only for a reason; and if nothing dies or throws, every      *)
(* verdict reaches the asset and, once, the moderators.                    *)
THEOREM VerdictPublished == Spec => []VerdictIsPublished
<1>1. Lone => VerdictIsPublished
  <2> SUFFICES ASSUME Lone, overlaps = 0 PROVE BlockIsEarned /\ (faults = 0 => VerdictArrives)
    BY DEF VerdictIsPublished, Undisturbed
  <2>1. BlockIsEarned
    BY DEF Lone
  <2>2. ASSUME faults = 0, NEW t \in AllTypes, \A r \in Runs : run[r].job # t
        PROVE  /\ Bad(t) /\ t # "TRANSFORM" => asset.draft.status = "BLOCKED"
               /\ Cardinality(Of(t)) = IF Bad(t) THEN 1 ELSE 0
    <3>1. Arrived(t)
      BY <2>2 DEF Lone
    <3>2. CASE Bad(t)
      BY <3>1, <3>2, FS_Singleton DEF Arrived, Blocked
    <3>3. CASE ~Bad(t)
      BY <3>1, <3>3, FS_EmptySet DEF Arrived
    <3> QED BY <3>2, <3>3
  <2> QED BY <2>1, <2>2 DEF VerdictArrives, Of, Bad
<1> QED BY <1>1, LoneInvariant, PTL
-----------------------------------------------------------------------------
(* Moderators at the review cases.  An operation reads a case, awaits, writes   *)
(* where the case is still open, reads it again and puts that on the audit.     *)

(* What cases, playbooks, operations and audit entries look like.               *)
Playbooks ==
    [kind : {"none", "CHILD_SAFETY", "CYBER_INCIDENT", "CONTENT_ABUSE", "INTERNAL"},
     channels : SUBSET {"INTERNAL_LEGAL_HOLD", "NCMEC_CYBERTIPLINE", "KE_CIRT_CHILD_RELATED",
                        "HOSTING_ABUSE", "KE_CIRT_INCIDENT"},
     reportDueAt : Nat, legalHoldUntil : Nat]
Somebody == Reviewers \cup {"nobody"}
ReviewRows ==
    [status : {"OPEN", "RESOLVED", "ESCALATED", "DISMISSED"}, openedAt : {0},
     resolution : mediaReviewResolutions \cup {"none"}, by : Somebody, notes : Somebody,
     escalation : Playbooks, assignedTo : Somebody, openings : Nat \ {0}]
Inputs ==
    [resolution : mediaReviewResolutions \cup {"none"}, notes : BOOLEAN, playbook : Playbooks,
     to : Somebody]
Operations ==
    [op : {"resolve", "assign", "reopen"}, case : ReviewCases, pc : {"write", "audit"},
     asked : Inputs, opening : Nat]
AuditEntries ==
    [by : Reviewers, meant : mediaReviewResolutions \cup {"none"}, escalation : Playbooks,
     resolution : mediaReviewResolutions \cup {"none"}, opening : Nat, read : Nat]

ReviewTyped ==
    /\ case \in [ReviewCases -> ReviewRows]
    /\ audit \in [ReviewCases -> Seq(AuditEntries)]
    /\ review \in [Reviewers -> {NoReview} \cup Operations]
    /\ tally \in [calls : Nat, overlaps : Nat, deaths : Nat] /\ day \in Nat

(* A playbook is there if the decision demands one, for a country that has one. *)
Fits(playbook, resolution, c) ==
    /\ (playbook # NoPlaybook) = mediaEscalationRequiresPlaybook(resolution, c)
    /\ mediaEscalationRequiresPlaybook(resolution, c) =>
          /\ Opened[c].country \in approvedMediaEscalationCountries
          /\ playbook.kind # "none" /\ playbook.legalHoldUntil > playbook.reportDueAt

(* A case is open, or is as its decision says.                                  *)
RowSound(row, c) ==
    /\ row.resolution = "none" => row.status = "OPEN" /\ row.by = "nobody" /\ row.escalation = NoPlaybook
    /\ row.resolution # "none" =>
          /\ row.status = statusForResolution(row.resolution)
          /\ row.by # "nobody" /\ Opened[c].country \in Reach[row.by]
          /\ mediaReviewRequiresMistakenClassification(row.resolution, c) => row.notes = row.by
          /\ Fits(row.escalation, row.resolution, c)

(* A decision in progress passed its gates, and once it is written it is what   *)
(* the case says until the case is opened again.                                *)
OperationSound(m, k) ==
    k # NoReview =>
        /\ Opened[k.case].country \in Reach[m]
        /\ k.op = "resolve" =>
              /\ k.asked.resolution # "none"
              /\ mediaReviewRequiresMistakenClassification(k.asked.resolution, k.case) => k.asked.notes
              /\ Fits(k.asked.playbook, k.asked.resolution, k.case)
        /\ k.pc = "audit" =>
              /\ k.opening <= case[k.case].openings
              /\ k.op = "resolve" /\ k.opening = case[k.case].openings =>
                    /\ case[k.case].resolution = k.asked.resolution
                    /\ case[k.case].escalation = k.asked.playbook

(* Decisions of a case, those still to be put on the audit, and that the audit  *)
(* has the others.                                                              *)
Pends(k, c) == k.op = "resolve" /\ k.pc = "audit" /\ k.case = c
Pending(c) == {m \in Reviewers : Pends(review[m], c)}
Decisions(row) == row.openings - IF row.status = "OPEN" THEN 1 ELSE 0
AuditComplete(c) ==
    /\ Len(audit[c]) + Cardinality(Pending(c)) <= Decisions(case[c])
    /\ tally.deaths = 0 => Len(audit[c]) + Cardinality(Pending(c)) = Decisions(case[c])

EntrySound(entry, c) ==
    entry.read = entry.opening =>
        /\ entry.resolution = entry.meant
        /\ (entry.escalation # NoPlaybook) = mediaEscalationRequiresPlaybook(entry.meant, c)

ReviewInv ==
    /\ ReviewTyped
    /\ \A c \in ReviewCases : /\ RowSound(case[c], c) /\ AuditComplete(c)
                              /\ \A i \in DOMAIN audit[c] : EntrySound(audit[c][i], c)
    /\ \A m \in Reviewers : OperationSound(m, review[m])

LEMMA Counts ==
    ASSUME ReviewTyped, NEW c \in ReviewCases
    PROVE  /\ Len(audit[c]) \in Nat /\ audit[c] \in Seq(AuditEntries)
           /\ case[c] \in ReviewRows /\ case[c].openings \in Nat /\ Decisions(case[c]) \in Int
<1>1. case[c] \in ReviewRows /\ audit[c] \in Seq(AuditEntries)
  BY DEF ReviewTyped
<1>2. case[c].openings \in Nat
  BY <1>1 DEF ReviewRows
<1> QED BY <1>1, <1>2 DEF Decisions

LEMMA NoReviewIs ==
    /\ NoReview.op = "none" /\ NoReview.pc = "idle" /\ NoPlaybook \in Playbooks
    /\ NoPlaybook.kind = "none" /\ NoInput \in Inputs /\ NoReview \notin Operations
    /\ \A c : ~Pends(NoReview, c)
  BY DEF NoReview, NoPlaybook, NoInput, Playbooks, Inputs, Somebody, Operations, Pends

(* Who has still to put a decision on the audit, after one operation moved.     *)
LEMMA PendingMoves ==
    ASSUME ReviewTyped, NEW m \in Reviewers, NEW k, review' = [review EXCEPT ![m] = k], NEW c
    PROVE  /\ IsFiniteSet(Pending(c)) /\ Cardinality(Pending(c)) \in Nat
           /\ Pends(k, c) = Pends(review[m], c) => Pending(c)' = Pending(c)
           /\ Pends(k, c) /\ ~Pends(review[m], c) =>
                 Cardinality(Pending(c)') = Cardinality(Pending(c)) + 1
           /\ ~Pends(k, c) /\ Pends(review[m], c) =>
                 Cardinality(Pending(c)') = Cardinality(Pending(c)) - 1
<1>1. IsFiniteSet(Pending(c)) /\ Cardinality(Pending(c)) \in Nat
  <2>1. Pending(c) \subseteq Reviewers
    BY DEF Pending
  <2> QED BY <2>1, ReviewAssumption, FS_Subset, FS_CardinalityType
<1>2. \A n \in Reviewers : review'[n] = IF n = m THEN k ELSE review[n]
  BY DEF ReviewTyped
<1>3. ASSUME Pends(k, c) = Pends(review[m], c) PROVE Pending(c)' = Pending(c)
  <2>1. \A n \in Reviewers : Pends(review[n], c)' = Pends(review[n], c)
    BY <1>2, <1>3 DEF Pends
  <2> QED BY <2>1 DEF Pending
<1>4. ASSUME Pends(k, c), ~Pends(review[m], c)
      PROVE  Cardinality(Pending(c)') = Cardinality(Pending(c)) + 1
  <2>1. Pending(c)' = Pending(c) \cup {m} /\ m \notin Pending(c)
    BY <1>2, <1>4 DEF Pending, Pends
  <2> QED BY <1>1, <2>1, FS_AddElement
<1>5. ASSUME ~Pends(k, c), Pends(review[m], c)
      PROVE  Cardinality(Pending(c)') = Cardinality(Pending(c)) - 1
  <2>1. Pending(c)' = Pending(c) \ {m} /\ m \in Pending(c)
    BY <1>2, <1>5 DEF Pending, Pends
  <2> QED BY <1>1, <2>1, FS_RemoveElement
<1> QED BY <1>1, <1>3, <1>4, <1>5

(* An operation that writes no case and puts nothing on the audit, and is no    *)
(* decision that waits for the audit.                                           *)
LEMMA Steps ==
    ASSUME ReviewInv, NEW m \in Reviewers, NEW k \in {NoReview} \cup Operations,
           review' = [review EXCEPT ![m] = k], UNCHANGED <<case, audit, day>>,
           OperationSound(m, k),
           \A c \in ReviewCases : ~Pends(k, c),
           tally' \in [calls : Nat, overlaps : Nat, deaths : Nat],
           \/ tally'.deaths = tally.deaths /\ \A c \in ReviewCases : ~Pends(review[m], c)
           \/ tally'.deaths # 0
    PROVE  ReviewInv'
<1>1. ReviewTyped'
  BY DEF ReviewInv, ReviewTyped
<1>2. \A n \in Reviewers : review'[n] = IF n = m THEN k ELSE review[n]
  BY DEF ReviewInv, ReviewTyped
<1>3. \A n \in Reviewers : OperationSound(n, review[n])'
  BY <1>2 DEF ReviewInv, OperationSound
<1>4. ASSUME NEW c \in ReviewCases PROVE AuditComplete(c)'
  <2>1. Cardinality(Pending(c)) \in Nat /\ Len(audit[c]) \in Nat /\ Decisions(case[c]) \in Int
    BY PendingMoves, Counts DEF ReviewInv
  <2>2. UNCHANGED <<case[c], audit[c]>>
    OBVIOUS
  <2>3. CASE Pends(review[m], c)
    <3>1. Cardinality(Pending(c)') = Cardinality(Pending(c)) - 1
      BY <2>3, PendingMoves DEF ReviewInv
    <3> QED BY <2>1, <2>2, <2>3, <3>1 DEF ReviewInv, AuditComplete
  <2>4. CASE ~Pends(review[m], c)
    <3>1. Pending(c)' = Pending(c)
      BY <2>4, PendingMoves DEF ReviewInv, Pends
    <3> QED BY <2>1, <2>2, <3>1 DEF ReviewInv, AuditComplete
  <2> QED BY <2>3, <2>4
<1>5. \A c \in ReviewCases :
         RowSound(case[c], c)' /\ \A i \in DOMAIN audit'[c] : EntrySound(audit'[c][i], c)
  BY DEF ReviewInv
<1> QED BY <1>1, <1>3, <1>4, <1>5 DEF ReviewInv

(* A playbook is of a kind, and holds the media until after its report.         *)
LEMMA PlaybookIs ==
    ASSUME NEW c, day \in Nat
    PROVE  LET playbook == resolveMediaEscalationPlaybook(c, day)
           IN  /\ playbook \in Playbooks /\ playbook.kind # "none"
               /\ playbook.legalHoldUntil > playbook.reportDueAt
<1>1. PICK kind \in {"CHILD_SAFETY", "CYBER_INCIDENT", "CONTENT_ABUSE", "INTERNAL"} :
         kind = classifyEscalationKind(c)
  BY DEF classifyEscalationKind
<1>2. PICK reportDays \in Nat :
         reportDays = CASE kind = "CONTENT_ABUSE" -> 3 [] kind = "INTERNAL" -> 7 [] OTHER -> 1
  BY <1>1
<1>3. PICK holdDays \in Nat :
         holdDays = CASE kind = "CHILD_SAFETY" -> 365 [] kind = "INTERNAL" -> 30 [] OTHER -> 90
  BY <1>1
<1>4. reportDays < holdDays
  BY <1>1, <1>2, <1>3
<1>5. channelsForKind(kind) \in SUBSET
         {"INTERNAL_LEGAL_HOLD", "NCMEC_CYBERTIPLINE", "KE_CIRT_CHILD_RELATED", "HOSTING_ABUSE",
          "KE_CIRT_INCIDENT"}
  BY <1>1 DEF channelsForKind
<1>6. resolveMediaEscalationPlaybook(c, day)
         = [kind |-> kind, channels |-> channelsForKind(kind),
            reportDueAt |-> day + reportDays, legalHoldUntil |-> day + holdDays]
  BY <1>1, <1>2, <1>3 DEF resolveMediaEscalationPlaybook
<1> QED BY <1>1, <1>4, <1>5, <1>6 DEF Playbooks

LEMMA BeginStep ==
    ASSUME ReviewInv, NEW m \in Reviewers, NEW c \in ReviewCases,
           resolveCase(m, c) \/ assignCase(m, c) \/ reopenCase(m, c)
    PROVE  ReviewInv'
<1>1. PICK op \in {"resolve", "assign", "reopen"}, asked \in Inputs :
         /\ BeginReview(m, c, op, asked)
         /\ op = "resolve" =>
              /\ asked.resolution # "none"
              /\ mediaReviewRequiresMistakenClassification(asked.resolution, c) => asked.notes
              /\ Fits(asked.playbook, asked.resolution, c)
  <2>1. CASE resolveCase(m, c)
    <3>1. PICK input \in [resolution : mediaReviewResolutions, mistaken : BOOLEAN, notes : BOOLEAN] :
             /\ evaluateMediaReviewResolution(input, c)
             /\ mediaEscalationRequiresPlaybook(input.resolution, c) =>
                   Opened[c].country \in approvedMediaEscalationCountries
             /\ BeginReview(m, c, "resolve",
                   [NoInput EXCEPT !.resolution = input.resolution, !.notes = input.notes,
                                   !.playbook = playbookForResolution(input.resolution, c)])
      BY <2>1 DEF resolveCase
    <3>2. PICK playbook : playbook = playbookForResolution(input.resolution, c)
      OBVIOUS
    <3>3. playbook \in Playbooks /\ Fits(playbook, input.resolution, c)
      <4>1. CASE mediaEscalationRequiresPlaybook(input.resolution, c)
        <5>1. playbook = resolveMediaEscalationPlaybook(c, day)
          BY <3>2, <4>1 DEF playbookForResolution
        <5>2. /\ playbook \in Playbooks /\ playbook.kind # "none"
              /\ playbook.legalHoldUntil > playbook.reportDueAt
          BY <5>1, PlaybookIs DEF ReviewInv, ReviewTyped
        <5> QED BY <3>1, <4>1, <5>2, NoReviewIs DEF Fits
      <4>2. CASE ~mediaEscalationRequiresPlaybook(input.resolution, c)
        BY <3>2, <4>2, NoReviewIs DEF playbookForResolution, Fits, mediaEscalationRequiresPlaybook
      <4> QED BY <4>1, <4>2
    <3>4. PICK asked : asked = [NoInput EXCEPT !.resolution = input.resolution, !.notes = input.notes,
                                               !.playbook = playbook]
      OBVIOUS
    <3>5. /\ asked \in Inputs /\ asked.resolution = input.resolution /\ asked.notes = input.notes
          /\ asked.playbook = playbook
      BY <3>3, <3>4, NoReviewIs DEF Inputs
    <3>6. asked.resolution # "none" /\ BeginReview(m, c, "resolve", asked)
      BY <3>1, <3>2, <3>4, <3>5 DEF mediaReviewResolutions
    <3>7. mediaReviewRequiresMistakenClassification(asked.resolution, c) => asked.notes
      BY <3>1, <3>5 DEF evaluateMediaReviewResolution
    <3> QED BY <3>3, <3>5, <3>6, <3>7
  <2>2. CASE assignCase(m, c)
    <3>1. PICK n \in Reviewers : BeginReview(m, c, "assign", [NoInput EXCEPT !.to = n])
      BY <2>2 DEF assignCase
    <3>2. [NoInput EXCEPT !.to = n] \in Inputs
      BY NoReviewIs DEF Inputs, Somebody
    <3> QED BY <3>1, <3>2
  <2>3. CASE reopenCase(m, c)
    BY <2>3, NoReviewIs DEF reopenCase
  <2> QED BY <2>1, <2>2, <2>3
<1>2. PICK k : k = [op |-> op, case |-> c, pc |-> "write", asked |-> asked, opening |-> 0]
  OBVIOUS
<1>3. k \in Operations /\ k.pc = "write" /\ k.op = op /\ k.case = c /\ k.asked = asked
  BY <1>1, <1>2 DEF Operations
<1>4. /\ review' = [review EXCEPT ![m] = k] /\ UNCHANGED <<case, audit, day>>
      /\ review[m] = NoReview /\ Opened[c].country \in Reach[m]
  BY <1>1, <1>2 DEF BeginReview
<1>5. tally' \in [calls : Nat, overlaps : Nat, deaths : Nat] /\ tally'.deaths = tally.deaths
  <2>1. PICK begun, overlapped :
             /\ begun = tally.calls + 1 /\ overlapped \in {tally.overlaps, tally.overlaps + 1}
             /\ tally' = [tally EXCEPT !.calls = begun, !.overlaps = overlapped]
    BY <1>1 DEF BeginReview
  <2>2. tally \in [calls : Nat, overlaps : Nat, deaths : Nat]
    BY DEF ReviewInv, ReviewTyped
  <2>3. begun \in Nat /\ overlapped \in Nat
    BY <2>1, <2>2
  <2> QED BY <2>1, <2>2, <2>3
<1>6. OperationSound(m, k)
  BY <1>1, <1>3, <1>4 DEF OperationSound
<1>7. \A d \in ReviewCases : ~Pends(k, d) /\ ~Pends(review[m], d)
  BY <1>3, <1>4, NoReviewIs DEF Pends
<1> QED BY <1>3, <1>4, <1>5, <1>6, <1>7, Steps

(* A write of a case: a decision makes one more, any other write none; what     *)
(* others have decided since the last opening is kept.                          *)
LEMMA WriteStep ==
    ASSUME ReviewInv, NEW m \in Reviewers, review[m] # NoReview, review[m].pc = "write",
           NEW row \in ReviewRows, Written(m, review[m].case, row), UNCHANGED <<audit, tally, day>>,
           RowSound(row, review[m].case),
           row.openings >= case[review[m].case].openings,
           case[review[m].case].status = "OPEN" \/ row.openings > case[review[m].case].openings,
           Decisions(row) = Decisions(case[review[m].case]) + IF review[m].op = "resolve" THEN 1 ELSE 0,
           review[m].op = "resolve" => /\ row.resolution = review[m].asked.resolution
                                       /\ row.escalation = review[m].asked.playbook
    PROVE  ReviewInv'
<1>1. PICK k, c : k = review[m] /\ c = k.case
  OBVIOUS
<1>2. k \in Operations /\ c \in ReviewCases
  BY <1>1 DEF ReviewInv, ReviewTyped, Operations
<1>3. PICK j : j = [k EXCEPT !.pc = "audit", !.opening = row.openings]
  OBVIOUS
<1>4. /\ j \in Operations /\ j.case = c /\ j.op = k.op /\ j.asked = k.asked /\ j.pc = "audit"
      /\ j.opening = row.openings
  BY <1>1, <1>2, <1>3 DEF Operations, ReviewRows
<1>5. case' = [case EXCEPT ![c] = row] /\ review' = [review EXCEPT ![m] = j]
  BY <1>1, <1>3 DEF Written
<1>6. ReviewTyped'
  BY <1>2, <1>4, <1>5 DEF ReviewInv, ReviewTyped
<1>7. /\ \A d \in ReviewCases : case'[d] = IF d = c THEN row ELSE case[d]
      /\ \A n \in Reviewers : review'[n] = IF n = m THEN j ELSE review[n]
  BY <1>2, <1>5 DEF ReviewInv, ReviewTyped
<1>8. ASSUME NEW n \in Reviewers PROVE OperationSound(n, review[n])'
  <2>1. CASE n = m
    <3>1. OperationSound(m, k) /\ k # NoReview
      BY <1>1 DEF ReviewInv
    <3>2. row.openings \in Nat
      BY DEF ReviewRows
    <3> QED BY <1>1, <1>2, <1>4, <1>7, <2>1, <3>1, <3>2 DEF OperationSound
  <2>2. CASE n # m
    <3>1. PICK q : q = review[n]
      OBVIOUS
    <3>2. review'[n] = q /\ OperationSound(n, q)
      BY <1>7, <2>2, <3>1 DEF ReviewInv
    <3>3. CASE q = NoReview
      BY <3>2, <3>3 DEF OperationSound
    <3>4. CASE q # NoReview /\ q.case # c
      <4>1. q.case \in ReviewCases
        BY <3>1, <3>4 DEF ReviewInv, ReviewTyped, Operations
      <4> QED BY <1>7, <3>2, <3>4, <4>1 DEF OperationSound
    <3>5. CASE q # NoReview /\ q.case = c
      <4>1. q.opening \in Nat /\ row.openings \in Nat /\ case[c].openings \in Nat /\ q.op # "none"
        BY <1>2, <3>1, <3>5 DEF ReviewInv, ReviewTyped, Operations, ReviewRows
      <4>2. case'[c] = row /\ row.openings >= case[c].openings
        BY <1>1, <1>2, <1>7
      <4>3. ASSUME q.pc = "audit", q.op = "resolve", q.opening = row.openings PROVE FALSE
        <5>1. q.opening <= case[c].openings
          BY <3>2, <3>5, <4>3 DEF OperationSound
        <5>2. row.openings = case[c].openings /\ case[c].status = "OPEN"
          BY <1>1, <4>1, <4>2, <4>3, <5>1
        <5>3. case[c].resolution = q.asked.resolution /\ q.asked.resolution # "none"
          BY <3>2, <3>5, <4>3, <5>2 DEF OperationSound
        <5>4. RowSound(case[c], c) /\ case[c].resolution \in mediaReviewResolutions \cup {"none"}
          BY <1>2 DEF ReviewInv, ReviewTyped, ReviewRows
        <5> QED BY <5>2, <5>3, <5>4 DEF RowSound, statusForResolution
      <4>4. q.pc = "audit" => q.opening <= row.openings
        BY <3>2, <3>5, <4>1, <4>2 DEF OperationSound
      <4> QED BY <3>2, <3>5, <4>2, <4>3, <4>4 DEF OperationSound
    <3> QED BY <3>3, <3>4, <3>5
  <2> QED BY <2>1, <2>2
<1>9. ASSUME NEW d \in ReviewCases PROVE AuditComplete(d)'
  <2>1. /\ Cardinality(Pending(d)) \in Nat /\ Len(audit[d]) \in Nat
        /\ Decisions(case[d]) \in Int
    BY <1>5, PendingMoves, Counts DEF ReviewInv
  <2>2. ~Pends(review[m], d) /\ (Pends(j, d) <=> d = c /\ k.op = "resolve")
    BY <1>4 DEF Pends
  <2>3. CASE d = c /\ k.op = "resolve"
    <3>1. Cardinality(Pending(d)') = Cardinality(Pending(d)) + 1
      BY <1>5, <2>2, <2>3, PendingMoves DEF ReviewInv
    <3>2. Decisions(case'[d]) = Decisions(case[d]) + 1 /\ audit'[d] = audit[d]
      BY <1>1, <1>7, <2>3
    <3> QED BY <2>1, <3>1, <3>2 DEF ReviewInv, AuditComplete
  <2>4. CASE ~(d = c /\ k.op = "resolve")
    <3>1. Pending(d)' = Pending(d)
      BY <1>5, <2>2, <2>4, PendingMoves DEF ReviewInv, Pends
    <3>2. Decisions(case'[d]) = Decisions(case[d]) /\ audit'[d] = audit[d]
      BY <1>1, <1>7, <2>1, <2>4
    <3> QED BY <2>1, <3>1, <3>2 DEF ReviewInv, AuditComplete
  <2> QED BY <2>3, <2>4
<1>10. \A d \in ReviewCases :
          RowSound(case[d], d)' /\ \A i \in DOMAIN audit'[d] : EntrySound(audit'[d][i], d)
  BY <1>1, <1>7 DEF ReviewInv
<1> QED BY <1>6, <1>8, <1>9, <1>10 DEF ReviewInv

(* A write that comes too late.                                                 *)
LEMMA RefuseStep ==
    ASSUME ReviewInv, NEW m \in Reviewers, review[m].pc = "write", Refuse(m),
           UNCHANGED <<audit, tally, day>>
    PROVE  ReviewInv'
<1>1. /\ review' = [review EXCEPT ![m] = NoReview] /\ UNCHANGED <<case, audit, day>>
      /\ tally' \in [calls : Nat, overlaps : Nat, deaths : Nat] /\ tally'.deaths = tally.deaths
  BY DEF Refuse, ReviewInv, ReviewTyped
<1>2. OperationSound(m, NoReview) /\ \A c \in ReviewCases : ~Pends(NoReview, c) /\ ~Pends(review[m], c)
  BY NoReviewIs DEF OperationSound, Pends
<1> QED BY <1>1, <1>2, Steps

LEMMA ResolutionStep ==
    ASSUME ReviewInv, NEW m \in Reviewers, writeResolution(m)
    PROVE  ReviewInv'
<1>1. PICK k, c, was : k = review[m] /\ c = k.case /\ was = case[c]
  OBVIOUS
<1>2. k.op = "resolve" /\ k.pc = "write" /\ UNCHANGED <<audit, tally, day>>
  BY <1>1 DEF writeResolution, ReviewAt
<1>3. k # NoReview /\ k \in Operations /\ c \in ReviewCases /\ was \in ReviewRows /\ OperationSound(m, k)
  BY <1>1, <1>2, NoReviewIs DEF ReviewInv, ReviewTyped, Operations
<1>4. PICK row : row = [was EXCEPT !.status = statusForResolution(k.asked.resolution),
                                   !.resolution = k.asked.resolution, !.by = m,
                                   !.notes = IF k.asked.notes THEN m ELSE @,
                                   !.escalation = k.asked.playbook]
  OBVIOUS
<1>5. CASE was.status = "OPEN"
  <2>1. Written(m, c, row)
    BY <1>1, <1>4, <1>5 DEF writeResolution
  <2>2. k.asked \in Inputs /\ k.asked.resolution \in mediaReviewResolutions
    BY <1>2, <1>3 DEF Operations, Inputs, OperationSound
  <2>3. /\ row \in ReviewRows /\ row.resolution = k.asked.resolution /\ row.by = m
        /\ row.escalation = k.asked.playbook /\ row.openings = was.openings
        /\ row.status = statusForResolution(k.asked.resolution) /\ row.status # "OPEN"
        /\ k.asked.notes => row.notes = m
    <3>1. statusForResolution(k.asked.resolution) \in {"RESOLVED", "ESCALATED", "DISMISSED"}
      BY <2>2 DEF statusForResolution, mediaReviewResolutions
    <3>2. PICK s, r, n, p : /\ s = statusForResolution(k.asked.resolution) /\ r = k.asked.resolution
                            /\ n = (IF k.asked.notes THEN m ELSE was.notes) /\ p = k.asked.playbook
      OBVIOUS
    <3>3. /\ s \in {"RESOLVED", "ESCALATED", "DISMISSED"} /\ r \in mediaReviewResolutions
          /\ n \in Somebody /\ p \in Playbooks /\ m \in Somebody
      BY <1>3, <2>2, <3>1, <3>2 DEF Inputs, ReviewRows, Somebody
    <3>4. row = [was EXCEPT !.status = s, !.resolution = r, !.by = m, !.notes = n, !.escalation = p]
      BY <1>3, <1>4, <3>2 DEF ReviewRows
    <3>5. /\ row \in ReviewRows /\ row.resolution = r /\ row.by = m /\ row.escalation = p
          /\ row.openings = was.openings /\ row.status = s /\ row.notes = n
      BY <1>3, <3>3, <3>4 DEF ReviewRows
    <3> QED BY <3>2, <3>3, <3>5
  <2>4. RowSound(row, c)
    BY <1>1, <1>2, <1>3, <2>3, ReviewAssumption DEF RowSound, OperationSound
  <2>5. Decisions(row) = Decisions(was) + 1 /\ row.openings >= was.openings
    BY <1>3, <1>5, <2>3 DEF Decisions, ReviewRows
  <2> QED BY <1>1, <1>2, <1>3, <1>5, <2>1, <2>3, <2>4, <2>5, WriteStep
<1>6. CASE was.status # "OPEN"
  BY <1>1, <1>2, <1>6, RefuseStep DEF writeResolution
<1> QED BY <1>5, <1>6

LEMMA AssignmentStep ==
    ASSUME ReviewInv, NEW m \in Reviewers, writeAssignment(m)
    PROVE  ReviewInv'
<1>1. PICK k, c, was : k = review[m] /\ c = k.case /\ was = case[c]
  OBVIOUS
<1>2. k.op = "assign" /\ k.pc = "write" /\ UNCHANGED <<audit, tally, day>>
  BY <1>1 DEF writeAssignment, ReviewAt
<1>3. k # NoReview /\ k \in Operations /\ c \in ReviewCases /\ was \in ReviewRows /\ RowSound(was, c)
  BY <1>1, <1>2, NoReviewIs DEF ReviewInv, ReviewTyped, Operations
<1>4. PICK row : row = [was EXCEPT !.assignedTo = k.asked.to]
  OBVIOUS
<1>5. CASE was.status = "OPEN"
  <2>1. Written(m, c, row)
    BY <1>1, <1>4, <1>5 DEF writeAssignment
  <2>2. /\ row \in ReviewRows /\ row.resolution = was.resolution /\ row.by = was.by
        /\ row.notes = was.notes
        /\ row.escalation = was.escalation /\ row.openings = was.openings
        /\ row.status = was.status
    BY <1>3, <1>4 DEF ReviewRows, Operations, Inputs
  <2>3. RowSound(row, c)
    BY <1>3, <2>2 DEF RowSound
  <2>4. Decisions(row) = Decisions(was) + 0 /\ row.openings >= was.openings
    BY <1>3, <2>2 DEF Decisions, ReviewRows
  <2> QED BY <1>1, <1>2, <1>3, <1>5, <2>1, <2>2, <2>3, <2>4, WriteStep
<1>6. CASE was.status # "OPEN"
  BY <1>1, <1>2, <1>6, RefuseStep DEF writeAssignment
<1> QED BY <1>5, <1>6

LEMMA ReopeningStep ==
    ASSUME ReviewInv, NEW m \in Reviewers, writeReopening(m)
    PROVE  ReviewInv'
<1>1. PICK k, c, was : k = review[m] /\ c = k.case /\ was = case[c]
  OBVIOUS
<1>2. k.op = "reopen" /\ k.pc = "write" /\ UNCHANGED <<audit, tally, day>>
  BY <1>1 DEF writeReopening, ReviewAt
<1>3. k # NoReview /\ k \in Operations /\ c \in ReviewCases /\ was \in ReviewRows /\ RowSound(was, c)
  BY <1>1, <1>2, NoReviewIs DEF ReviewInv, ReviewTyped, Operations
<1>4. PICK openings, row : /\ openings = was.openings + 1
                           /\ row = [was EXCEPT !.status = "OPEN", !.resolution = "none",
                                               !.by = "nobody", !.openings = openings]
  OBVIOUS
<1>5. CASE was.status = "DISMISSED"
  <2>1. Written(m, c, row)
    BY <1>1, <1>4, <1>5 DEF writeReopening
  <2>7. openings \in Nat \ {0}
    BY <1>3, <1>4 DEF ReviewRows
  <2>2. /\ row \in ReviewRows /\ row.resolution = "none" /\ row.by = "nobody" /\ row.status = "OPEN"
        /\ row.escalation = was.escalation /\ row.openings = was.openings + 1
    BY <1>3, <1>4, <2>7 DEF ReviewRows, Somebody
  <2>3. was.resolution = "DISMISSED"
    BY <1>3, <1>5 DEF RowSound, statusForResolution, ReviewRows
  <2>4. was.escalation = NoPlaybook
    BY <1>3, <2>3 DEF RowSound, Fits, mediaEscalationRequiresPlaybook
  <2>5. RowSound(row, c)
    BY <2>2, <2>4 DEF RowSound
  <2>6. /\ Decisions(row) = Decisions(was) + 0 /\ row.openings >= was.openings
        /\ row.openings > was.openings
    BY <1>3, <1>5, <2>2 DEF Decisions, ReviewRows
  <2> QED BY <1>1, <1>2, <1>3, <1>5, <2>1, <2>2, <2>5, <2>6, WriteStep
<1>6. CASE was.status # "DISMISSED"
  BY <1>1, <1>2, <1>6, RefuseStep DEF writeReopening
<1> QED BY <1>5, <1>6

(* The audit gets what the case says by then.                                   *)
LEMMA AuditStep ==
    ASSUME ReviewInv, NEW m \in Reviewers, recordTenantAudit(m)
    PROVE  ReviewInv'
<1>1. PICK k, c, is : k = review[m] /\ c = k.case /\ is = case[c]
  OBVIOUS
<1>2. k.pc = "audit" /\ review' = [review EXCEPT ![m] = NoReview] /\ UNCHANGED <<case, tally, day>>
  BY <1>1 DEF recordTenantAudit
<1>3. k # NoReview /\ k \in Operations /\ c \in ReviewCases /\ is \in ReviewRows /\ OperationSound(m, k)
  BY <1>1, <1>2, NoReviewIs DEF ReviewInv, ReviewTyped, Operations
<1>4. CASE k.op # "resolve"
  <2>1. UNCHANGED audit
    BY <1>1, <1>4 DEF recordTenantAudit
  <2>2. /\ OperationSound(m, NoReview) /\ tally'.deaths = tally.deaths
        /\ \A d \in ReviewCases : ~Pends(NoReview, d) /\ ~Pends(review[m], d)
        /\ tally' \in [calls : Nat, overlaps : Nat, deaths : Nat]
    BY <1>1, <1>2, <1>4, NoReviewIs DEF OperationSound, Pends, ReviewInv, ReviewTyped
  <2> QED BY <1>2, <2>1, <2>2, Steps
<1>5. CASE k.op = "resolve"
  <2>1. PICK entry : entry = [by |-> m, meant |-> k.asked.resolution, escalation |-> is.escalation,
            resolution |-> IF is.resolution = "none" THEN k.asked.resolution ELSE is.resolution,
            opening |-> k.opening, read |-> is.openings]
    OBVIOUS
  <2>2. audit' = [audit EXCEPT ![c] = Append(@, entry)]
    BY <1>1, <1>5, <2>1 DEF recordTenantAudit
  <2>3. entry \in AuditEntries
    BY <1>3, <2>1 DEF AuditEntries, Operations, Inputs, ReviewRows
  <2>4. EntrySound(entry, c)
    BY <1>1, <1>2, <1>3, <1>5, <2>1 DEF EntrySound, OperationSound, Fits
  <2>5. ReviewTyped'
    BY <1>2, <1>3, <2>2, <2>3 DEF ReviewInv, ReviewTyped
  <2>6. \A n \in Reviewers : OperationSound(n, review[n])'
    <3>1. \A n \in Reviewers : review'[n] = IF n = m THEN NoReview ELSE review[n]
      BY <1>2 DEF ReviewInv, ReviewTyped
    <3> QED BY <1>2, <3>1 DEF ReviewInv, OperationSound
  <2>7. ASSUME NEW d \in ReviewCases
        PROVE  /\ AuditComplete(d)' /\ RowSound(case[d], d)'
               /\ \A i \in DOMAIN audit'[d] : EntrySound(audit'[d][i], d)
    <3>1. /\ Cardinality(Pending(d)) \in Nat /\ audit[d] \in Seq(AuditEntries)
          /\ Decisions(case[d]) \in Int /\ UNCHANGED case[d]
      BY <1>2, PendingMoves, Counts DEF ReviewInv
    <3>2. CASE d = c
      <4>1. audit'[d] = Append(audit[d], entry)
        BY <1>3, <2>2, <3>2 DEF ReviewInv, ReviewTyped
      <4>2. Cardinality(Pending(d)') = Cardinality(Pending(d)) - 1
        <5>1. Pends(review[m], d) /\ ~Pends(NoReview, d)
          BY <1>1, <1>2, <1>5, <3>2, NoReviewIs DEF Pends
        <5> QED BY <1>2, <5>1, PendingMoves DEF ReviewInv
      <4>3. Len(audit'[d]) = Len(audit[d]) + 1 /\ Len(audit[d]) \in Nat
        BY <3>1, <4>1
      <4>4. AuditComplete(d)'
        BY <1>2, <3>1, <4>2, <4>3 DEF ReviewInv, AuditComplete
      <4>5. \A i \in DOMAIN audit'[d] :
               audit'[d][i] = entry \/ (i \in DOMAIN audit[d] /\ audit'[d][i] = audit[d][i])
        BY <3>1, <4>1
      <4> QED BY <2>4, <3>1, <3>2, <4>4, <4>5 DEF ReviewInv
    <3>3. CASE d # c
      <4>1. audit'[d] = audit[d]
        BY <2>2, <3>3 DEF ReviewInv, ReviewTyped
      <4>2. Pending(d)' = Pending(d)
        <5>1. ~Pends(review[m], d) /\ ~Pends(NoReview, d)
          BY <1>1, <3>3, NoReviewIs DEF Pends
        <5>2. Pends(NoReview, d) = Pends(review[m], d)
          BY <5>1 DEF Pends
        <5> QED BY <1>2, <5>2, PendingMoves DEF ReviewInv
      <4> QED BY <1>2, <3>1, <4>1, <4>2 DEF ReviewInv, AuditComplete
    <3> QED BY <3>2, <3>3
  <2> QED BY <2>5, <2>6, <2>7 DEF ReviewInv
<1> QED BY <1>4, <1>5

LEMMA ModeratorDeathStep ==
    ASSUME ReviewInv, NEW m \in Reviewers, ModeratorDies(m)
    PROVE  ReviewInv'
<1>1. /\ review' = [review EXCEPT ![m] = NoReview] /\ UNCHANGED <<case, audit, day>>
      /\ tally' \in [calls : Nat, overlaps : Nat, deaths : Nat] /\ tally'.deaths # 0
  BY DEF ModeratorDies, ReviewInv, ReviewTyped
<1>2. OperationSound(m, NoReview) /\ \A c \in ReviewCases : ~Pends(NoReview, c)
  BY NoReviewIs DEF OperationSound
<1> QED BY <1>1, <1>2, Steps

(* What the proof rests on, whatever moderators do at once and whoever dies.    *)
THEOREM ReviewInvariant == ReviewSpec => []ReviewInv
<1>1. ReviewInit => ReviewInv
  <2> SUFFICES ASSUME ReviewInit PROVE ReviewInv
    OBVIOUS
  <2>1. ReviewTyped
    BY NoReviewIs DEF ReviewInit, ReviewTyped, ReviewRows, Somebody
  <2>2. \A m \in Reviewers : review[m] = NoReview
    BY DEF ReviewInit
  <2>3. ASSUME NEW c \in ReviewCases
        PROVE  /\ RowSound(case[c], c) /\ AuditComplete(c)
               /\ \A i \in DOMAIN audit[c] : EntrySound(audit[c][i], c)
    <3>1. Pending(c) = {}
      BY <2>2, NoReviewIs DEF Pending
    <3>2. case[c].openings = 1 /\ case[c].status = "OPEN" /\ audit[c] = <<>>
      BY DEF ReviewInit
    <3>3. Decisions(case[c]) = 0 /\ Len(audit[c]) = 0 /\ Cardinality(Pending(c)) = 0
      BY <3>1, <3>2, FS_EmptySet DEF Decisions
    <3>4. RowSound(case[c], c)
      BY DEF ReviewInit, RowSound
    <3> QED BY <3>2, <3>3, <3>4 DEF AuditComplete
  <2> QED BY <2>1, <2>2, <2>3 DEF ReviewInv, OperationSound
<1>2. ReviewInv /\ [ReviewNext]_reviewVars => ReviewInv'
  <2> SUFFICES ASSUME ReviewInv, [ReviewNext]_reviewVars PROVE ReviewInv'
    OBVIOUS
  <2>1. CASE Tick \/ UNCHANGED reviewVars
    <3>1. UNCHANGED <<case, audit, review, tally>> /\ day' \in Nat
      BY <2>1 DEF Tick, reviewVars, ReviewInv, ReviewTyped
    <3>2. ReviewTyped'
      BY <3>1 DEF ReviewInv, ReviewTyped
    <3>3. \A c : Pending(c)' = Pending(c)
      BY <3>1 DEF Pending, Pends
    <3>4. \A c \in ReviewCases : AuditComplete(c)'
      BY <3>1, <3>3 DEF ReviewInv, AuditComplete
    <3>5. \A m \in Reviewers : OperationSound(m, review[m])'
      BY <3>1 DEF ReviewInv, OperationSound
    <3> QED BY <3>1, <3>2, <3>4, <3>5 DEF ReviewInv
  <2>2. ASSUME NEW m \in Reviewers, NEW c \in ReviewCases,
               resolveCase(m, c) \/ assignCase(m, c) \/ reopenCase(m, c)
        PROVE  ReviewInv'
    BY <2>2, BeginStep
  <2>3. ASSUME NEW m \in Reviewers,
               \/ writeResolution(m) \/ writeAssignment(m) \/ writeReopening(m)
               \/ recordTenantAudit(m) \/ ModeratorDies(m)
        PROVE  ReviewInv'
    BY <2>3, ResolutionStep, AssignmentStep, ReopeningStep, AuditStep, ModeratorDeathStep
  <2> QED BY <2>1, <2>2, <2>3 DEF ReviewNext
<1> QED BY <1>1, <1>2, PTL DEF ReviewSpec

(* Every overdue case is shown if the limit leaves room for all open ones.      *)
LEMMA AllAreShown ==
    ASSUME ReviewInv, NEW limit \in Nat, NEW page \in Pages(limit),
           Cardinality({d \in ReviewCases : case[d].status = "OPEN"}) <= limit
    PROVE  page = {d \in ReviewCases : case[d].status = "OPEN"}
<1>1. PICK open : open = {d \in ReviewCases : case[d].status = "OPEN"}
  OBVIOUS
<1>2. IsFiniteSet(open) /\ Cardinality(open) \in Nat
  BY <1>1, ReviewAssumption, FS_Subset, FS_CardinalityType
<1>3. /\ page \subseteq open
      /\ Cardinality(page) = IF Cardinality(open) < limit THEN Cardinality(open) ELSE limit
  BY <1>1 DEF Pages
<1>4. Cardinality(page) = Cardinality(open)
  BY <1>1, <1>2, <1>3
<1> QED BY <1>1, <1>2, <1>3, <1>4, FS_Subset

(* For any cases and moderators, whatever comes in between: the playbook on     *)
(* record, the note and the audit are those of the decision that a case has,    *)
(* one of racing decisions is written, every overdue case is shown where there  *)
(* is room for all open ones, and what was decided stays so.                    *)
THEOREM ReviewsSound == ReviewSpec => ReviewsHold
<1> DEFINE Stays ==
        \A c \in ReviewCases :
            case[c].status # "OPEN" /\ case'[c] # case[c] =>
                /\ case[c].status = "DISMISSED" /\ case'[c].status = "OPEN"
                /\ case'[c].assignedTo = case[c].assignedTo /\ case'[c].openedAt = case[c].openedAt
<1>1. ReviewInv => PlaybookOnRecord /\ DecisionIsOwn
  <2> SUFFICES ASSUME ReviewInv, NEW c \in ReviewCases, NEW row, row = case[c]
               PROVE  /\ LET wanted == /\ row.status # "OPEN"
                                       /\ mediaEscalationRequiresPlaybook(row.resolution, c)
                         IN  /\ (row.escalation # NoPlaybook) = wanted
                             /\ wanted => /\ Opened[c].country \in approvedMediaEscalationCountries
                                          /\ row.escalation.kind # "none"
                                          /\ row.escalation.legalHoldUntil > row.escalation.reportDueAt
                      /\ (row.status = "OPEN") = (row.by = "nobody")
                      /\ (row.status = "OPEN") = (row.resolution = "none")
                      /\ row.by # "nobody" => Opened[c].country \in Reach[row.by]
                      /\ mediaReviewRequiresMistakenClassification(row.resolution, c) =>
                            row.notes = row.by
    BY DEF PlaybookOnRecord, DecisionIsOwn
  <2>1. RowSound(row, c) /\ row \in ReviewRows
    BY DEF ReviewInv, ReviewTyped
  <2>2. CASE row.resolution = "none"
    BY <2>1, <2>2 DEF RowSound, mediaReviewRequiresMistakenClassification
  <2>3. CASE row.resolution # "none"
    <3>1. row.status # "OPEN"
      BY <2>1, <2>3 DEF RowSound, statusForResolution
    <3> QED BY <2>1, <2>3, <3>1 DEF RowSound, Fits
  <2> QED BY <2>2, <2>3
<1>2. ReviewInv => OneDecision
  <2> SUFFICES ASSUME ReviewInv, NEW c \in ReviewCases
               PROVE  LET pending == {m \in Reviewers : /\ ReviewAt(m, "resolve", "audit")
                                                        /\ review[m].case = c}
                          decided == case[c].openings - IF case[c].status = "OPEN" THEN 1 ELSE 0
                      IN  /\ Len(audit[c]) + Cardinality(pending) <= decided
                          /\ tally.deaths = 0 => Len(audit[c]) + Cardinality(pending) = decided
                          /\ \A i \in DOMAIN audit[c] : EntrySound(audit[c][i], c)
    BY DEF OneDecision, EntrySound
  <2>1. Pending(c) = {m \in Reviewers : ReviewAt(m, "resolve", "audit") /\ review[m].case = c}
    BY DEF Pending, Pends, ReviewAt
  <2> QED BY <2>1 DEF ReviewInv, AuditComplete, Decisions
<1>3. ReviewInv => OverdueIsShown
  <2> SUFFICES ASSUME ReviewInv, NEW limit \in 1..Cardinality(ReviewCases), NEW c \in ReviewCases,
                      NEW m \in Reviewers, NEW page \in Pages(limit)
               PROVE  /\ c \in listCases(m, page, TRUE) =>
                            case[c].status = "OPEN" /\ Opened[c].country \in Reach[m]
                      /\ /\ Cardinality({d \in ReviewCases : case[d].status = "OPEN"}) <= limit
                         /\ case[c].status = "OPEN" /\ Opened[c].country \in Reach[m]
                         /\ day > mediaReviewSlaDays(c)
                         => c \in listCases(m, page, TRUE)
    BY DEF OverdueIsShown
  <2>1. c \in listCases(m, page, TRUE) => case[c].status = "OPEN" /\ Opened[c].country \in Reach[m]
    BY DEF listCases, Pages
  <2>2. ASSUME Cardinality({d \in ReviewCases : case[d].status = "OPEN"}) <= limit,
               case[c].status = "OPEN", Opened[c].country \in Reach[m], day > mediaReviewSlaDays(c)
        PROVE  c \in listCases(m, page, TRUE)
    <3>1. c \in page
      BY <2>2, AllAreShown
    <3>2. overdue(c)
      BY <2>2 DEF overdue, dueAt, ReviewInv, ReviewTyped, ReviewRows, mediaReviewSlaDays
    <3> QED BY <2>2, <3>1, <3>2 DEF listCases
  <2> QED BY <2>1, <2>2
<1>4. ReviewInv /\ [ReviewNext]_reviewVars => [Stays]_reviewVars
  <2> SUFFICES ASSUME ReviewInv, ReviewNext, NEW c \in ReviewCases, case[c].status # "OPEN",
                      case'[c] # case[c]
               PROVE  /\ case[c].status = "DISMISSED" /\ case'[c].status = "OPEN"
                      /\ case'[c].assignedTo = case[c].assignedTo /\ case'[c].openedAt = case[c].openedAt
    OBVIOUS
  <2>1. PICK m \in Reviewers : writeResolution(m) \/ writeAssignment(m) \/ writeReopening(m)
    BY DEF ReviewNext, resolveCase, assignCase, reopenCase, BeginReview, recordTenantAudit,
         ModeratorDies, Tick
  <2>2. PICK k, was : k = review[m] /\ was = case[k.case]
    OBVIOUS
  <2>3. case \in [ReviewCases -> ReviewRows]
    BY DEF ReviewInv, ReviewTyped
  <2>4. CASE writeResolution(m) \/ writeAssignment(m)
    <3>1. \/ was.status = "OPEN" /\ \E row : case' = [case EXCEPT ![k.case] = row]
          \/ case' = case
      BY <2>2, <2>4 DEF writeResolution, writeAssignment, Written, Refuse
    <3> QED BY <2>2, <2>3, <3>1
  <2>5. CASE writeReopening(m)
    <3>1. PICK row : row = [was EXCEPT !.status = "OPEN", !.resolution = "none", !.by = "nobody",
                                       !.openings = @ + 1]
      OBVIOUS
    <3>2. \/ was.status = "DISMISSED" /\ case' = [case EXCEPT ![k.case] = row]
          \/ case' = case
      BY <2>2, <2>5, <3>1 DEF writeReopening, Written, Refuse
    <3>3. k.case = c /\ was = case[c] /\ case'[c] = row /\ was.status = "DISMISSED"
      BY <2>2, <2>3, <3>2
    <3>4. was \in ReviewRows
      BY <2>3, <3>3
    <3> QED BY <3>1, <3>3, <3>4 DEF ReviewRows
  <2> QED BY <2>1, <2>4, <2>5
<1> QED BY <1>1, <1>2, <1>3, <1>4, ReviewInvariant, PTL DEF ReviewSpec, ReviewsHold, DecidedStays
-----------------------------------------------------------------------------
(* Opportunity alerts and the graph they read.  A sweep goes from await to      *)
(* await, and so do a decision about a claim and one about a report: what they  *)
(* have read may be old by the time they write.  An alert is told of by the one *)
(* sweep that created it, however many overlap; of operations that come one at  *)
(* a time, what the one in progress has read is still so.                       *)

(* The set with the fewest elements. *)
LEMMA Smallest ==
    ASSUME NEW Z, Z # {}, \A z \in Z : IsFiniteSet(z)
    PROVE  \E z \in Z : \A y \in Z : Cardinality(z) <= Cardinality(y)
<1> DEFINE I == {Cardinality(z) : z \in Z}
<1>1. I \in SUBSET Nat /\ I # {}
  BY FS_CardinalityType
<1>2. PICK least \in I : \A j \in I : <<j, least>> \notin OpToRel(<, Nat)
  BY <1>1, NatLessThanWellFounded, WFMin
<1>3. PICK z \in Z : least = Cardinality(z)
  BY <1>2
<1>4. ASSUME NEW y \in Z PROVE Cardinality(z) <= Cardinality(y)
  <2>1. Cardinality(y) \in I /\ Cardinality(y) \in Nat /\ Cardinality(z) \in Nat
    BY FS_CardinalityType
  <2>2. ~(Cardinality(y) < Cardinality(z))
    BY <1>2, <1>3, <2>1 DEF OpToRel
  <2> QED BY <2>1, <2>2
<1> QED BY <1>3, <1>4

(* What sweeps, calls and claims look like. *)
SearchStates ==
    [pc : {"searches"}, left : SUBSET Searches, links : [Sources -> 0..Cardinality(Claims)],
     limit : Limits \cup {DefaultLimit}, created : SUBSET Pairs]
ResultStates ==
    [pc : {"results", "create"}, left : SUBSET Searches,
     links : [Sources -> 0..Cardinality(Claims)], limit : Limits \cup {DefaultLimit},
     created : SUBSET Pairs, of : Searches, results : SUBSET Sources]
SweepStates ==
    {Resting} \cup SearchStates
        \cup {k \in ResultStates : k.of \in k.left /\ (k.pc = "create" => k.results # {})}
Visibilities == {i.visibility : i \in ClaimInputs} \cup {"VERIFIED"}
MadeClaims == [of : ClaimInputs, visibility : Visibilities, status : Statuses]
ClaimRows == {NoClaim} \cup MadeClaims
ReportStates == {"NONE", "OPEN", "RESOLVED", "DISMISSED"}
CallStates ==
    {Resting} \cup [pc : {"claim"}, of : Claims, value : ClaimRows]
        \cup [pc : {"report"}, of : Reports, value : ReportStates]

(* The alerts of which a sweep has still to tell. *)
Unsent(k) == IF k = Resting THEN {} ELSE k.created

SourcesTyped ==
    /\ claims \in [Claims -> ClaimRows] /\ reports \in [Reports -> ReportStates]
    /\ alerts \subseteq Pairs /\ notified \in [Pairs -> Nat]
    /\ sweep \in [Sweeps -> SweepStates] /\ call \in [Calls -> CallStates]
    /\ overlapping \in Nat /\ crashes \in Nat

(* Nobody is told twice, under any interleaving: an alert is to be told of by   *)
(* the one sweep that created it, which has not done so yet.                    *)
ToldOnce ==
    /\ \A a \in Pairs : notified[a] <= IF a \in alerts THEN 1 ELSE 0
    /\ \A r \in Sweeps : \A a \in Unsent(sweep[r]) : a \in alerts /\ notified[a] = 0
    /\ \A r, q \in Sweeps : r # q => Unsent(sweep[r]) \cap Unsent(sweep[q]) = {}

(* Of operations that come one at a time, what the one in progress has read is  *)
(* so.                                                                          *)
Top(k) == CHOOSE x \in k.results : \A y \in k.results \ {x} : Better(k.of, k.links, x, y)

SweepRight(k) ==
    k # Resting =>
        /\ k.links = Links
        /\ k.pc \in {"results", "create"} => k.results \subseteq Matching(k.of, k.links) \ BlockedFor(k.of)
        /\ k.pc = "create" => <<k.of, Top(k)>> \notin alerts

CallRight(w) ==
    /\ w.pc = "claim" => w.value.status = "REMOVED" \/ claims[w.of].status = "PENDING"
    /\ w.pc = "report" => reports[w.of] \notin {"RESOLVED", "DISMISSED"}

OneActor ==
    /\ \A r, q \in Sweeps : sweep[r] = Resting \/ sweep[q] = Resting \/ r = q
    /\ \A k, w \in Calls : call[k] = Resting \/ call[w] = Resting \/ k = w
    /\ \A r \in Sweeps, k \in Calls : sweep[r] = Resting \/ call[k] = Resting

AllTold == \A a \in alerts : notified[a] = 1 \/ \E r \in Sweeps : a \in Unsent(sweep[r])

SourcesAlone ==
    overlapping = 0 =>
        /\ OneActor
        /\ \A r \in Sweeps : SweepRight(sweep[r])
        /\ \A k \in Calls : CallRight(call[k])
        /\ crashes = 0 => AllTold

SourcesInv == SourcesTyped /\ ToldOnce /\ SourcesAlone

(* The best of some sources is one of them. *)
LEMMA LinksCounted == Links \in [Sources -> 0..Cardinality(Claims)]
<1> SUFFICES ASSUME NEW x \in Sources PROVE Links[x] \in 0..Cardinality(Claims)
  BY DEF Links
<1> DEFINE C == {c \in Claims : /\ isPublicGraphClaim(c)
                                /\ x \in {claims[c].of.source, claims[c].of.label}}
<1>1. PICK s : s = C
  OBVIOUS
<1>2. s \in SUBSET Claims /\ IsFiniteSet(Claims)
  BY <1>1, ScoreAssumption
<1>3. IsFiniteSet(s) /\ Cardinality(s) <= Cardinality(Claims)
  BY <1>2, FS_Subset
<1>4. Cardinality(s) \in Nat /\ Cardinality(Claims) \in Nat
  BY <1>2, <1>3, FS_CardinalityType
<1> QED BY <1>1, <1>3, <1>4 DEF Links

LEMMA TopIsOne ==
    ASSUME NEW k \in ResultStates, k.results # {}
    PROVE  Top(k) \in k.results
<1>1. PICK s, links, results : /\ s = k.of /\ links = k.links /\ results = k.results
                               /\ s \in Searches /\ results \in SUBSET Sources
                               /\ links \in [Sources -> 0..Cardinality(Claims)]
  BY DEF ResultStates
<1>2. \A x \in Sources : Score[s][x][links[x]] \in Nat /\ Place[x] \in Nat
  <2> SUFFICES ASSUME NEW x \in Sources
               PROVE  Score[s][x][links[x]] \in Nat /\ Place[x] \in Nat
    OBVIOUS
  <2>1. Score[s] \in [Sources -> [0..Cardinality(Claims) -> Nat]] /\ Place[x] \in Nat
    BY <1>1, ScoreAssumption
  <2>2. Score[s][x] \in [0..Cardinality(Claims) -> Nat] /\ links[x] \in 0..Cardinality(Claims)
    BY <1>1, <2>1
  <2> QED BY <2>1, <2>2
<1>a. \A x, y, z \in Sources : Better(s, links, z, y) /\ Better(s, links, y, x) => Better(s, links, z, x)
  <2> SUFFICES ASSUME NEW x \in Sources, NEW y \in Sources, NEW z \in Sources,
                      Better(s, links, z, y), Better(s, links, y, x)
               PROVE  Better(s, links, z, x)
    OBVIOUS
  <2> DEFINE p == Score[s][x][links[x]]
             q == Score[s][y][links[y]]
             r == Score[s][z][links[z]]
             i == Place[x]
             j == Place[y]
             l == Place[z]
  <2>1. p \in Nat /\ q \in Nat /\ r \in Nat /\ i \in Nat /\ j \in Nat /\ l \in Nat
    BY <1>2
  <2>2. r > q \/ (r = q /\ l < j)
    BY DEF Better
  <2>3. q > p \/ (q = p /\ j < i)
    BY DEF Better
  <2> HIDE DEF p, q, r, i, j, l
  <2>4. r > p \/ (r = p /\ l < i)
    BY <2>1, <2>2, <2>3
  <2> QED BY <2>4 DEF Better, p, r, i, l
<1>b. \A x \in Sources : ~Better(s, links, x, x)
  <2> SUFFICES ASSUME NEW x \in Sources PROVE ~Better(s, links, x, x)
    OBVIOUS
  <2> DEFINE p == Score[s][x][links[x]]
             i == Place[x]
  <2>1. p \in Nat /\ i \in Nat
    BY <1>2
  <2> HIDE DEF p, i
  <2>2. ~(p > p) /\ ~(i < i)
    BY <2>1
  <2> QED BY <2>2 DEF Better, p, i
<1> DEFINE above(x) == {y \in results : Better(s, links, y, x)}
           Z == {above(x) : x \in results}
<1>3. \A x \in results : IsFiniteSet(above(x))
  <2>1. ASSUME NEW x \in results PROVE IsFiniteSet(above(x))
    <3>1. PICK b : b = above(x)
      OBVIOUS
    <3>2. b \in SUBSET Sources
      BY <1>1, <3>1
    <3> QED BY <3>1, <3>2, ScoreAssumption, FS_Subset
  <2> QED BY <2>1
<1>4. PICK a \in Z : \A b \in Z : Cardinality(a) <= Cardinality(b)
  <2>1. Z # {} /\ \A z \in Z : IsFiniteSet(z)
    <3>1. PICK x \in results : TRUE
      BY <1>1
    <3> HIDE DEF above
    <3> QED BY <1>3, <3>1
  <2> HIDE DEF Z
  <2> QED BY <2>1, Smallest
<1>5. PICK x \in results : a = above(x)
  OBVIOUS
<1>6. ASSUME NEW y \in results, Better(s, links, y, x) PROVE FALSE
  <2>1. PICK b : b = above(y)
    OBVIOUS
  <2>2. b \in SUBSET a /\ IsFiniteSet(a) /\ IsFiniteSet(b)
    <3>1. \A z \in results : Better(s, links, z, y) => Better(s, links, z, x)
      BY <1>1, <1>a, <1>6
    <3>2. b \in SUBSET a
      BY <1>5, <2>1, <3>1
    <3> QED BY <1>3, <1>5, <2>1, <3>2
  <2>3. y \in a /\ y \notin b
    <3>1. y \in a
      BY <1>5, <1>6
    <3>2. y \notin b
      BY <1>1, <1>b, <2>1
    <3> QED BY <3>1, <3>2
  <2>4. Cardinality(b) <= Cardinality(a) /\ Cardinality(b) # Cardinality(a)
    BY <2>2, <2>3, FS_Subset
  <2>5. Cardinality(a) \in Nat /\ Cardinality(b) \in Nat /\ b \in Z
    BY <2>1, <2>2, FS_CardinalityType
  <2> QED BY <1>4, <2>4, <2>5
<1>7. \A y \in results \ {x} : Better(s, links, x, y)
  <2>1. ASSUME NEW y \in results \ {x} PROVE Better(s, links, x, y)
    <3>1. Place[x] # Place[y] /\ ~Better(s, links, y, x)
      BY <1>1, <1>6, ScoreAssumption
    <3>2. /\ Score[s][x][links[x]] \in Nat /\ Place[x] \in Nat
          /\ Score[s][y][links[y]] \in Nat /\ Place[y] \in Nat
      BY <1>1, <1>2
    <3> QED BY <3>1, <3>2 DEF Better
  <2> QED BY <2>1
<1>8. \E z \in k.results : \A y \in k.results \ {z} : Better(k.of, k.links, z, y)
  BY <1>1, <1>7
<1> QED BY <1>8 DEF Top

(* What stands of decisions, and what a new alert is for. *)
Decided ==
    /\ \A c \in Claims : claims[c].status \in {"REJECTED", "REMOVED"} =>
          claims'[c].status \in {claims[c].status, "REMOVED"}
    /\ \A n \in Reports : reports[n] \in {"RESOLVED", "DISMISSED"} => reports'[n] = reports[n]
    /\ \A a \in alerts' \ alerts : Wanted(a)

SourcesStep == SourcesInv' /\ (overlapping' = 0 => Decided)

LEMMA SweepGoes ==
    ASSUME SourcesTyped, NEW r \in Sweeps, NEW k \in SweepStates, Go(r, k)
    PROVE  /\ sweep' \in [Sweeps -> SweepStates] /\ sweep'[r] = k
           /\ \A q \in Sweeps : q # r => sweep'[q] = sweep[q]
  BY DEF SourcesTyped, Go

LEMMA CallGoes ==
    ASSUME SourcesTyped, NEW k \in Calls, NEW w \in CallStates, call' = [call EXCEPT ![k] = w]
    PROVE  /\ call' \in [Calls -> CallStates] /\ call'[k] = w
           /\ \A q \in Calls : q # k => call'[q] = call[q]
  BY DEF SourcesTyped

LEMMA Rests ==
    /\ Resting \in SweepStates /\ Resting \in CallStates /\ Unsent(Resting) = {}
    /\ SweepRight(Resting) /\ CallRight(Resting) /\ SweepRight(Resting)' /\ CallRight(Resting)'
  BY DEF SweepStates, CallStates, Unsent, SweepRight, CallRight, Resting

(* Who begins without overlapping is the only one. *)
LEMMA BeginsAlone ==
    ASSUME SourcesTyped, Overlapping
    PROVE  overlapping' \in Nat /\ (overlapping' = 0 => Quiet /\ overlapping = 0)
  BY DEF Overlapping, SourcesTyped

LEMMA ClaimsOfTypes ==
    ASSUME NEW row \in ClaimRows, row # NoClaim
    PROVE  row \in MadeClaims
  BY DEF ClaimRows, MadeClaims, Visibilities

(* What users do at once. *)
UserActs == createClaim \/ createReport \/ createBlock \/ removeBlock \/ createSavedSearch

LEMMA UserStep ==
    ASSUME SourcesInv, UserActs
    PROVE  SourcesStep
<1>1. /\ UNCHANGED <<sweep, call, alerts, notified, crashes>>
      /\ Overlapping
  BY DEF UserActs, createClaim, createReport, createBlock, removeBlock, createSavedSearch,
       Begin, sweepVars, graph
<1>2. /\ claims' \in [Claims -> ClaimRows]
      /\ \A c \in Claims : claims[c] # NoClaim => claims'[c] = claims[c]
  <2>1. CASE createClaim
    <3>1. PICK c \in Claims, i \in ClaimInputs :
             /\ claims[c] = NoClaim
             /\ claims' = [claims EXCEPT ![c] = createRelationshipClaim(i)]
      BY <2>1 DEF createClaim
    <3>2. createRelationshipClaim(i) \in ClaimRows
      BY DEF createRelationshipClaim, ClaimRows, MadeClaims, Visibilities, Statuses
    <3> QED BY <3>1, <3>2 DEF SourcesInv, SourcesTyped
  <2>2. CASE UNCHANGED claims
    BY <2>2 DEF SourcesInv, SourcesTyped
  <2> QED BY <2>1, <2>2 DEF UserActs, createReport, createBlock, removeBlock, createSavedSearch,
       graph
<1>3. /\ reports' \in [Reports -> ReportStates]
      /\ \A n \in Reports : reports[n] # "NONE" => reports'[n] = reports[n]
  <2>1. CASE createReport
    BY <2>1 DEF createReport, SourcesInv, SourcesTyped, ReportStates
  <2>2. CASE UNCHANGED reports
    BY <2>2 DEF SourcesInv, SourcesTyped
  <2> QED BY <2>1, <2>2 DEF UserActs, createClaim, createBlock, removeBlock, createSavedSearch,
       graph
<1>4. SourcesTyped'
  BY <1>1, <1>2, <1>3, BeginsAlone DEF SourcesInv, SourcesTyped
<1>5. ToldOnce'
  BY <1>1 DEF SourcesInv, ToldOnce
<1>6. SourcesAlone'
  <2> SUFFICES ASSUME overlapping' = 0
               PROVE  /\ OneActor'
                      /\ \A r \in Sweeps : SweepRight(sweep[r])'
                      /\ \A k \in Calls : CallRight(call[k])'
                      /\ (crashes = 0 => AllTold)'
    BY DEF SourcesAlone
  <2>1. Quiet /\ overlapping = 0
    BY <1>1, BeginsAlone DEF SourcesInv
  <2>2. \A r \in Sweeps : sweep'[r] = Resting
    BY <1>1, <2>1 DEF Quiet
  <2>3. \A k \in Calls : call'[k] = Resting
    BY <1>1, <2>1 DEF Quiet
  <2>4. OneActor'
    BY <2>2, <2>3 DEF OneActor
  <2>5. (crashes = 0 => AllTold)'
    BY <1>1, <2>1 DEF SourcesInv, SourcesAlone, AllTold
  <2>6. \A r \in Sweeps : SweepRight(sweep[r])'
    BY <2>2 DEF SweepRight
  <2>7. \A k \in Calls : CallRight(call[k])'
    BY <2>3 DEF CallRight, Resting
  <2> QED BY <2>4, <2>5, <2>6, <2>7
<1>7. Decided
  <2>1. \A c \in Claims : claims[c].status \in {"REJECTED", "REMOVED"} => claims[c] # NoClaim
    BY DEF NoClaim
  <2> QED BY <1>1, <1>2, <1>3, <2>1 DEF Decided
<1> QED BY <1>4, <1>5, <1>6, <1>7 DEF SourcesInv, SourcesStep

(* A decision begins: what it will store is right as long as it is alone. *)
LEMMA CallBegins ==
    ASSUME SourcesInv, NEW k \in Calls, decideClaim(k) \/ removeClaim(k) \/ resolveReport(k)
    PROVE  SourcesStep
<1>1. UNCHANGED <<graph, sweepVars, crashes>> /\ Overlapping
  BY DEF decideClaim, removeClaim, resolveReport, Begin
<1>2. PICK w \in CallStates : CallRight(w) /\ call' = [call EXCEPT ![k] = w]
  <2>1. CASE decideClaim(k)
    <3>1. PICK c \in Claims, decision \in {"APPROVED", "REJECTED"}, isModerator \in BOOLEAN :
             /\ assertMutableClaim(c)
             /\ Answer(k, [pc |-> "claim", of |-> c,
                           value |-> decideRelationshipClaim(claims[c], decision, isModerator)])
      BY <2>1 DEF decideClaim
    <3>2. PICK row : row = claims[c]
      OBVIOUS
    <3>3. row \in ClaimRows /\ row.status = "PENDING"
      BY <3>1, <3>2 DEF SourcesInv, SourcesTyped, assertMutableClaim
    <3>4. row # NoClaim
      BY <3>3 DEF NoClaim
    <3>5. PICK visibility :
             visibility = IF decision = "APPROVED" /\ isModerator THEN "VERIFIED" ELSE row.visibility
      OBVIOUS
    <3>6. decideRelationshipClaim(row, decision, isModerator)
             = [row EXCEPT !.status = decision, !.visibility = visibility]
      BY <3>5 DEF decideRelationshipClaim
    <3>7. visibility \in Visibilities /\ decision \in Statuses
      BY <3>3, <3>4, <3>5, ClaimsOfTypes DEF Statuses, MadeClaims, Visibilities
    <3>8. [row EXCEPT !.status = decision, !.visibility = visibility] \in ClaimRows
      <4>1. row \in MadeClaims
        BY <3>3, <3>4, ClaimsOfTypes
      <4> QED BY <3>7, <4>1 DEF ClaimRows, MadeClaims, Visibilities
    <3>9. PICK w : w = [pc |-> "claim", of |-> c,
                        value |-> decideRelationshipClaim(row, decision, isModerator)]
      OBVIOUS
    <3>10. w \in CallStates
      BY <3>6, <3>8, <3>9 DEF CallStates
    <3>11. CallRight(w)
      BY <3>2, <3>3, <3>9 DEF CallRight
    <3>12. call' = [call EXCEPT ![k] = w]
      BY <3>1, <3>2, <3>9 DEF Answer
    <3> QED BY <3>10, <3>11, <3>12
  <2>2. CASE removeClaim(k)
    <3>1. PICK c \in Claims :
             /\ claims[c].status \notin {"NONE", "REMOVED"}
             /\ Answer(k, [pc |-> "claim", of |-> c, value |-> removeRelationshipClaim(claims[c])])
      BY <2>2 DEF removeClaim
    <3>2. PICK row : row = claims[c]
      OBVIOUS
    <3>3. row \in ClaimRows /\ row # NoClaim
      BY <3>1, <3>2 DEF SourcesInv, SourcesTyped, NoClaim
    <3>4. removeRelationshipClaim(row) \in ClaimRows /\ removeRelationshipClaim(row).status = "REMOVED"
      <4>1. row \in MadeClaims
        BY <3>3, ClaimsOfTypes
      <4> QED BY <4>1 DEF removeRelationshipClaim, ClaimRows, MadeClaims, Visibilities, Statuses
    <3>5. PICK w : w = [pc |-> "claim", of |-> c, value |-> removeRelationshipClaim(row)]
      OBVIOUS
    <3>6. w \in CallStates /\ CallRight(w)
      BY <3>4, <3>5 DEF CallStates, CallRight
    <3>7. call' = [call EXCEPT ![k] = w]
      BY <3>1, <3>2, <3>5 DEF Answer
    <3> QED BY <3>6, <3>7
  <2>3. CASE resolveReport(k)
    <3>1. PICK n \in Reports, resolution \in {"RESOLVED", "DISMISSED"} :
             /\ resolveUserContentReport(n, resolution) # "refused"
             /\ Answer(k, [pc |-> "report", of |-> n, value |-> resolveUserContentReport(n, resolution)])
      BY <2>3 DEF resolveReport
    <3>2. /\ reports[n] \notin {"NONE", "RESOLVED", "DISMISSED"}
          /\ resolveUserContentReport(n, resolution) = resolution
      BY <3>1 DEF resolveUserContentReport
    <3>3. PICK w : w = [pc |-> "report", of |-> n, value |-> resolution]
      OBVIOUS
    <3>4. w \in CallStates /\ CallRight(w)
      BY <3>2, <3>3 DEF CallStates, CallRight, ReportStates
    <3>5. call' = [call EXCEPT ![k] = w]
      BY <3>1, <3>2, <3>3 DEF Answer
    <3> QED BY <3>4, <3>5
  <2> QED BY <2>1, <2>2, <2>3
<1>3. /\ call' \in [Calls -> CallStates] /\ call'[k] = w
      /\ \A q \in Calls : q # k => call'[q] = call[q]
  BY <1>2, CallGoes DEF SourcesInv
<1>4. SourcesTyped' /\ ToldOnce' /\ Decided
  BY <1>1, <1>3, BeginsAlone DEF SourcesInv, SourcesTyped, ToldOnce, Decided, graph, sweepVars
<1>5. SourcesAlone'
  <2> SUFFICES ASSUME overlapping' = 0
               PROVE  /\ OneActor'
                      /\ \A r \in Sweeps : SweepRight(sweep[r])'
                      /\ \A q \in Calls : CallRight(call[q])'
                      /\ (crashes = 0 => AllTold)'
    BY DEF SourcesAlone
  <2>1. Quiet /\ overlapping = 0
    BY <1>1, BeginsAlone DEF SourcesInv
  <2>2. \A r \in Sweeps : sweep'[r] = Resting
    BY <1>1, <2>1 DEF Quiet, sweepVars
  <2>3. \A q \in Calls : q # k => call'[q] = Resting
    BY <1>3, <2>1 DEF Quiet
  <2>4. OneActor'
    BY <2>2, <2>3 DEF OneActor
  <2>5. (crashes = 0 => AllTold)'
    BY <1>1, <2>1 DEF SourcesInv, SourcesAlone, AllTold, sweepVars
  <2>6. \A r \in Sweeps : SweepRight(sweep[r])'
    BY <2>2 DEF SweepRight
  <2>7. \A q \in Calls : CallRight(call[q])'
    <3>1. CallRight(w)'
      BY <1>1, <1>2 DEF CallRight, graph
    <3> QED BY <1>3, <2>3, <3>1 DEF CallRight, Resting
  <2> QED BY <2>4, <2>5, <2>6, <2>7
<1> QED BY <1>4, <1>5 DEF SourcesInv, SourcesStep

(* What is in progress, of what follows for a step that begins nothing. *)
LEMMA NothingBegins ==
    ASSUME SourcesInv, OneActor => OneActor', overlapping' = overlapping,
           crashes' = crashes \/ crashes' = crashes + 1,
           SourcesTyped', ToldOnce', overlapping = 0 => Decided,
           overlapping = 0 /\ SourcesAlone /\ OneActor =>
              /\ \A r \in Sweeps : SweepRight(sweep[r])'
              /\ \A k \in Calls : CallRight(call[k])'
              /\ crashes' = 0 /\ AllTold => AllTold'
    PROVE  SourcesStep
<1>1. crashes \in Nat /\ (crashes' = 0 => crashes = 0)
  BY DEF SourcesInv, SourcesTyped
<1>2. SourcesAlone'
  <2> SUFFICES ASSUME overlapping' = 0
               PROVE  /\ OneActor'
                      /\ \A r \in Sweeps : SweepRight(sweep[r])'
                      /\ \A k \in Calls : CallRight(call[k])'
                      /\ (crashes = 0 => AllTold)'
    BY DEF SourcesAlone
  <2>1. overlapping = 0 /\ OneActor /\ (crashes = 0 => AllTold) /\ SourcesAlone
    BY DEF SourcesInv, SourcesAlone
  <2> QED BY <1>1, <2>1
<1> QED BY <1>2 DEF SourcesInv, SourcesStep

LEMMA StoredStep ==
    ASSUME SourcesInv, NEW k \in Calls, Stored(k)
    PROVE  SourcesStep
<1>1. call[k] # Resting /\ call[k] \in CallStates /\ UNCHANGED <<blocks, sweepVars, bounds>>
  BY DEF Stored, SourcesInv, SourcesTyped
<1>2. /\ call' \in [Calls -> CallStates] /\ call'[k] = Resting
      /\ \A q \in Calls : q # k => call'[q] = call[q]
  BY CallGoes, Rests DEF Stored, SourcesInv
<1>3. PICK w : w = call[k]
  OBVIOUS
<1>4. \/ /\ w \in [pc : {"claim"}, of : Claims, value : ClaimRows]
         /\ claims' = [claims EXCEPT ![w.of] = w.value] /\ UNCHANGED reports
      \/ /\ w \in [pc : {"report"}, of : Reports, value : ReportStates]
         /\ reports' = [reports EXCEPT ![w.of] = w.value] /\ UNCHANGED claims
  <2>1. CASE w \in [pc : {"claim"}, of : Claims, value : ClaimRows]
    BY <1>3, <2>1 DEF Stored
  <2>2. CASE w \in [pc : {"report"}, of : Reports, value : ReportStates]
    BY <1>3, <2>2 DEF Stored
  <2> QED BY <1>1, <1>3, <2>1, <2>2 DEF CallStates
<1>5. /\ claims' \in [Claims -> ClaimRows] /\ reports' \in [Reports -> ReportStates]
      /\ \A c \in Claims : claims'[c] # claims[c] => w.pc = "claim" /\ w.of = c /\ claims'[c] = w.value
      /\ \A n \in Reports : reports'[n] # reports[n] => w.pc = "report" /\ w.of = n
  <2>1. claims \in [Claims -> ClaimRows] /\ reports \in [Reports -> ReportStates]
    BY DEF SourcesInv, SourcesTyped
  <2> QED BY <1>4, <2>1
<1>6. SourcesTyped' /\ ToldOnce'
  BY <1>1, <1>2, <1>5 DEF SourcesInv, SourcesTyped, ToldOnce, sweepVars, bounds
<1>7. overlapping = 0 => Decided
  <2>1. overlapping = 0 => CallRight(w)
    BY <1>3 DEF SourcesInv, SourcesAlone
  <2>2. overlapping = 0 => \A c \in Claims : claims[c].status \in {"REJECTED", "REMOVED"} =>
           claims'[c].status \in {claims[c].status, "REMOVED"}
    BY <1>5, <2>1 DEF CallRight
  <2>3. overlapping = 0 =>
           \A n \in Reports : reports[n] \in {"RESOLVED", "DISMISSED"} => reports'[n] = reports[n]
    BY <1>5, <2>1 DEF CallRight
  <2>4. alerts' = alerts
    BY <1>1 DEF sweepVars
  <2> QED BY <2>2, <2>3, <2>4 DEF Decided
<1>8. OneActor => OneActor'
  BY <1>1, <1>2 DEF OneActor, sweepVars
<1>9. ASSUME overlapping = 0, OneActor, SourcesAlone
      PROVE  /\ \A r \in Sweeps : SweepRight(sweep[r])'
             /\ \A q \in Calls : CallRight(call[q])'
             /\ AllTold => AllTold'
  <2>1. \A r \in Sweeps : sweep'[r] = Resting
    BY <1>1, <1>9 DEF OneActor, sweepVars
  <2>2. \A q \in Calls : call'[q] = Resting
    BY <1>1, <1>2, <1>9 DEF OneActor
  <2>3. \A q \in Calls : CallRight(call[q])'
    BY <2>2 DEF CallRight, Resting
  <2>4. \A r \in Sweeps : SweepRight(sweep[r])'
    BY <2>1 DEF SweepRight
  <2>5. AllTold => AllTold'
    BY <1>1 DEF AllTold, sweepVars
  <2> QED BY <2>3, <2>4, <2>5
<1>10. overlapping' = overlapping /\ crashes' = crashes
  BY <1>1 DEF bounds
<1> QED BY <1>6, <1>7, <1>8, <1>9, <1>10, NothingBegins

(* A sweep begins: it has read the graph as it is, and created nothing.      *)
LEMMA SweepBegins ==
    ASSUME SourcesInv, NEW r \in Sweeps,
           Requested(r) \/ \E t \in Tenants : runAllOpportunityAlerts(r, t)
    PROVE  SourcesStep
<1>1. PICK t \in Tenants, limit \in Limits \cup {DefaultLimit} :
         Overlapping /\ UNCHANGED crashes /\ runOpportunityAlerts(r, t, limit)
  BY DEF Requested, Begin, runAllOpportunityAlerts
<1>2. UNCHANGED <<graph, search, alerts, notified, call>> /\ sweep[r].pc = "idle"
  BY <1>1 DEF runOpportunityAlerts, RunAt
<1>3. PICK left \in SUBSET Searches :
         Go(r, [pc |-> "searches", left |-> left, links |-> Links, limit |-> limit, created |-> {}])
  BY <1>1 DEF runOpportunityAlerts
<1>4. PICK links : links = Links
  OBVIOUS
<1>5. PICK k : k = [pc |-> "searches", left |-> left, links |-> links, limit |-> limit, created |-> {}]
  OBVIOUS
<1>6. k \in SearchStates
  BY <1>4, <1>5, LinksCounted DEF SearchStates
<1>7. k \in SweepStates /\ k.pc = "searches" /\ k.created = {} /\ k.links = Links /\ Unsent(k) = {}
  BY <1>4, <1>5, <1>6 DEF SweepStates, Unsent
<1>8. /\ sweep' \in [Sweeps -> SweepStates] /\ sweep'[r] = k
      /\ \A q \in Sweeps : q # r => sweep'[q] = sweep[q]
  BY <1>3, <1>4, <1>5, <1>7, SweepGoes DEF SourcesInv
<1>9. sweep[r] = Resting
  BY <1>2 DEF SourcesInv, SourcesTyped, SweepStates, SearchStates, ResultStates
<1>10. \A q \in Sweeps : Unsent(sweep'[q]) = Unsent(sweep[q])
  BY <1>7, <1>8, <1>9, Rests
<1>11. SourcesTyped' /\ ToldOnce' /\ Decided
  <2>1. SourcesTyped'
    BY <1>1, <1>2, <1>8, BeginsAlone DEF SourcesInv, SourcesTyped, graph
  <2>2. ToldOnce'
    BY <1>2, <1>10 DEF SourcesInv, ToldOnce
  <2>3. Decided
    BY <1>2 DEF Decided, graph
  <2> QED BY <2>1, <2>2, <2>3
<1>12. SourcesAlone'
  <2> SUFFICES ASSUME overlapping' = 0
               PROVE  /\ OneActor'
                      /\ \A q \in Sweeps : SweepRight(sweep[q])'
                      /\ \A q \in Calls : CallRight(call[q])'
                      /\ (crashes = 0 => AllTold)'
    BY DEF SourcesAlone
  <2>1. Quiet /\ overlapping = 0
    BY <1>1, BeginsAlone DEF SourcesInv
  <2>2. \A q \in Sweeps : q # r => sweep'[q] = Resting
    BY <1>8, <2>1 DEF Quiet
  <2>3. \A q \in Calls : call'[q] = Resting
    BY <1>2, <2>1 DEF Quiet
  <2>4. OneActor'
    BY <2>2, <2>3 DEF OneActor
  <2>5. (crashes = 0 => AllTold)'
    <3>1. crashes' = 0 => AllTold
      BY <1>1, <2>1 DEF SourcesInv, SourcesAlone
    <3> QED BY <1>2, <1>10, <3>1 DEF AllTold
  <2>6. \A q \in Sweeps : SweepRight(sweep[q])'
    <3>1. Links' = Links
      BY <1>2 DEF Links, isPublicGraphClaim, graph
    <3>2. SweepRight(sweep[r])'
      BY <1>7, <1>8, <3>1 DEF SweepRight
    <3> QED BY <2>2, <3>2 DEF SweepRight
  <2>7. \A q \in Calls : CallRight(call[q])'
    BY <2>3 DEF CallRight, Resting
  <2> QED BY <2>4, <2>5, <2>6, <2>7
<1> QED BY <1>11, <1>12 DEF SourcesInv, SourcesStep

(* A step of a sweep that is alone: nothing it has read has changed.         *)
LEMMA SweepMoves ==
    ASSUME SourcesInv, NEW r \in Sweeps, sweep[r] # Resting, NEW k \in SweepStates, Go(r, k),
           UNCHANGED <<graph, call, overlapping, crashes>>,
           alerts' \subseteq Pairs, notified' \in [Pairs -> Nat], ToldOnce',
           overlapping = 0 /\ SweepRight(sweep[r]) =>
              /\ SweepRight(k)' /\ (\A a \in alerts' \ alerts : Wanted(a))
              /\ crashes = 0 => /\ \A a \in alerts' : \/ a \in alerts /\ notified'[a] = notified[a]
                                                      \/ notified'[a] = 1
                                                      \/ a \in Unsent(k)
                                /\ Unsent(sweep[r]) \subseteq Unsent(k) \cup {a \in Pairs : notified'[a] = 1}
    PROVE  SourcesStep
<1>1. /\ sweep' \in [Sweeps -> SweepStates] /\ sweep'[r] = k
      /\ \A q \in Sweeps : q # r => sweep'[q] = sweep[q]
  BY SweepGoes DEF SourcesInv
<1>2. SourcesTyped'
  BY <1>1 DEF SourcesInv, SourcesTyped, graph
<1>3. OneActor => OneActor'
  BY <1>1 DEF OneActor
<1>4. ASSUME overlapping = 0, SourcesAlone, OneActor
      PROVE  /\ \A q \in Sweeps : SweepRight(sweep[q])'
             /\ \A q \in Calls : CallRight(call[q])'
             /\ crashes' = 0 /\ AllTold => AllTold'
             /\ Decided
  <2>1. SweepRight(sweep[r])
    BY <1>4 DEF SourcesAlone
  <2>2. \A q \in Sweeps : q # r => sweep'[q] = Resting
    BY <1>1, <1>4 DEF OneActor
  <2>3. \A q \in Calls : call'[q] = Resting
    BY <1>4 DEF OneActor
  <2>4. \A q \in Sweeps : SweepRight(sweep[q])'
    <3>1. SweepRight(sweep[r])'
      BY <1>1, <1>4, <2>1 DEF SweepRight
    <3> QED BY <2>2, <3>1 DEF SweepRight
  <2>5. \A q \in Calls : CallRight(call[q])'
    BY <2>3 DEF CallRight, Resting
  <2>6. crashes' = 0 /\ AllTold => AllTold'
    <3> SUFFICES ASSUME crashes' = 0, AllTold, NEW a \in alerts'
                 PROVE  notified'[a] = 1 \/ \E q \in Sweeps : a \in Unsent(sweep'[q])
      BY DEF AllTold
    <3>1. \/ a \in alerts /\ notified'[a] = notified[a]
          \/ notified'[a] = 1 \/ a \in Unsent(k)
      BY <1>4, <2>1
    <3>2. CASE a \in alerts /\ notified'[a] = notified[a]
      <4>1. CASE notified[a] = 1
        BY <3>2, <4>1
      <4>2. CASE notified[a] # 1
        <5>1. PICK q \in Sweeps : a \in Unsent(sweep[q])
          BY <3>2, <4>2 DEF AllTold
        <5>2. CASE q = r
          BY <1>1, <1>4, <2>1, <5>1, <5>2
        <5>3. CASE q # r
          BY <1>1, <5>1, <5>3
        <5> QED BY <5>2, <5>3
      <4> QED BY <4>1, <4>2
    <3> QED BY <1>1, <3>1, <3>2
  <2>7. Decided
    BY <1>4, <2>1 DEF Decided, graph
  <2> QED BY <2>4, <2>5, <2>6, <2>7
<1>5. overlapping = 0 => Decided
  BY <1>4 DEF SourcesInv, SourcesAlone
<1> QED BY <1>2, <1>3, <1>4, <1>5, NothingBegins

(* The shapes of a sweep in progress. *)
LEMMA SweepShape ==
    ASSUME NEW k \in SweepStates
    PROVE  /\ k.pc = "searches" => k \in SearchStates
           /\ k.pc \in {"results", "create"} => k \in ResultStates /\ k.of \in k.left
           /\ k.pc = "create" => k.results # {}
  BY DEF SweepStates, SearchStates, ResultStates, Resting

LEMMA InProgress ==
    ASSUME NEW k, k.pc # "idle"
    PROVE  k # Resting /\ Unsent(k) = k.created
  BY DEF Resting, Unsent

LEMMA SearchingIs ==
    ASSUME NEW k \in SearchStates
    PROVE  /\ Searching(k) \in SweepStates /\ Unsent(Searching(k)) = k.created
           /\ k.links = Links' => SweepRight(Searching(k))'
<1>1. k.pc = "searches" /\ k \in SweepStates
  BY DEF SearchStates, SweepStates
<1>2. CASE k.left = {} /\ k.created = {}
  BY <1>2, Rests DEF Searching
<1>3. CASE ~(k.left = {} /\ k.created = {})
  <2>1. Searching(k) = k
    BY <1>3 DEF Searching
  <2>2. Unsent(k) = k.created
    BY <1>1, InProgress
  <2>3. k.links = Links' => SweepRight(k)'
    BY <1>1 DEF SweepRight
  <2> QED BY <1>1, <2>1, <2>2, <2>3
<1> QED BY <1>2, <1>3

(* Where the alerts, what was told of them and what is still to be told stay. *)
LEMMA ToldStays ==
    ASSUME SourcesInv, NEW r \in Sweeps, NEW k \in SweepStates, Go(r, k),
           UNCHANGED <<alerts, notified>>, Unsent(k) \subseteq Unsent(sweep[r])
    PROVE  ToldOnce'
<1>1. /\ sweep'[r] = k
      /\ \A q \in Sweeps : q # r => sweep'[q] = sweep[q]
  BY SweepGoes DEF SourcesInv
<1>2. \A q \in Sweeps : Unsent(sweep'[q]) \subseteq Unsent(sweep[q])
  BY <1>1
<1> QED BY <1>2 DEF SourcesInv, ToldOnce

LEMMA GraphStays ==
    ASSUME UNCHANGED graph
    PROVE  /\ Links' = Links /\ \A s : BlockedFor(s)' = BlockedFor(s)
  BY DEF graph, Links, isPublicGraphClaim, BlockedFor

LEMMA MatchStep ==
    ASSUME SourcesInv, NEW r \in Sweeps, MatchSearch(r)
    PROVE  SourcesStep
<1>1. UNCHANGED <<graph, search, alerts, notified, call, bounds>> /\ sweep[r].pc = "searches"
  BY DEF MatchSearch, RunAt
<1>2. PICK k : k = sweep[r]
  OBVIOUS
<1>3. k \in SearchStates /\ k # Resting /\ Unsent(k) = k.created
  BY <1>1, <1>2, SweepShape, InProgress DEF SourcesInv, SourcesTyped
<1>4. PICK s \in k.left :
         Go(r, [pc |-> "results", left |-> k.left, links |-> k.links, limit |-> k.limit,
                created |-> k.created, of |-> s,
                results |-> selectOpportunityMatches(s, k.links, k.limit) \ BlockedFor(s)])
  BY <1>2 DEF MatchSearch
<1>5. PICK results : results = selectOpportunityMatches(s, k.links, k.limit) \ BlockedFor(s)
  OBVIOUS
<1>6. results \subseteq Matching(s, k.links) \ BlockedFor(s) /\ results \in SUBSET Sources
  BY <1>5 DEF selectOpportunityMatches, Matching
<1>7. PICK m : m = [pc |-> "results", left |-> k.left, links |-> k.links, limit |-> k.limit,
                    created |-> k.created, of |-> s, results |-> results]
  OBVIOUS
<1>8. m \in ResultStates /\ m.of \in m.left /\ m.pc = "results"
  BY <1>3, <1>6, <1>7 DEF SearchStates, ResultStates
<1>9. m.links = k.links /\ m.results = results /\ m.of = s /\ m.created = k.created
  BY <1>7
<1>10. Go(r, m) /\ m \in SweepStates /\ Unsent(m) = Unsent(k)
  BY <1>3, <1>4, <1>5, <1>7, <1>8, <1>9, InProgress DEF SweepStates
<1>11. SweepRight(k) => SweepRight(m)'
  <2>1. SweepRight(k) => m.links = Links'
    BY <1>1, <1>3, <1>9, GraphStays DEF SweepRight
  <2>2. m.results \subseteq Matching(m.of, m.links) \ BlockedFor(m.of)'
    BY <1>1, <1>6, <1>9, GraphStays
  <2> QED BY <1>8, <2>1, <2>2 DEF SweepRight
<1>12. ToldOnce'
  BY <1>1, <1>2, <1>10, ToldStays
<1>13. alerts' \subseteq Pairs /\ notified' \in [Pairs -> Nat]
  BY <1>1 DEF SourcesInv, SourcesTyped
<1>14. UNCHANGED <<graph, call, overlapping, crashes>> /\ alerts' = alerts /\ notified' = notified
  BY <1>1 DEF bounds
<1> QED BY <1>2, <1>3, <1>10, <1>11, <1>12, <1>13, <1>14, SweepMoves

LEMMA FindStep ==
    ASSUME SourcesInv, NEW r \in Sweeps, findOpportunityAlert(r)
    PROVE  SourcesStep
<1>1. UNCHANGED <<graph, search, alerts, notified, call, bounds>> /\ sweep[r].pc = "results"
  BY DEF findOpportunityAlert, RunAt
<1>2. PICK k : k = sweep[r]
  OBVIOUS
<1>3. /\ k \in ResultStates /\ k.of \in k.left /\ k # Resting /\ Unsent(k) = k.created
      /\ k.results # {}
  BY <1>1, <1>2, SweepShape, InProgress DEF SourcesInv, SourcesTyped, findOpportunityAlert
<1>4. First(r) = Top(k)
  BY <1>2 DEF First, Top
<1>5. PICK m \in SweepStates :
         /\ Go(r, m) /\ m.pc # "idle" /\ m.created = k.created /\ m.links = k.links /\ m.of = k.of
         /\ m.results \subseteq k.results /\ (m.pc = "create" => <<m.of, Top(m)>> \notin alerts)
  <2>1. CASE <<k.of, Top(k)>> \in alerts
    <3>1. PICK results : results = k.results \ {Top(k)}
      OBVIOUS
    <3>2. PICK m : m = [k EXCEPT !.results = results]
      OBVIOUS
    <3>3. Go(r, m)
      BY <1>2, <1>4, <2>1, <3>1, <3>2 DEF findOpportunityAlert, PassedOver
    <3>4. /\ m \in ResultStates /\ m.pc = "results" /\ m.created = k.created /\ m.links = k.links
          /\ m.of = k.of /\ m.left = k.left /\ m.results = results
      BY <1>1, <1>2, <1>3, <3>1, <3>2 DEF ResultStates
    <3>5. m \in SweepStates
      BY <1>3, <3>4 DEF SweepStates
    <3> QED BY <3>1, <3>3, <3>4, <3>5
  <2>2. CASE <<k.of, Top(k)>> \notin alerts
    <3>1. PICK m : m = [k EXCEPT !.pc = "create"]
      OBVIOUS
    <3>2. Go(r, m)
      BY <1>2, <1>4, <2>2, <3>1 DEF findOpportunityAlert
    <3>3. /\ m \in ResultStates /\ m.pc = "create" /\ m.created = k.created /\ m.links = k.links
          /\ m.of = k.of /\ m.left = k.left /\ m.results = k.results
      BY <1>3, <3>1 DEF ResultStates
    <3>4. m \in SweepStates
      BY <1>3, <3>3 DEF SweepStates
    <3>5. Top(m) = Top(k)
      BY <3>3 DEF Top
    <3> QED BY <2>2, <3>2, <3>3, <3>4, <3>5
  <2> QED BY <2>1, <2>2
<1>6. Unsent(m) = Unsent(k)
  BY <1>3, <1>5, InProgress
<1>7. SweepRight(k) => SweepRight(m)'
  <2>1. SweepRight(k) => m.links = Links'
    BY <1>1, <1>3, <1>5, GraphStays DEF SweepRight
  <2>2. SweepRight(k) => m.results \subseteq Matching(m.of, m.links) \ BlockedFor(m.of)'
    <3>1. SweepRight(k) => k.results \subseteq Matching(k.of, k.links) \ BlockedFor(k.of)
      BY <1>1, <1>2, <1>3 DEF SweepRight
    <3> QED BY <1>1, <1>5, <3>1, GraphStays
  <2>3. Top(m)' = Top(m)
    BY DEF Top, Better
  <2> QED BY <1>1, <1>5, <2>1, <2>2, <2>3 DEF SweepRight
<1>8. ToldOnce'
  BY <1>1, <1>2, <1>5, <1>6, ToldStays
<1>9. alerts' \subseteq Pairs /\ notified' \in [Pairs -> Nat]
  BY <1>1 DEF SourcesInv, SourcesTyped
<1>10. UNCHANGED <<graph, call, overlapping, crashes>> /\ alerts' = alerts /\ notified' = notified
  BY <1>1 DEF bounds
<1> QED BY <1>2, <1>3, <1>5, <1>6, <1>7, <1>8, <1>9, <1>10, SweepMoves

LEMMA CreateStep ==
    ASSUME SourcesInv, NEW r \in Sweeps, createOpportunityAlert(r)
    PROVE  SourcesStep
<1>1. UNCHANGED <<graph, search, notified, call, bounds>> /\ sweep[r].pc = "create"
  BY DEF createOpportunityAlert, RunAt
<1>2. PICK k : k = sweep[r]
  OBVIOUS
<1>3. /\ k \in ResultStates /\ k.of \in k.left /\ k # Resting /\ Unsent(k) = k.created
      /\ k.results # {}
  BY <1>1, <1>2, SweepShape, InProgress DEF SourcesInv, SourcesTyped
<1>4. First(r) = Top(k) /\ Top(k) \in k.results
  BY <1>2, <1>3, TopIsOne DEF First, Top
<1>5. PICK a : a = <<k.of, Top(k)>>
  OBVIOUS
<1>6. a \in Pairs /\ a[1] = k.of /\ a[2] = Top(k)
  BY <1>3, <1>4, <1>5 DEF ResultStates, Pairs
<1>7. UNCHANGED <<graph, call, overlapping, crashes>> /\ notified' \in [Pairs -> Nat] /\ notified' = notified
  BY <1>1 DEF bounds, SourcesInv, SourcesTyped
<1>8. CASE a \in alerts
  <2>1. Go(r, Resting) /\ alerts' = alerts
    BY <1>2, <1>4, <1>5, <1>8 DEF createOpportunityAlert, Taken
  <2>2. ToldOnce'
    BY <1>7, <2>1, Rests, ToldStays
  <2>3. ~SweepRight(k)
    BY <1>1, <1>2, <1>3, <1>5, <1>8 DEF SweepRight
  <2>4. alerts' \subseteq Pairs
    BY <2>1 DEF SourcesInv, SourcesTyped
  <2> QED BY <1>2, <1>3, <1>7, <2>1, <2>2, <2>3, <2>4, Rests, SweepMoves
<1>9. CASE a \notin alerts
  <2>1. PICK results, created : results = k.results \ {Top(k)} /\ created = k.created \cup {a}
    OBVIOUS
  <2>2. PICK m : m = [k EXCEPT !.pc = "results", !.results = results, !.created = created]
    OBVIOUS
  <2>3. Go(r, m) /\ alerts' = alerts \cup {a}
    BY <1>2, <1>4, <1>5, <1>9, <2>1, <2>2 DEF createOpportunityAlert, Taken
  <2>4. created \in SUBSET Pairs /\ results \in SUBSET Sources
    BY <1>3, <1>6, <2>1 DEF ResultStates
  <2>5. /\ m \in ResultStates /\ m.pc = "results" /\ m.created = created /\ m.links = k.links
        /\ m.of = k.of /\ m.left = k.left /\ m.results = results
    BY <1>3, <2>2, <2>4 DEF ResultStates
  <2>6. m \in SweepStates /\ Unsent(m) = Unsent(k) \cup {a}
    BY <1>3, <2>1, <2>5, InProgress DEF SweepStates
  <2>7. /\ sweep'[r] = m
        /\ \A q \in Sweeps : q # r => sweep'[q] = sweep[q]
    BY <2>3, <2>6, SweepGoes DEF SourcesInv
  <2>8. notified[a] = 0
    BY <1>6, <1>9 DEF SourcesInv, SourcesTyped, ToldOnce
  <2>9. \A q \in Sweeps : a \notin Unsent(sweep[q])
    BY <1>9 DEF SourcesInv, ToldOnce
  <2>10. ToldOnce'
    <3>1. \A b \in Pairs : notified'[b] <= IF b \in alerts' THEN 1 ELSE 0
      <4> SUFFICES ASSUME NEW b \in Pairs PROVE notified'[b] <= IF b \in alerts' THEN 1 ELSE 0
        OBVIOUS
      <4>1. notified[b] <= (IF b \in alerts THEN 1 ELSE 0) /\ notified[b] \in Nat
        BY DEF SourcesInv, SourcesTyped, ToldOnce
      <4> QED BY <1>7, <2>3, <4>1
    <3>2. \A q \in Sweeps : \A b \in Unsent(sweep'[q]) : b \in alerts' /\ notified'[b] = 0
      <4> SUFFICES ASSUME NEW q \in Sweeps, NEW b \in Unsent(sweep'[q])
                   PROVE  b \in alerts' /\ notified'[b] = 0
        OBVIOUS
      <4>1. b = a \/ b \in Unsent(sweep[q])
        BY <1>2, <2>6, <2>7
      <4> QED BY <1>7, <2>3, <2>8, <4>1 DEF SourcesInv, ToldOnce
    <3>3. \A p, q \in Sweeps : p # q => Unsent(sweep'[p]) \cap Unsent(sweep'[q]) = {}
      <4>1. \A p, q \in Sweeps : p # q => Unsent(sweep[p]) \cap Unsent(sweep[q]) = {}
        BY DEF SourcesInv, ToldOnce
      <4> QED BY <1>2, <2>6, <2>7, <2>9, <4>1
    <3> QED BY <3>1, <3>2, <3>3 DEF ToldOnce
  <2>11. SweepRight(k) => SweepRight(m)' /\ Wanted(a)
    <3>1. SweepRight(k) => k.links = Links /\ k.results \subseteq Matching(k.of, k.links) \ BlockedFor(k.of)
      BY <1>1, <1>2, <1>3 DEF SweepRight
    <3>2. SweepRight(k) => Wanted(a)
      BY <1>4, <1>6, <3>1 DEF Wanted
    <3>3. SweepRight(k) => m.results \subseteq Matching(m.of, m.links) \ BlockedFor(m.of)'
      BY <1>7, <2>1, <2>5, <3>1, GraphStays
    <3> QED BY <1>7, <2>5, <3>1, <3>2, <3>3, GraphStays DEF SweepRight
  <2>12. alerts' \subseteq Pairs
    BY <1>6, <2>3 DEF SourcesInv, SourcesTyped
  <2>13. SweepRight(k) => \A b \in alerts' \ alerts : Wanted(b)
    BY <2>3, <2>11
  <2>14. \A b \in alerts' : (b \in alerts /\ notified'[b] = notified[b]) \/ notified'[b] = 1 \/ b \in Unsent(m)
    BY <1>7, <2>3, <2>6
  <2> QED BY <1>2, <1>3, <1>7, <2>3, <2>6, <2>10, <2>11, <2>12, <2>13, <2>14, SweepMoves
<1> QED BY <1>8, <1>9

LEMMA UpdateStep ==
    ASSUME SourcesInv, NEW r \in Sweeps, updateSavedSearch(r)
    PROVE  SourcesStep
<1>1. UNCHANGED <<graph, alerts, notified, call, bounds>> /\ sweep[r].pc = "results"
  BY DEF updateSavedSearch, RunAt
<1>2. PICK k : k = sweep[r]
  OBVIOUS
<1>3. k \in ResultStates /\ k # Resting /\ Unsent(k) = k.created
  BY <1>1, <1>2, SweepShape, InProgress DEF SourcesInv, SourcesTyped
<1>4. PICK m : m = [pc |-> "searches", left |-> k.left \ {k.of}, links |-> k.links, limit |-> k.limit,
                    created |-> k.created]
  OBVIOUS
<1>5. Go(r, Searching(m)) /\ m \in SearchStates /\ m.created = k.created /\ m.links = k.links
  BY <1>2, <1>3, <1>4 DEF updateSavedSearch, ResultStates, SearchStates
<1>6. /\ Searching(m) \in SweepStates /\ Unsent(Searching(m)) = Unsent(k)
      /\ m.links = Links' => SweepRight(Searching(m))'
  BY <1>3, <1>5, SearchingIs
<1>7. SweepRight(k) => SweepRight(Searching(m))'
  BY <1>1, <1>3, <1>5, <1>6, GraphStays DEF SweepRight
<1>8. ToldOnce'
  BY <1>1, <1>2, <1>5, <1>6, ToldStays
<1>9. alerts' \subseteq Pairs /\ notified' \in [Pairs -> Nat]
  BY <1>1 DEF SourcesInv, SourcesTyped
<1>10. UNCHANGED <<graph, call, overlapping, crashes>> /\ alerts' = alerts /\ notified' = notified
  BY <1>1 DEF bounds
<1> QED BY <1>2, <1>3, <1>5, <1>6, <1>7, <1>8, <1>9, <1>10, SweepMoves

LEMMA PlanStep ==
    ASSUME SourcesInv, NEW r \in Sweeps, planAndQueue(r)
    PROVE  SourcesStep
<1>1. UNCHANGED <<graph, search, alerts, call, bounds>> /\ sweep[r].pc = "searches"
  BY DEF planAndQueue, RunAt
<1>2. PICK k : k = sweep[r]
  OBVIOUS
<1>3. k \in SearchStates /\ k # Resting /\ Unsent(k) = k.created
  BY <1>1, <1>2, SweepShape, InProgress DEF SourcesInv, SourcesTyped
<1>4. PICK a \in k.created : /\ notified' = [notified EXCEPT ![a] = @ + 1]
                             /\ Go(r, Searching([k EXCEPT !.created = @ \ {a}]))
  BY <1>2 DEF planAndQueue
<1>5. PICK created : created = k.created \ {a}
  OBVIOUS
<1>6. PICK m : m = [k EXCEPT !.created = created]
  OBVIOUS
<1>7. m \in SearchStates /\ m.created = created /\ m.links = k.links
  BY <1>3, <1>5, <1>6 DEF SearchStates
<1>8. Go(r, Searching(m))
  BY <1>4, <1>5, <1>6
<1>9. /\ Searching(m) \in SweepStates /\ Unsent(Searching(m)) = created
      /\ m.links = Links' => SweepRight(Searching(m))'
  BY <1>7, SearchingIs
<1>10. SweepRight(k) => SweepRight(Searching(m))'
  BY <1>1, <1>3, <1>7, <1>9, GraphStays DEF SweepRight
<1>11. a \in Pairs /\ a \in alerts /\ notified[a] = 0 /\ k.created \subseteq Pairs
  BY <1>2, <1>3, <1>4 DEF SourcesInv, ToldOnce, SearchStates
<1>12. /\ notified' \in [Pairs -> Nat] /\ notified'[a] = 1
       /\ \A b \in Pairs : b # a => notified'[b] = notified[b]
  BY <1>4, <1>11 DEF SourcesInv, SourcesTyped
<1>13. /\ sweep'[r] = Searching(m)
       /\ \A q \in Sweeps : q # r => sweep'[q] = sweep[q]
  BY <1>8, <1>9, SweepGoes DEF SourcesInv
<1>14. ToldOnce'
  <2>1. \A b \in Pairs : notified'[b] <= IF b \in alerts' THEN 1 ELSE 0
    BY <1>1, <1>11, <1>12 DEF SourcesInv, ToldOnce
  <2>2. \A q \in Sweeps : Unsent(sweep'[q]) \subseteq Unsent(sweep[q]) /\ a \notin Unsent(sweep'[q])
    <3>1. \A q \in Sweeps : q # r => a \notin Unsent(sweep[q])
      BY <1>2, <1>3, <1>4 DEF SourcesInv, ToldOnce
    <3> QED BY <1>2, <1>3, <1>5, <1>9, <1>13, <3>1
  <2>3. \A q \in Sweeps : Unsent(sweep[q]) \subseteq alerts /\ alerts \subseteq Pairs
    BY DEF SourcesInv, SourcesTyped, ToldOnce
  <2>4. \A q \in Sweeps : \A b \in Unsent(sweep'[q]) : b \in alerts' /\ notified'[b] = 0
    BY <1>1, <1>12, <2>2, <2>3 DEF SourcesInv, ToldOnce
  <2>5. \A p, q \in Sweeps : p # q => Unsent(sweep'[p]) \cap Unsent(sweep'[q]) = {}
    <3>1. \A p, q \in Sweeps : p # q => Unsent(sweep[p]) \cap Unsent(sweep[q]) = {}
      BY DEF SourcesInv, ToldOnce
    <3> QED BY <2>2, <3>1
  <2> QED BY <2>1, <2>4, <2>5 DEF ToldOnce
<1>15. UNCHANGED <<graph, call, overlapping, crashes>> /\ alerts' = alerts /\ alerts' \subseteq Pairs
  BY <1>1 DEF bounds, SourcesInv, SourcesTyped
<1>16. \A b \in alerts' : (b \in alerts /\ notified'[b] = notified[b]) \/ notified'[b] = 1
  BY <1>12, <1>15
<1>17. Unsent(k) \subseteq Unsent(Searching(m)) \cup {b \in Pairs : notified'[b] = 1}
  BY <1>3, <1>5, <1>9, <1>11, <1>12
<1> QED BY <1>2, <1>3, <1>8, <1>9, <1>10, <1>12, <1>14, <1>15, <1>16, <1>17, SweepMoves

(* A cadence passes, or someone dies.                                        *)
LEMMA DueStep ==
    ASSUME SourcesInv, NEW s \in Searches, Due(s)
    PROVE  SourcesStep
<1>1. UNCHANGED <<claims, blocks, reports, alerts, notified, sweep, call, overlapping, crashes>>
  BY DEF Due, graph, bounds
<1>2. Links' = Links /\ \A t : BlockedFor(t)' = BlockedFor(t)
  BY <1>1, GraphStays DEF graph
<1>3. SourcesTyped' /\ ToldOnce' /\ Decided /\ (OneActor => OneActor') /\ (AllTold => AllTold')
  BY <1>1 DEF SourcesInv, SourcesTyped, ToldOnce, Decided, OneActor, AllTold
<1>4. SourcesAlone /\ overlapping = 0 =>
         (\A r \in Sweeps : SweepRight(sweep[r])') /\ (\A k \in Calls : CallRight(call[k])')
  <2>1. \A k : Top(k)' = Top(k)
    BY DEF Top, Better
  <2>2. \A r \in Sweeps : SweepRight(sweep[r]) => SweepRight(sweep[r])'
    BY <1>1, <1>2, <2>1 DEF SweepRight
  <2>3. \A k \in Calls : CallRight(call[k]) => CallRight(call[k])'
    BY <1>1 DEF CallRight
  <2> QED BY <2>2, <2>3 DEF SourcesAlone
<1> QED BY <1>1, <1>3, <1>4, NothingBegins

LEMMA DeathStep ==
    ASSUME SourcesInv, Dies
    PROVE  SourcesStep
<1>1. UNCHANGED <<graph, search, alerts, notified, calls, overlapping>> /\ crashes' = crashes + 1
  BY DEF Dies
<1>2. /\ sweep' \in [Sweeps -> SweepStates] /\ call' \in [Calls -> CallStates]
      /\ \A r \in Sweeps : sweep'[r] \in {sweep[r], Resting}
      /\ \A k \in Calls : call'[k] \in {call[k], Resting}
  <2>1. ASSUME NEW r \in Sweeps, Go(r, Resting), UNCHANGED call
        PROVE  /\ sweep' \in [Sweeps -> SweepStates] /\ call' \in [Calls -> CallStates]
               /\ \A q \in Sweeps : sweep'[q] \in {sweep[q], Resting}
               /\ \A k \in Calls : call'[k] \in {call[k], Resting}
    BY <2>1, Rests DEF Go, SourcesInv, SourcesTyped
  <2>2. ASSUME NEW k \in Calls, call' = [call EXCEPT ![k] = Resting], UNCHANGED sweep
        PROVE  /\ sweep' \in [Sweeps -> SweepStates] /\ call' \in [Calls -> CallStates]
               /\ \A q \in Sweeps : sweep'[q] \in {sweep[q], Resting}
               /\ \A w \in Calls : call'[w] \in {call[w], Resting}
    BY <2>2, Rests DEF SourcesInv, SourcesTyped
  <2> QED BY <2>1, <2>2 DEF Dies
<1>3. SourcesTyped' /\ Decided /\ (OneActor => OneActor')
  <2>1. SourcesTyped'
    BY <1>1, <1>2 DEF SourcesInv, SourcesTyped, graph
  <2>2. Decided
    BY <1>1 DEF Decided, graph
  <2>3. OneActor => OneActor'
    BY <1>2 DEF OneActor
  <2> QED BY <2>1, <2>2, <2>3
<1>4. ToldOnce'
  <2>1. \A r \in Sweeps : Unsent(sweep'[r]) \subseteq Unsent(sweep[r])
    BY <1>2, Rests
  <2> QED BY <1>1, <2>1 DEF SourcesInv, ToldOnce
<1>5. SourcesAlone /\ overlapping = 0 =>
         (\A r \in Sweeps : SweepRight(sweep[r])') /\ (\A k \in Calls : CallRight(call[k])')
  <2>1. Links' = Links /\ \A t : BlockedFor(t)' = BlockedFor(t)
    BY <1>1, GraphStays
  <2>2. \A k : Top(k)' = Top(k)
    BY DEF Top, Better
  <2>3. \A r \in Sweeps : SweepRight(sweep[r]) => SweepRight(sweep[r])'
    BY <1>1, <1>2, <2>1, <2>2 DEF SweepRight
  <2>4. \A k \in Calls : CallRight(call[k]) => CallRight(call[k])'
    BY <1>1, <1>2 DEF CallRight, graph, Resting
  <2> QED BY <2>3, <2>4 DEF SourcesAlone
<1>6. overlapping' = overlapping /\ crashes' # 0
  BY <1>1 DEF SourcesInv, SourcesTyped
<1> QED BY <1>1, <1>3, <1>4, <1>5, <1>6, NothingBegins

LEMMA SourcesNextStep == SourcesInv /\ [AlertsNext]_sourceVars => SourcesStep
<1> SUFFICES ASSUME SourcesInv, [AlertsNext]_sourceVars PROVE SourcesStep
  OBVIOUS
<1>1. CASE UNCHANGED sourceVars
  <2>1. SourcesInv'
    <3>1. UNCHANGED <<claims, blocks, reports, alerts, notified, sweep, call, overlapping, crashes>>
      BY <1>1 DEF sourceVars
    <3>2. Links' = Links /\ \A t : BlockedFor(t)' = BlockedFor(t)
      BY <3>1, GraphStays DEF graph
    <3>3. \A k : Top(k)' = Top(k)
      BY DEF Top, Better
    <3>4. \A r \in Sweeps : SweepRight(sweep[r]) => SweepRight(sweep[r])'
      BY <3>1, <3>2, <3>3 DEF SweepRight
    <3>5. \A k \in Calls : CallRight(call[k]) => CallRight(call[k])'
      BY <3>1 DEF CallRight
    <3>6. SourcesTyped' /\ ToldOnce' /\ (OneActor => OneActor') /\ (AllTold => AllTold')
      BY <3>1 DEF SourcesInv, SourcesTyped, ToldOnce, OneActor, AllTold
    <3> QED BY <3>1, <3>4, <3>5, <3>6 DEF SourcesInv, SourcesAlone
  <2>2. Decided
    BY <1>1 DEF Decided, sourceVars
  <2> QED BY <2>1, <2>2 DEF SourcesStep
<1>2. CASE UserActs
  BY <1>2, UserStep
<1>3. CASE Dies
  BY <1>3, DeathStep
<1>4. ASSUME NEW s \in Searches, Due(s) PROVE SourcesStep
  BY <1>4, DueStep
<1>5. ASSUME NEW k \in Calls, decideClaim(k) \/ removeClaim(k) \/ resolveReport(k) \/ Stored(k)
      PROVE  SourcesStep
  BY <1>5, CallBegins, StoredStep
<1>6. ASSUME NEW r \in Sweeps, Requested(r) \/ \E t \in Tenants : runAllOpportunityAlerts(r, t)
      PROVE  SourcesStep
  BY <1>6, SweepBegins
<1>7. ASSUME NEW r \in Sweeps, RunStep(r) PROVE SourcesStep
  BY <1>7, MatchStep, FindStep, CreateStep, UpdateStep, PlanStep DEF RunStep
<1> QED BY <1>1, <1>2, <1>3, <1>4, <1>5, <1>6, <1>7 DEF AlertsNext, UserActs

LEMMA SourcesInit == AlertsInit => SourcesInv
<1> SUFFICES ASSUME AlertsInit PROVE SourcesInv
  OBVIOUS
<1>1. SourcesTyped
  BY Rests DEF AlertsInit, SourcesTyped, ClaimRows, MadeClaims, Visibilities, ReportStates
<1>2. \A r \in Sweeps : sweep[r] = Resting /\ Unsent(sweep[r]) = {}
  BY Rests DEF AlertsInit
<1>3. ToldOnce
  BY <1>2 DEF AlertsInit, ToldOnce
<1>4. SourcesAlone
  BY <1>2, Rests DEF AlertsInit, SourcesAlone, OneActor, AllTold
<1> QED BY <1>1, <1>3, <1>4 DEF SourcesInv

(* What the proof rests on: types, an alert is to be told of by one sweep at  *)
(* most, and what an operation that is alone has read is so.                  *)
THEOREM SourcesInvariant == AlertsSpec => []SourcesInv
<1>1. SourcesInv /\ [AlertsNext]_sourceVars => SourcesInv'
  BY SourcesNextStep DEF SourcesStep
<1> QED BY <1>1, SourcesInit, PTL DEF AlertsSpec

(* A tenant is told of a source at most once for a search, whatever overlaps  *)
(* and dies; of every alert there is, if nothing does; and of operations that *)
(* come one at a time, decisions stand and new alerts are for what matches.   *)
THEOREM ToldAndDecided == AlertsSpec => NoticesAndDecisions
<1> DEFINE Stands == overlapping' = 0 =>
          /\ \A c \in Claims : claims[c].status \in {"REJECTED", "REMOVED"} =>
                claims'[c].status \in {claims[c].status, "REMOVED"}
          /\ \A n \in Reports :
                reports[n] \in {"RESOLVED", "DISMISSED"} => reports'[n] = reports[n]
          /\ \A a \in alerts' \ alerts : Wanted(a)
<1>1. SourcesInv => NoticesMatchAlerts
  <2> SUFFICES ASSUME SourcesInv PROVE NoticesMatchAlerts
    OBVIOUS
  <2>1. ASSUME Quiet, overlapping = 0, crashes = 0, NEW a \in alerts PROVE notified[a] = 1
    <3>1. notified[a] = 1 \/ \E r \in Sweeps : a \in Unsent(sweep[r])
      BY <2>1 DEF SourcesInv, SourcesAlone, AllTold
    <3> QED BY <2>1, <3>1, Rests DEF Quiet
  <2> QED BY <2>1 DEF SourcesInv, ToldOnce, NoticesMatchAlerts
<1>2. SourcesInv /\ [AlertsNext]_sourceVars => [Stands]_sourceVars
  BY SourcesNextStep DEF SourcesStep, Decided
<1> QED BY <1>1, <1>2, SourcesInvariant, PTL DEF AlertsSpec, NoticesAndDecisions, DecisionsStand
=============================================================================
