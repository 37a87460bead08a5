---------------------------- MODULE AccountDeletion ----------------------------
(* The deletion of an account (apps/api/src/modules/privacy): a request with   *)
(* a grace period, its cancellation, and the daily sweep that erases what the  *)
(* tenant holds, closes the user's sessions and completes the request.  Every  *)
(* operation reads a row and later writes a whole copy of it, so operations    *)
(* that overlap may undo each other.                                           *)
EXTENDS Integers, Sequences, FiniteSets

CONSTANTS
    Accounts,    \* a user in a tenant
    Tenants,
    TenantOf,    \* the tenant of an account
    Stuck,       \* the tenants whose erasure always throws
    Calls,       \* requests of users in progress
    Sweeps,      \* runs of runDueDeletions
    GraceDays,   \* DELETION_GRACE_DAYS
    Limit,       \* how many requests one sweep takes
    MaxDay, MaxRequests, MaxOverlaps, MaxFaults \* bounds

ASSUME AccountsAssumption ==
    /\ TenantOf \in [Accounts -> Tenants] /\ Stuck \subseteq Tenants
    /\ GraceDays \in Nat /\ Limit \in Nat \ {0}

VARIABLES
    reqs,     \* the AccountDeletionRequest rows, in the order they were made
    holdings, \* per tenant: the kinds of records it has
    session,  \* has the account's user a session that is not revoked?
    today,
    call,     \* per call: where it is, and the row it read
    sweep,    \* per sweep: where it is, the copies it listed and its own copy
    asked,    \* per account: the day its user asked for the deletion that stands
    erased,   \* per row: what was erased on its account so far
    overlaps, \* operations begun so far while another was in progress
    faults    \* calls that threw and processes that died so far

vars == <<reqs, holdings, session, today, call, sweep, asked, erased, overlaps, faults>>

Kinds == {"profiles", "adverts", "conversations"}
NotAsked == -1
None == 0
IdleCall == [pc |-> "idle", account |-> None, id |-> None]
IdleSweep == [pc |-> "idle", todo |-> {}, id |-> None]

Pending(r) == r.status \in {"REQUESTED", "PROCESSING"}

(* Mutant: a request in processing is left to the sweep that took it. *)
isDeletionDueMutant(r, now) == r.status = "REQUESTED" /\ r.due <= now

isDeletionDue(r, now) == Pending(r) /\ r.due <= now

Rows(a) == {i \in DOMAIN reqs : reqs[i].account = a}
(* The account's latest request. *)
findDeletion(a) ==
    IF Rows(a) = {} THEN None ELSE CHOOSE i \in Rows(a) : \A j \in Rows(a) : j <= i

(* The oldest requests that are due; the order of the rows is that of their *)
(* scheduled days.                                                          *)
listDueDeletions(now) ==
    LET due == {i \in DOMAIN reqs : isDeletionDue(reqs[i], now)}
    IN  {i \in due : Cardinality({j \in due : j < i}) < Limit}

(* The sweep takes what it listed in that order. *)
Oldest(todo) == CHOOSE i \in todo : \A j \in todo : i <= j
-----------------------------------------------------------------------------
Init ==
    /\ reqs = <<>>
    /\ holdings = [t \in Tenants |-> Kinds]
    /\ session = [a \in Accounts |-> TRUE]
    /\ today = 0
    /\ call = [c \in Calls |-> IdleCall]
    /\ sweep = [s \in Sweeps |-> IdleSweep]
    /\ asked = [a \in Accounts |-> NotAsked]
    /\ erased = <<>>
    /\ overlaps = 0 /\ faults = 0

Quiet == /\ \A c \in Calls : call[c].pc = "idle"
         /\ \A s \in Sweeps : sweep[s].pc = "idle"
Begin == /\ IF Quiet THEN UNCHANGED overlaps
            ELSE overlaps < MaxOverlaps /\ overlaps' = overlaps + 1
         /\ UNCHANGED faults

counters == <<overlaps, faults>>
world == <<holdings, session, today>>
-----------------------------------------------------------------------------
(* The tenants. *)

Tick ==
    /\ today < MaxDay
    /\ today' = today + 1
    /\ UNCHANGED <<reqs, holdings, session, call, sweep, asked, erased, counters>>

(* A user logs in again, deletion or not: the user row and the membership stay. *)
Login(a) ==
    /\ ~session[a]
    /\ session' = [session EXCEPT ![a] = TRUE]
    /\ UNCHANGED <<reqs, holdings, today, call, sweep, asked, erased, counters>>

Create(a) ==
    /\ session[a]
    /\ \E k \in Kinds \ holdings[TenantOf[a]] :
          holdings' = [holdings EXCEPT ![TenantOf[a]] = @ \cup {k}]
    /\ UNCHANGED <<reqs, session, today, call, sweep, asked, erased, counters>>

CallAt(c, pc) == call[c].pc = pc

(* Mutant: a request in processing does not refuse another. *)
RequestLoadMutant(c) ==
    /\ CallAt(c, "idle")
    /\ Len(reqs) + Cardinality({d \in Calls : CallAt(d, "save")}) < MaxRequests
    /\ Begin
    /\ \E a \in Accounts :
          /\ session[a]
          /\ findDeletion(a) # None => reqs[findDeletion(a)].status # "REQUESTED"
          /\ call' = [call EXCEPT ![c] = [pc |-> "save", account |-> a, id |-> None]]
    /\ UNCHANGED <<reqs, world, sweep, asked, erased>>

RequestLoad(c) ==
    /\ CallAt(c, "idle")
    /\ Len(reqs) + Cardinality({d \in Calls : CallAt(d, "save")}) < MaxRequests
    /\ Begin
    /\ \E a \in Accounts :
          /\ session[a]
          /\ findDeletion(a) # None => ~Pending(reqs[findDeletion(a)])
          /\ call' = [call EXCEPT ![c] = [pc |-> "save", account |-> a, id |-> None]]
    /\ UNCHANGED <<reqs, world, sweep, asked, erased>>

RequestSave(c) ==
    /\ CallAt(c, "save")
    /\ reqs' = Append(reqs, [account |-> call[c].account, status |-> "REQUESTED",
                             due |-> today + GraceDays])
    /\ erased' = Append(erased, {})
    /\ asked' = [asked EXCEPT ![call[c].account] = today]
    /\ call' = [call EXCEPT ![c] = IdleCall]
    /\ UNCHANGED <<world, sweep, counters>>

CancelLoad(c) ==
    /\ CallAt(c, "idle")
    /\ Begin
    /\ \E a \in Accounts :
          /\ session[a] /\ findDeletion(a) # None
          /\ reqs[findDeletion(a)].status = "REQUESTED"
          /\ call' = [call EXCEPT ![c] = [pc |-> "cancel", account |-> a,
                                          id |-> findDeletion(a)]]
    /\ UNCHANGED <<reqs, world, sweep, asked, erased>>

CancelSave(c) ==
    /\ CallAt(c, "cancel")
    /\ reqs' = [reqs EXCEPT ![call[c].id].status = "CANCELLED"]
    /\ asked' = [asked EXCEPT ![call[c].account] = NotAsked]
    /\ call' = [call EXCEPT ![c] = IdleCall]
    /\ UNCHANGED <<world, sweep, erased, counters>>
-----------------------------------------------------------------------------
(* The sweep, runDueDeletions.  Nothing but the status of a row ever changes,  *)
(* so writing a copy back is writing its status.                               *)

SweepAt(s, pc) == sweep[s].pc = pc
Go(s, pc) == sweep' = [sweep EXCEPT ![s].pc = pc]
Row(s) == reqs[sweep[s].id]
TenantAt(s) == TenantOf[Row(s).account]

List(s) ==
    /\ SweepAt(s, "idle")
    /\ Begin
    /\ listDueDeletions(today) # {}
    /\ sweep' = [sweep EXCEPT ![s] = [pc |-> "next", todo |-> listDueDeletions(today),
                                      id |-> None]]
    /\ UNCHANGED <<reqs, world, call, asked, erased>>

(* The next of the listed copies; they were due when they were listed, and  *)
(* isDeletionDue looks at the copy.                                         *)
Mark(s) ==
    /\ SweepAt(s, "next") /\ sweep[s].todo # {}
    /\ LET id == Oldest(sweep[s].todo)
       IN  /\ reqs' = [reqs EXCEPT ![id].status = "PROCESSING"]
           /\ sweep' = [sweep EXCEPT ![s] = [pc |-> "profiles", id |-> id, todo |-> @.todo \ {id}]]
    /\ UNCHANGED <<world, call, asked, erased, counters>>

(* A transaction of one service: all the tenant's records of the kind go. *)
EraseKind(s, kind, after) ==
    /\ SweepAt(s, kind) /\ TenantAt(s) \notin Stuck
    /\ holdings' = [holdings EXCEPT ![TenantAt(s)] = @ \ {kind}]
    /\ erased' = [erased EXCEPT ![sweep[s].id] = @ \cup {kind}]
    /\ Go(s, after)
    /\ UNCHANGED <<reqs, session, today, call, asked, counters>>

EraseProfiles(s) == EraseKind(s, "profiles", "adverts")
EraseAdverts(s) == EraseKind(s, "adverts", "conversations")
EraseConversations(s) == EraseKind(s, "conversations", "revoke")

Revoke(s) ==
    /\ SweepAt(s, "revoke")
    /\ session' = [session EXCEPT ![Row(s).account] = FALSE]
    /\ erased' = [erased EXCEPT ![sweep[s].id] = @ \cup {"sessions"}]
    /\ Go(s, "finish")
    /\ UNCHANGED <<reqs, holdings, today, call, asked, counters>>

Finish(s) ==
    /\ SweepAt(s, "finish")
    /\ reqs' = [reqs EXCEPT ![sweep[s].id].status = "COMPLETED"]
    /\ asked' = [asked EXCEPT ![Row(s).account] = NotAsked]
    /\ Go(s, "next")
    /\ UNCHANGED <<world, call, erased, counters>>

(* Mutant: a failed erasure is completed like the others. *)
FailMutant(s) ==
    /\ sweep[s].pc \in Kinds \cup {"revoke", "finish"}
    /\ \/ sweep[s].pc \in Kinds /\ TenantAt(s) \in Stuck /\ UNCHANGED faults
       \/ faults < MaxFaults /\ faults' = faults + 1
    /\ Go(s, "finish")
    /\ UNCHANGED <<reqs, world, call, asked, erased, overlaps>>

(* A call inside the try throws: the row stays PROCESSING, the sweep goes on. *)
Fail(s) ==
    /\ sweep[s].pc \in Kinds \cup {"revoke", "finish"}
    /\ \/ sweep[s].pc \in Kinds /\ TenantAt(s) \in Stuck /\ UNCHANGED faults
       \/ faults < MaxFaults /\ faults' = faults + 1
    /\ Go(s, "next")
    /\ UNCHANGED <<reqs, world, call, asked, erased, overlaps>>

Complete(s) ==
    /\ SweepAt(s, "next") /\ sweep[s].todo = {}
    /\ sweep' = [sweep EXCEPT ![s] = IdleSweep]
    /\ UNCHANGED <<reqs, world, call, asked, erased, counters>>

Crash ==
    /\ faults < MaxFaults
    /\ faults' = faults + 1
    /\ \/ \E s \in Sweeps : /\ ~SweepAt(s, "idle")
                            /\ sweep' = [sweep EXCEPT ![s] = IdleSweep]
                            /\ UNCHANGED call
       \/ \E c \in Calls : /\ ~CallAt(c, "idle")
                           /\ call' = [call EXCEPT ![c] = IdleCall]
                           /\ UNCHANGED sweep
    /\ UNCHANGED <<reqs, world, asked, erased, overlaps>>
-----------------------------------------------------------------------------
CallStep(c) == RequestSave(c) \/ CancelSave(c)
SweepStep(s) == \/ Mark(s) \/ EraseProfiles(s) \/ EraseAdverts(s)
                \/ EraseConversations(s) \/ Revoke(s)
                \/ Finish(s) \/ Fail(s) \/ Complete(s)

Next == \/ Tick \/ Crash
        \/ \E a \in Accounts : Login(a) \/ Create(a)
        \/ \E c \in Calls : RequestLoad(c) \/ CancelLoad(c) \/ CallStep(c)
        \/ \E s \in Sweeps : List(s) \/ SweepStep(s)

(* The scheduler begins a sweep every day, and what was begun goes on. *)
Spec == Init /\ [][Next]_vars
FairSpec == /\ Spec
            /\ \A c \in Calls : WF_vars(CallStep(c))
            /\ \A s \in Sweeps : WF_vars(SweepStep(s)) /\ SF_vars(List(s))
-----------------------------------------------------------------------------
(* Properties.                                                             *)

TypeOK ==
    /\ \A i \in DOMAIN reqs :
          /\ reqs[i].account \in Accounts /\ reqs[i].due \in Nat
          /\ reqs[i].status \in {"REQUESTED", "PROCESSING", "CANCELLED", "COMPLETED"}
    /\ holdings \in [Tenants -> SUBSET Kinds]
    /\ DOMAIN erased = DOMAIN reqs
    /\ \A a \in Accounts : asked[a] \in Nat \cup {NotAsked}

Wanted(a) == asked[a] # NotAsked /\ today >= asked[a] + GraceDays

(* A sweep erases a tenant's records, or ends a user's sessions, only for a    *)
(* deletion that its user asked for GraceDays ago and has not cancelled since, *)
(* of operations that come one at a time, whatever threw or died before.       *)
ErasureIsWanted ==
    [][overlaps' = 0 =>
          /\ \A t \in Tenants : ~(holdings[t] \subseteq holdings'[t]) =>
                \E a \in Accounts : TenantOf[a] = t /\ Wanted(a)
          /\ \A a \in Accounts : session[a] /\ ~session'[a] => Wanted(a)]_vars

(* A request says COMPLETED only when each kind of records was erased for it   *)
(* and the user's sessions were closed, in any order of sweeps, calls and      *)
(* failures; and of operations that come one at a time, a cancelled request    *)
(* has erased nothing.                                                         *)
CompletedIsWhole ==
    \A i \in DOMAIN reqs :
        /\ reqs[i].status = "COMPLETED" => erased[i] = Kinds \cup {"sessions"}
        /\ reqs[i].status = "CANCELLED" /\ overlaps = 0 => erased[i] = {}

OpenAt(t) == {i \in DOMAIN reqs : Pending(reqs[i]) /\ TenantOf[reqs[i].account] = t}

(* A request that is due is completed or cancelled in the end, in spite of     *)
(* calls that throw and sweeps that die, unless as many requests as a sweep    *)
(* takes belong to tenants whose erasure throws every time.                    *)
DueIsSettled ==
    \A i \in 1..MaxRequests :
        (/\ i \in DOMAIN reqs /\ isDeletionDue(reqs[i], today)
         /\ TenantOf[reqs[i].account] \notin Stuck)
        ~> (\/ i \in DOMAIN reqs /\ ~Pending(reqs[i])
            \/ Cardinality(UNION {OpenAt(t) : t \in Stuck}) >= Limit)

(* Only what is wanted is erased, and what is said to be erased is.            *)
ErasureIsJust == []CompletedIsWhole /\ ErasureIsWanted
=============================================================================
