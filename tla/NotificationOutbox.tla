-------------------------- MODULE NotificationOutbox --------------------------
(***************************************************************************)
(* Notifications: planAndQueue stores an outbox record with one status per *)
(* channel and dispatches it at once; the scheduled sweep (runAllDispatch) *)
(* and a tenant (dispatchOutbox) dispatch again what is queued or failed.  *)
(*                                                                         *)
(* A dispatch works on its own copy of the record, calls the provider of   *)
(* one channel after the other, and then stores the WHOLE copy, attempts   *)
(* included.  Operations go from await to await, overlap, and may die.     *)
(***************************************************************************)
EXTENDS Naturals, FiniteSets, FiniteSetsExt

CONSTANTS
    Records,      \* the outbox records, numbered in the order of createdAt
    Channels,     \* notificationChannels
    Keyed,        \* the channels whose provider is given the idempotency key
    Workers,      \* operations that may be in progress together
    Limit,        \* how many records a sweep takes
    MaxOverlaps,  \* bound on the operations that begin while another runs
    MaxFaults     \* bound on the operations that die and the answers lost

ASSUME RecordsAssumption == Records \subseteq Nat \ {0}
ASSUME ChannelsAssumption == "IN_APP" \in Channels /\ Keyed \subseteq Channels
ASSUME LimitAssumption == Limit \in Nat \ {0}

VARIABLES
    outbox,    \* the NotificationOutboxRecord rows
    worker,    \* per operation: where it is, and its locals
    delivered, \* providers: how often a record went out by a channel
    keys,      \* providers: the idempotency keys they have seen
    overlaps,  \* operations begun so far while another was in progress
    faults     \* operations that died and answers lost so far

vars == <<outbox, worker, delivered, keys, overlaps, faults>>
providers == <<delivered, keys>>

(* A row: the status of each channel, the channels with a destination, and *)
(* the outcomes among its attempts.  A channel that is no candidate has no *)
(* status in the program; here it counts as suppressed.                    *)
NoRow == [status |-> [c \in Channels |-> "NONE"], reachable |-> {},
          attempts |-> [c \in Channels |-> {}]]
Idle == [pc |-> "idle", record |-> 0, row |-> NoRow, left |-> {},
         todo |-> {}, copies |-> [r \in Records |-> NoRow]]

Planned(r) == outbox[r] # NoRow
At(w, pc) == worker[w].pc = pc
Set(w, k) == worker' = [worker EXCEPT ![w] = k]
Quiet == \A w \in Workers : At(w, "idle")

shouldRetryNotificationChannel(status) == status \in {"QUEUED", "FAILED"}

Retryable(row) ==
    \E c \in Channels : shouldRetryNotificationChannel(row.status[c])

(* Mutant: the key counts the attempts. *)
notificationDispatchIdempotencyKeyMutant(w, c) ==
    <<worker[w].record, c, worker[w].row.attempts[c]>>

notificationDispatchIdempotencyKey(w, c) == <<worker[w].record, c>>
-----------------------------------------------------------------------------
Init ==
    /\ outbox = [r \in Records |-> NoRow]
    /\ worker = [w \in Workers |-> Idle]
    /\ delivered = [r \in Records |-> [c \in Channels |-> 0]]
    /\ keys = {}
    /\ overlaps = 0 /\ faults = 0

Begin(w) ==
    /\ At(w, "idle")
    /\ IF Quiet THEN UNCHANGED overlaps
       ELSE overlaps < MaxOverlaps /\ overlaps' = overlaps + 1
    /\ UNCHANGED <<outbox, providers, faults>>

Dispatching(r, row, todo, copies) ==
    [pc |-> "dispatch", record |-> r, row |-> row, left |-> Channels,
     todo |-> todo, copies |-> copies]

(* planAndQueue takes its time stamp and awaits the preferences.           *)
Plan(w) ==
    /\ Begin(w)
    /\ \E r \in Records :
          /\ \A q \in Records : q < r <=> Planned(q) \/ \E v \in Workers : worker[v].record = q
          /\ Set(w, [Idle EXCEPT !.pc = "save", !.record = r])

(* buildNotificationDeliveryPlan for the channels asked for and those the  *)
(* preferences allow: in-app delivery is selected whatever they say.       *)
Save(w) ==
    /\ At(w, "save")
    /\ \E allowed, destinations \in SUBSET Channels :
          LET selected == allowed \cup {"IN_APP"}
              row == [NoRow EXCEPT !.reachable = destinations \cup {"IN_APP"},
                         !.status = [c \in Channels |->
                            IF c \in selected THEN "QUEUED" ELSE "SUPPRESSED"]]
          IN  /\ outbox' = [outbox EXCEPT ![worker[w].record] = row]
              /\ Set(w, Dispatching(worker[w].record, row, {}, Idle.copies))
    /\ UNCHANGED <<providers, overlaps, faults>>

(* dispatchOutbox *)
Find(w) ==
    /\ Begin(w)
    /\ \E r \in Records : Planned(r) /\ Set(w, Dispatching(r, outbox[r], {}, Idle.copies))

(* Mutant: the sweep asks for what is queued only. *)
ListedMutant ==
    LET open == {r \in Records : \E c \in Channels : outbox[r].status[c] = "QUEUED"}
    IN  {r \in open : Cardinality({q \in open : q < r}) < Limit}

(* listRetryableOutbox: the oldest Limit of the retryable records.         *)
Listed == LET open == {r \in Records : Retryable(outbox[r])}
          IN  {r \in open : Cardinality({q \in open : q < r}) < Limit}

(* The first record of todo, or the end of the operation. *)
Continue(w, todo, copies) ==
    LET r == Min(todo) IN
    IF todo = {} THEN Set(w, Idle)
    ELSE Set(w, Dispatching(r, copies[r], todo \ {r}, [copies EXCEPT ![r] = NoRow]))

(* runAllDispatch *)
List(w) ==
    /\ Begin(w)
    /\ Listed # {}
    /\ Continue(w, Listed, [r \in Records |-> IF r \in Listed THEN outbox[r] ELSE NoRow])

Due(w) == {c \in worker[w].left : shouldRetryNotificationChannel(worker[w].row.status[c])}

Marked(row, c, status) ==
    [row EXCEPT !.status[c] = status, !.attempts[c] = @ \cup {status}]

Note(w, c, status) ==
    Set(w, [worker[w] EXCEPT !.left = @ \ {c}, !.row = Marked(@, c, status)])

(* A channel without a destination fails at once. *)
Skip(w) ==
    /\ At(w, "dispatch")
    /\ \E c \in Due(w) \ worker[w].row.reachable : Note(w, c, "FAILED")
    /\ UNCHANGED <<outbox, providers, overlaps, faults>>

(* The provider fails to send, or there is no adapter for the channel. *)
Refused(w) ==
    /\ At(w, "dispatch")
    /\ \E c \in Due(w) \cap worker[w].row.reachable : Note(w, c, "FAILED")
    /\ UNCHANGED <<outbox, providers, overlaps, faults>>

(* The provider sends what it has not seen the key of; its answer arrives, *)
(* or is lost, which counts as a failure.                                  *)
Sent(w) ==
    /\ At(w, "dispatch")
    /\ \E c \in Due(w) \cap worker[w].row.reachable :
          LET key == notificationDispatchIdempotencyKey(w, c) IN
          /\ IF c \in Keyed /\ key \in keys THEN UNCHANGED providers
             ELSE /\ delivered' = [delivered EXCEPT ![worker[w].record][c] = @ + 1]
                  /\ keys' = IF c \in Keyed THEN keys \cup {key} ELSE keys
          /\ \/ Note(w, c, "SENT") /\ UNCHANGED faults
             \/ Note(w, c, "FAILED") /\ faults < MaxFaults /\ faults' = faults + 1
    /\ UNCHANGED <<outbox, overlaps>>

(* Mutant: the stored record gets the statuses but not the attempts. *)
UpdateMutant(w) ==
    /\ At(w, "dispatch")
    /\ Due(w) = {}
    /\ outbox' = [outbox EXCEPT ![worker[w].record].status = worker[w].row.status]
    /\ Continue(w, worker[w].todo, worker[w].copies)
    /\ UNCHANGED <<providers, overlaps, faults>>

(* updateOutbox, and on to the next record of a sweep. *)
Update(w) ==
    /\ At(w, "dispatch")
    /\ Due(w) = {}
    /\ outbox' = [outbox EXCEPT ![worker[w].record] = worker[w].row]
    /\ Continue(w, worker[w].todo, worker[w].copies)
    /\ UNCHANGED <<providers, overlaps, faults>>

(* The process dies, or a database call throws and ends the operation.     *)
Crash(w) ==
    /\ ~At(w, "idle")
    /\ faults < MaxFaults /\ faults' = faults + 1
    /\ Set(w, Idle)
    /\ UNCHANGED <<outbox, providers, overlaps>>

Step(w) == Save(w) \/ Skip(w) \/ Refused(w) \/ Sent(w) \/ Update(w)

Next == \E w \in Workers : Plan(w) \/ Find(w) \/ List(w) \/ Step(w) \/ Crash(w)

Spec == Init /\ [][Next]_vars

(* An operation that has begun goes on, and the scheduler begins sweeps    *)
(* again and again.                                                        *)
FairSpec == Spec /\ \A w \in Workers : WF_vars(Step(w)) /\ SF_vars(List(w))
-----------------------------------------------------------------------------
(* Properties.                                                             *)

Statuses == {"NONE", "QUEUED", "SUPPRESSED", "SENT", "FAILED"}
Rows == [status : [Channels -> Statuses], reachable : SUBSET Channels,
         attempts : [Channels -> SUBSET {"SENT", "FAILED"}]]

(* The rows and the copies the operations hold have their types.           *)
TypeOK ==
    /\ outbox \in [Records -> Rows]
    /\ worker \in [Workers -> [pc : {"idle", "save", "dispatch"},
                               record : Records \cup {0}, row : Rows,
                               left : SUBSET Channels, todo : SUBSET Records,
                               copies : [Records -> Rows]]]
    /\ \A r \in Records : delivered[r] \in [Channels -> Nat]

(* However operations overlap, die and repeat each other, a record goes    *)
(* out at most once by a channel whose provider is given the idempotency   *)
(* key (dispatchRecord, ResendEmailAdapter).                               *)
KeyedOnce == \A r \in Records, c \in Keyed : delivered[r][c] <= 1

(* Between operations that came one at a time the record accounts for what *)
(* went out: SENT stands for an attempt that says so and a real delivery,  *)
(* also when operations died; if none did, everything that went out is on  *)
(* record and went out once, and nothing by a suppressed channel.          *)
DeliveriesOnRecord ==
    Quiet /\ overlaps = 0 => \A r \in Records, c \in Channels :
        LET sent == outbox[r].status[c] = "SENT" IN
        /\ sent <=> "SENT" \in outbox[r].attempts[c]
        /\ sent => delivered[r][c] > 0
        /\ faults = 0 => delivered[r][c] = IF sent THEN 1 ELSE 0

(* A record with a channel that is queued or failed is dispatched again in *)
(* the end (the outbox is durable, the sweep retries), as long as no more  *)
(* records are open than a sweep takes.                                    *)
Retried ==
    \A r \in Records :
        Retryable(outbox[r]) ~> \/ \E w \in Workers : At(w, "dispatch") /\ worker[w].record = r
                                \/ ~Retryable(outbox[r])
=============================================================================
