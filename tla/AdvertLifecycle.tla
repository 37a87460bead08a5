--------------------------- MODULE AdvertLifecycle ---------------------------
(***************************************************************************)
(* Live adverts: tenants publish, pause, renew, boost and archive them;    *)
(* the daily sweep (runLifecycle) takes scheduled ones live, warns before  *)
(* they expire and deletes them after; both keep the discovery index.      *)
(*                                                                         *)
(* Every operation reads an advert, and later writes the WHOLE record it   *)
(* read back; then come the media, the index and the notifications, each   *)
(* a database call of its own.  Time is a day counter (AdvertPeriod).      *)
(***************************************************************************)
EXTENDS AdvertPeriod, AdvertOverlaps, FiniteSets

CONSTANTS
    Adverts,
    Sweeps,          \* runLifecycle calls that may be in progress together
    Calls,           \* tenants' calls that may be in progress together
    Ops,             \* what the calls may be
    PublishOffsets,  \* how far from today a publication is dated
    RenewOffsets,    \* how far from today a renewal is dated
    SweepOffsets,    \* how far from today a tenant dates a sweep of its own
    MaxDay           \* bound on the day counter

ASSUME PolicyAssumption ==
    /\ LiveDays \in Nat \ {0}
    /\ AlertDays \subseteq 1..(LiveDays - 1)
ASSUME OffsetsAssumption ==
    PublishOffsets \subseteq Int /\ RenewOffsets \subseteq Int /\ SweepOffsets \subseteq Int
ASSUME OpsAssumption ==
    Ops \subseteq {"publish", "pause", "archive", "renew", "boost", "addMedia"}

VARIABLES
    advert,   \* the PublishedAdvert rows
    index,    \* the AdvertDiscoveryIndex rows
    media,    \* "live" while some media asset of the advert is not archived
    alerts,   \* the AdvertLifecycleNotification rows: one per advert and day
    today,
    swept,    \* has a sweep of today completed?
    sweep,    \* per sweep: where it is, and its locals
    call,     \* per tenant call: where it is, and its locals
    entered,  \* when an advert's period was entered: in time, on its last day, when it was over
    renewed,  \* the adverts renewed after an alert: in a second period
    missed    \* has a day gone by without a sweep?

vars == <<advert, index, media, alerts, today, swept, sweep, call,
          entered, renewed, missed, overlaps, crashes>>
past == <<entered, renewed, missed, overlaps, crashes>>

NoAdvert == [status |-> "NONE", published |-> 0, sent |-> {}]
NotIndexed == [status |-> "NONE", published |-> 0]
IdleSweep == [pc |-> "idle", now |-> 0, snap |-> [a \in Adverts |-> NoAdvert],
              todo |-> {}, advert |-> "none", row |-> NoAdvert, due |-> {}]
IdleCall == [pc |-> "idle", op |-> "none", advert |-> "none", row |-> NoAdvert]
-----------------------------------------------------------------------------
(* syncDiscoveryIndex: what the index holds for a row. *)
Entry(row) == IF row.status \in Gone \cup {"NONE"} THEN NotIndexed
              ELSE [status |-> row.status, published |-> row.published]

(* isDiscoveryEntryDiscoverable, and the check of rankPublicAdvert.        *)
Discoverable(a) ==
    /\ \/ index[a].status \in {"LIVE", "RENEWAL_DUE"}
       \/ index[a].status = "SCHEDULED" /\ ~IsScheduled(index[a].published, today)
    /\ ~ShouldAutoDelete(index[a].published, today)
    /\ advert[a].status \notin Gone
-----------------------------------------------------------------------------
Init ==
    /\ advert = [a \in Adverts |-> NoAdvert]
    /\ index = [a \in Adverts |-> NotIndexed]
    /\ media = [a \in Adverts |-> "live"]
    /\ alerts = {}
    /\ today = 0
    /\ swept = FALSE
    /\ sweep = [s \in Sweeps |-> IdleSweep]
    /\ call = [c \in Calls |-> IdleCall]
    /\ entered = [a \in Adverts |-> "in time"]
    /\ renewed = {} /\ missed = FALSE /\ overlaps = 0 /\ crashes = 0

Quiet == /\ \A s \in Sweeps : sweep[s].pc = "idle"
         /\ \A c \in Calls : call[c].pc = "idle"
Begin == /\ IF Quiet THEN UNCHANGED overlaps
            ELSE overlaps < MaxOverlaps /\ overlaps' = overlaps + 1
         /\ UNCHANGED <<entered, renewed, missed, crashes>>

Tick ==
    /\ today < MaxDay
    /\ missed' = (missed \/ ~swept)
    /\ today' = today + 1
    /\ swept' = FALSE
    /\ UNCHANGED <<advert, index, media, alerts, sweep, call, entered, renewed, overlaps, crashes>>
-----------------------------------------------------------------------------
(* The tenants' calls. *)

CallAt(c, pc) == call[c].pc = pc
SetCall(c, k) == call' = [call EXCEPT ![c] = k]

(* getMutableAdvert, and the refusals of pauseAdvert and boostAdvert.  A   *)
(* publication makes a row of its own.                                     *)
Read(c) ==
    /\ CallAt(c, "idle")
    /\ Begin
    /\ \E a \in Adverts, op \in Ops :
          /\ IF op = "publish"
             THEN /\ advert[a].status = "NONE"
                  /\ \A d \in Calls : call[d].advert # a
             ELSE advert[a].status \notin Gone \cup {"NONE"}
          /\ op \in {"pause", "boost"} => advert[a].status # "PAUSED"
          /\ SetCall(c, [pc |-> IF op = "addMedia" THEN "attach" ELSE "write",
                         op |-> op, advert |-> a, row |-> advert[a]])
    /\ UNCHANGED <<advert, index, media, alerts, today, swept, sweep>>

Attach(c) ==
    /\ CallAt(c, "attach")
    /\ media' = [media EXCEPT ![call[c].advert] = "live"]
    /\ SetCall(c, [call[c] EXCEPT !.pc = "write"])
    /\ UNCHANGED <<advert, index, alerts, today, swept, sweep, past>>

(* The records a call may write: what it read, with its own fields.        *)
Written(k) ==
    CASE k.op = "publish" ->
            {[status |-> FirstStatus(today + off, today), published |-> today + off,
              sent |-> {}] : off \in PublishOffsets}
      [] k.op = "pause" -> {[k.row EXCEPT !.status = "PAUSED"]}
      [] k.op = "archive" -> {[k.row EXCEPT !.status = "ARCHIVED"]}
      [] k.op = "renew" ->
            {[status |-> IF ShouldAutoDelete(today + off, today) THEN "AUTO_DELETED" ELSE "LIVE",
              published |-> today + off, sent |-> {}] : off \in RenewOffsets}
      [] OTHER -> {k.row}

Entered(published) ==
    CASE today >= published + LiveDays -> "over"
      [] today = published + LiveDays - 1 -> "last day"
      [] OTHER -> "in time"

Write(c) ==
    /\ CallAt(c, "write")
    /\ \E row \in Written(call[c]) :
          /\ advert' = [advert EXCEPT ![call[c].advert] = row]
          /\ SetCall(c, CASE call[c].op = "addMedia" -> IdleCall
                          [] call[c].op = "archive" -> [call[c] EXCEPT !.pc = "media", !.row = row]
                          [] OTHER -> [call[c] EXCEPT !.pc = "index", !.row = row])
          /\ IF call[c].op \in {"publish", "renew"}
             THEN entered' = [entered EXCEPT ![call[c].advert] = Entered(row.published)]
             ELSE UNCHANGED entered
          /\ renewed' = IF call[c].op = "renew" /\ (\E n \in alerts : n.advert = call[c].advert)
                        THEN renewed \cup {call[c].advert} ELSE renewed
    /\ UNCHANGED <<index, media, alerts, today, swept, sweep, missed, overlaps, crashes>>

(* Mutant: archiving forgets the media. *)
ArchiveMediaMutant(c) ==
    /\ CallAt(c, "media")
    /\ SetCall(c, [call[c] EXCEPT !.pc = "index"])
    /\ UNCHANGED <<advert, index, media, alerts, today, swept, sweep, past>>

ArchiveMedia(c) ==
    /\ CallAt(c, "media")
    /\ media' = [media EXCEPT ![call[c].advert] = "archived"]
    /\ SetCall(c, [call[c] EXCEPT !.pc = "index"])
    /\ UNCHANGED <<advert, index, alerts, today, swept, sweep, past>>

SyncIndex(c) ==
    /\ CallAt(c, "index")
    /\ index' = [index EXCEPT ![call[c].advert] = Entry(call[c].row)]
    /\ SetCall(c, IdleCall)
    /\ UNCHANGED <<advert, media, alerts, today, swept, sweep, past>>
-----------------------------------------------------------------------------
(* runLifecycle. *)

SweepAt(s, pc) == sweep[s].pc = pc
SetSweep(s, k) == sweep' = [sweep EXCEPT ![s] = k]

(* A run goes by the date it is given, whatever the day is. *)
ListAt(s, now) ==
    /\ SweepAt(s, "idle")
    /\ Begin
    /\ SetSweep(s, [IdleSweep EXCEPT !.pc = "next", !.now = now, !.snap = advert,
                       !.todo = {a \in Adverts : advert[a].status \notin Gone \cup {"NONE"}}])
    /\ UNCHANGED <<advert, index, media, alerts, today, swept, call>>

List(s) == ListAt(s, today)                                       \* the scheduler's runs
ListDated(s) == \E off \in SweepOffsets : ListAt(s, today + off)   \* tenants' own (input.now)

(* Mutant: a warned advert that was paused is shown again. *)
NewStatusMutant(row, now) ==
    IF IsScheduled(row.published, now) THEN "keep"
    ELSE IF row.status = "SCHEDULED" THEN "LIVE"
    ELSE IF ShouldAutoDelete(row.published, now) THEN "AUTO_DELETED"
    ELSE IF DaysDue(row.published, now) \ row.sent = {} THEN "keep"
    ELSE "RENEWAL_DUE"

(* Mutant: a paused advert is left alone. *)
NewStatusPausedMutant(row, now) ==
    IF IsScheduled(row.published, now) \/ row.status = "PAUSED" THEN "keep"
    ELSE IF row.status = "SCHEDULED" THEN "LIVE"
    ELSE IF ShouldAutoDelete(row.published, now) THEN "AUTO_DELETED"
    ELSE IF DaysDue(row.published, now) \ row.sent = {} THEN "keep"
    ELSE "RENEWAL_DUE"

(* What the sweep makes of a record: the first of its rules that applies   *)
(* gives the status to write, or that it writes nothing.                   *)
NewStatus(row, now) ==
    IF IsScheduled(row.published, now) THEN "keep"
    ELSE IF row.status = "SCHEDULED" THEN "LIVE"
    ELSE IF ShouldAutoDelete(row.published, now) THEN "AUTO_DELETED"
    ELSE IF DaysDue(row.published, now) \ row.sent = {} THEN "keep"
    ELSE IF row.status = "PAUSED" THEN "PAUSED"
    ELSE "RENEWAL_DUE"

Keep(s) ==
    /\ SweepAt(s, "next")
    /\ \E a \in sweep[s].todo :
          /\ NewStatus(sweep[s].snap[a], sweep[s].now) = "keep"
          /\ SetSweep(s, [sweep[s] EXCEPT !.todo = @ \ {a}])
    /\ UNCHANGED <<advert, index, media, alerts, today, swept, call, past>>

Update(s) ==
    /\ SweepAt(s, "next")
    /\ \E a \in sweep[s].todo :
          LET old == sweep[s].snap[a]
              status == NewStatus(old, sweep[s].now)
              due == IF old.status = "SCHEDULED" THEN {}
                     ELSE DaysDue(old.published, sweep[s].now) \ old.sent
              row == [old EXCEPT !.status = status, !.sent = @ \cup due]
          IN  /\ status # "keep"
              /\ advert' = [advert EXCEPT ![a] = row]
              /\ SetSweep(s, [sweep[s] EXCEPT
                    !.pc = IF status = "AUTO_DELETED" THEN "media" ELSE "index",
                    !.todo = @ \ {a}, !.advert = a, !.row = row, !.due = due])
    /\ UNCHANGED <<index, media, alerts, today, swept, call, past>>

SweepMedia(s) ==
    /\ SweepAt(s, "media")
    /\ media' = [media EXCEPT ![sweep[s].advert] = "archived"]
    /\ SetSweep(s, [sweep[s] EXCEPT !.pc = "index"])
    /\ UNCHANGED <<advert, index, alerts, today, swept, call, past>>

SweepIndex(s) ==
    /\ SweepAt(s, "index")
    /\ index' = [index EXCEPT ![sweep[s].advert] = Entry(sweep[s].row)]
    /\ SetSweep(s, [sweep[s] EXCEPT !.pc = IF sweep[s].due = {} THEN "next" ELSE "alert"])
    /\ UNCHANGED <<advert, media, alerts, today, swept, call, past>>

(* createNotification, whose table holds one row per advert and day: a     *)
(* second one throws, and the sweep with it.                               *)
Alert(s) ==
    /\ SweepAt(s, "alert")
    /\ \E d \in sweep[s].due :
          /\ \A e \in sweep[s].due : d <= e
          /\ IF \E n \in alerts : n.advert = sweep[s].advert /\ n.day = d
             THEN SetSweep(s, IdleSweep) /\ UNCHANGED alerts
             ELSE /\ alerts' = alerts \cup {[advert |-> sweep[s].advert, day |-> d]}
                  /\ SetSweep(s, [sweep[s] EXCEPT !.due = @ \ {d},
                         !.pc = IF sweep[s].due = {d} THEN "next" ELSE "alert"])
    /\ UNCHANGED <<advert, index, media, today, swept, call, past>>

Complete(s) ==
    /\ SweepAt(s, "next")
    /\ sweep[s].todo = {}
    /\ swept' = (swept \/ sweep[s].now = today)
    /\ SetSweep(s, IdleSweep)
    /\ UNCHANGED <<advert, index, media, alerts, today, call, past>>
-----------------------------------------------------------------------------
Crash ==
    /\ crashes < MaxCrashes
    /\ crashes' = crashes + 1
    /\ \/ \E s \in Sweeps : ~SweepAt(s, "idle") /\ SetSweep(s, IdleSweep) /\ UNCHANGED call
       \/ \E c \in Calls : ~CallAt(c, "idle") /\ SetCall(c, IdleCall) /\ UNCHANGED sweep
    /\ UNCHANGED <<advert, index, media, alerts, today, swept,
                   entered, renewed, missed, overlaps>>

CallStep(c) == Attach(c) \/ Write(c) \/ ArchiveMedia(c) \/ SyncIndex(c)
SweepStep(s) == \/ Keep(s) \/ Update(s) \/ SweepMedia(s)
                \/ SweepIndex(s) \/ Alert(s) \/ Complete(s)

Next == \/ Tick \/ Crash
        \/ \E c \in Calls : Read(c) \/ CallStep(c)
        \/ \E s \in Sweeps : List(s) \/ ListDated(s) \/ SweepStep(s)

(* Operations that were begun go on; the scheduler begins sweeps again and *)
(* again, and finds its turn among the tenants' calls.                     *)
Spec == Init /\ [][Next]_vars
FairSpec == /\ Spec
            /\ \A c \in Calls : WF_vars(CallStep(c))
            /\ \A s \in Sweeps : WF_vars(SweepStep(s)) /\ SF_vars(List(s))
-----------------------------------------------------------------------------
(* Properties.                                                             *)

Statuses == {"NONE", "SCHEDULED", "LIVE", "RENEWAL_DUE", "PAUSED"} \cup Gone

TypeOK ==
    \A a \in Adverts :
        /\ advert[a].status \in Statuses
        /\ advert[a].sent \subseteq AlertDays
        /\ index[a].status \in Statuses \ Gone
        /\ media[a] \in {"live", "archived"}

(* Operations came one at a time and all of them finished. *)
Undisturbed == overlaps = 0 /\ crashes = 0

Warned(a, d) == [advert |-> a, day |-> d] \in alerts
FirstPeriod(a) == a \notin renewed

(* A renewal alert that the record counts as sent was sent, in the first   *)
(* period of alerts.  A sweep that dies loses one, and so does a second    *)
(* period.                                                                 *)
AlertsSent ==
    Quiet /\ Undisturbed => \A a \in Adverts :
        FirstPeriod(a) => \A d \in advert[a].sent : Warned(a, d)

Deletes(a) == /\ advert[a].status # "NONE"
              /\ advert[a].status # "AUTO_DELETED" /\ advert'[a].status = "AUTO_DELETED"
Renews(a) == \E c \in Calls : call[c].op = "renew" /\ call[c].advert = a /\ Write(c)

(* A sweep that its tenant dated ahead of the day makes this step. *)
DatedAhead == \E s \in Sweeps : sweep'[s] # sweep[s] /\ sweep[s].now > today

(* With a sweep on every day, none of which dies or overlaps another       *)
(* operation, no advert is deleted before its tenant was warned on every   *)
(* alert day: in its first period of alerts, and unless the tenant dated   *)
(* the period so that its last day had come already, or the sweep itself   *)
(* ahead.  Sweeps dated ahead or back before do not break this.            *)
DeletedWarnedOnce ==
    [][Undisturbed /\ ~missed /\ ~DatedAhead => \A a \in Adverts :
          Deletes(a) /\ FirstPeriod(a) /\ entered'[a] = "in time" =>
              \A d \in AlertDays : Warned(a, d)]_vars

(* Between operations that came one at a time, the index holds what the    *)
(* record says; a paused advert is not found, nor a scheduled one before   *)
(* its day.  (An advert renewed for a later day is LIVE, and found, before.)*)
IndexAgrees ==
    Quiet /\ Undisturbed => \A a \in Adverts :
        /\ index[a] = Entry(advert[a])
        /\ Discoverable(a) =>
              /\ advert[a].status # "PAUSED"
              /\ advert[a].status = "SCHEDULED" => advert[a].published <= today

(* It has expired by the date that a sweep in progress was given. *)
Expired(a) == \E s \in Sweeps : /\ sweep[s].pc # "idle"
                                /\ sweep[s].now >= advert[a].published + LiveDays

(* The sweep undoes no tenant's decision, of operations that come one at a *)
(* time: it deletes only what has expired by the date it was given, so     *)
(* that a renewal saves an advert, and leaves a pause to a renewal to end. *)
SweepRespectsTenants ==
    [][overlaps' = 0 => \A a \in Adverts : ~Renews(a) =>
          /\ Deletes(a) => Expired(a)
          /\ advert[a].status = "PAUSED" => advert'[a].status \in {"PAUSED"} \cup Gone]_vars

(* The lifecycle warns before it deletes, and undoes no tenant's decision. *)
SweepIsJust == DeletedWarnedOnce /\ SweepRespectsTenants

(* Once nobody works on it, no file of a deleted or archived advert is     *)
(* left live, in whatever order deletions and uploads overlap; an advert   *)
(* published or renewed after its period was over keeps its files, though. *)
GoneMediaArchived ==
    Quiet /\ crashes = 0 => \A a \in Adverts :
        advert[a].status \in Gone /\ entered[a] # "over" => media[a] = "archived"

(* What the record says is so elsewhere: its alerts are sent, it is in the *)
(* index as it stands, and the files are gone with it.                     *)
RecordAgrees == AlertsSent /\ IndexAgrees /\ GoneMediaArchived

(* An advert that has expired is deleted in the end, unless it is archived *)
(* or renewed.                                                             *)
Expires ==
    \A a \in Adverts :
        (advert[a].status # "NONE" /\ today >= advert[a].published + LiveDays)
            ~> (advert[a].status \in Gone \/ today < advert[a].published + LiveDays)
=============================================================================
