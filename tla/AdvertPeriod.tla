----------------------------- MODULE AdvertPeriod -----------------------------
(* The period an advert is live for (calculateAdvertLifecycle), in days: a     *)
(* record's expiry is always its publication plus LiveDays.                    *)
EXTENDS Integers

CONSTANTS
    LiveDays,        \* advertLifecyclePolicy.liveDays
    AlertDays        \* advertLifecyclePolicy.renewalAlertDays

IsScheduled(published, now) == now < published

ShouldAutoDelete(published, now) == now >= published + LiveDays

(* Mutant: the last day before expiry is taken for the expiry. *)
DaysDueMutant(published, now) ==
    IF IsScheduled(published, now) \/ now >= published + LiveDays - 1 THEN {}
    ELSE {d \in AlertDays : now - published >= d}

DaysDue(published, now) ==
    IF IsScheduled(published, now) \/ ShouldAutoDelete(published, now) THEN {}
    ELSE {d \in AlertDays : now - published >= d}

(* The status an advert is published with. *)
FirstStatus(published, now) ==
    CASE IsScheduled(published, now) -> "SCHEDULED"
      [] DaysDue(published, now) # {} -> "RENEWAL_DUE"
      [] ShouldAutoDelete(published, now) -> "AUTO_DELETED"
      [] OTHER -> "LIVE"

daysLive(published, now) == IF IsScheduled(published, now) THEN 0 ELSE now - published

daysRemaining(published, now) ==
    IF daysLive(published, now) > LiveDays THEN 0 ELSE LiveDays - daysLive(published, now)

Gone == {"AUTO_DELETED", "ARCHIVED"}
=============================================================================
