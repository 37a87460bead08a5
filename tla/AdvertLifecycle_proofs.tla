------------------------ MODULE AdvertLifecycle_proofs ------------------------
(***************************************************************************)
(* Theorems about live adverts, for any adverts, sweeps, calls, lengths of *)
(* the period, alert days and dates: what a record says is so in the       *)
(* alerts, the index and the files; and the sweep deletes what has expired *)
(* and was warned of, and ends no tenant's pause.  Then about drafts, for  *)
(* any drafts, requests, texts and limit of files: a draft becomes one     *)
(* advert, with its text and its files, but for requests that overlap.     *)
(***************************************************************************)
EXTENDS AdvertLifecycle, AdvertDrafts, FiniteSetTheorems, WellFoundedInduction,
        NaturalsInduction, TLAPS

-----------------------------------------------------------------------------
(* Types, and what a process at its place has read.                        *)

Rows == {r \in [status : Statuses, published : Int, sent : SUBSET AlertDays] :
            r.status = "NONE" => r.sent = {}}

CallRecords == [pc : {"idle", "attach", "write", "media", "index"}, op : Ops \cup {"none"},
                advert : Adverts \cup {"none"}, row : Rows]
SweepRecords == [pc : {"idle", "next", "media", "index", "alert"}, now : Int,
                 snap : [Adverts -> Rows], todo : SUBSET Adverts,
                 advert : Adverts \cup {"none"}, row : Rows, due : SUBSET AlertDays]

(* A call works on an advert that is not gone; it has read no row only if  *)
(* it publishes.                                                           *)
CallSound(k) ==
    /\ k.pc # "idle" => k.advert \in Adverts
    /\ k.pc \in {"attach", "write"} =>
          /\ k.op \in Ops
          /\ k.row.status \notin Gone
          /\ k.row.status = "NONE" <=> k.op = "publish"
    /\ k.pc = "attach" => k.op = "addMedia"
    /\ k.pc = "media" => k.row.status = "ARCHIVED"

(* A sweep goes through adverts that were not gone when it began.          *)
SweepSound(k) ==
    /\ \A a \in k.todo : k.snap[a].status \notin Gone \cup {"NONE"}
    /\ k.pc \notin {"idle", "next"} => k.advert \in Adverts

Typed ==
    /\ advert \in [Adverts -> Rows]
    /\ call \in [Calls -> CallRecords]
    /\ sweep \in [Sweeps -> SweepRecords]
    /\ today \in Int /\ swept \in BOOLEAN /\ missed \in BOOLEAN
    /\ overlaps \in Nat /\ crashes \in Nat
    /\ alerts \subseteq [advert : Adverts, day : AlertDays]
    /\ DOMAIN media = Adverts /\ DOMAIN index = Adverts /\ DOMAIN entered = Adverts

Sound == /\ \A c \in Calls : CallSound(call[c])
         /\ \A s \in Sweeps : SweepSound(sweep[s])

(* In whatever order operations overlap: the files of an advert that is    *)
(* gone are archived, or somebody is about to archive them or to write the *)
(* advert back.                                                            *)
Archiving(a) ==
    \/ \E c \in Calls : call[c].advert = a /\ call[c].pc = "media"
    \/ \E c \in Calls : /\ call[c].advert = a /\ call[c].pc = "write"
                        /\ call[c].op = "addMedia"
    \/ \E s \in Sweeps : sweep[s].advert = a /\ sweep[s].pc = "media"
FilesFollow ==
    crashes = 0 => \A a \in Adverts :
        advert[a].status \in Gone /\ entered[a] # "over" =>
            media[a] = "archived" \/ Archiving(a)

(* Operations that came one at a time: at most one is in progress, and     *)
(* what it read or wrote is the record as it stands.                       *)
Single ==
    /\ \A c, d \in Calls : call[c].pc # "idle" /\ call[d].pc # "idle" => c = d
    /\ \A s, t \in Sweeps : sweep[s].pc # "idle" /\ sweep[t].pc # "idle" => s = t
    /\ \A c \in Calls, s \in Sweeps : call[c].pc = "idle" \/ sweep[s].pc = "idle"
UpToDate ==
    /\ \A c \in Calls : call[c].pc # "idle" => call[c].row = advert[call[c].advert]
    /\ \A s \in Sweeps :
          /\ sweep[s].pc # "idle" => \A a \in sweep[s].todo : sweep[s].snap[a] = advert[a]
          /\ sweep[s].pc \notin {"idle", "next"} => sweep[s].row = advert[sweep[s].advert]
Alone == overlaps = 0 => Single /\ UpToDate

(* ... and none died: the index is as the record says, unless the one who  *)
(* changed the record is about to change the index.                        *)
Indexing(a) ==
    \/ \E c \in Calls : call[c].advert = a /\ call[c].pc \in {"media", "index"}
    \/ \E s \in Sweeps : sweep[s].advert = a /\ sweep[s].pc \in {"media", "index"}
Indexed == Undisturbed => \A a \in Adverts : index[a] = Entry(advert[a]) \/ Indexing(a)

(* ... the alerts of a first period are those that its record counts, but  *)
(* for those that a sweep is about to send.                                *)
Sending(s, a) == sweep[s].pc \in {"media", "index", "alert"} /\ sweep[s].advert = a
AlertsOf(a) ==
    /\ \A n \in alerts : n.advert = a => n.day \in advert[a].sent
    /\ \A d \in advert[a].sent :
          Warned(a, d) \/ \E s \in Sweeps : Sending(s, a) /\ d \in sweep[s].due
    /\ \A s \in Sweeps : Sending(s, a) =>
          /\ sweep[s].due \subseteq advert[a].sent
          /\ \A n \in alerts : n.advert = a => n.day \notin sweep[s].due
Alerted == Undisturbed => \A a \in Adverts : FirstPeriod(a) => AlertsOf(a)

(* ... and no day went by without a sweep: an advert entered in time has   *)
(* all its alerts counted when its last day is over, or has been swept; a  *)
(* scheduled one goes live on its day.  It was swept as of a day if today's *)
(* sweep is over and that is the day, or if a sweep that was given that    *)
(* date has gone past it and can still be that day's: one dated further    *)
(* ahead will not be over on its date unless a day is missed.              *)
SweptAsOf(a, day) ==
    \/ swept /\ day = today
    \/ /\ day <= today \/ (swept /\ day = today + 1)
       /\ \E s \in Sweeps : /\ sweep[s].pc # "idle" /\ sweep[s].now = day
                             /\ a \notin sweep[s].todo
Scheduled(a) ==
    advert[a].status = "SCHEDULED" =>
        /\ today <= advert[a].published
        /\ \A day \in Int : SweptAsOf(a, day) => day < advert[a].published
Counted(a) ==
    entered[a] = "in time" /\ advert[a].status \notin Gone \cup {"NONE"} =>
        /\ today >= advert[a].published + LiveDays => AlertDays \subseteq advert[a].sent
        /\ SweptAsOf(a, advert[a].published + LiveDays - 1) => AlertDays \subseteq advert[a].sent
Daily == Undisturbed /\ ~missed => \A a \in Adverts : Scheduled(a) /\ Counted(a)

IInv == Typed /\ Sound /\ FilesFollow /\ Alone /\ Indexed /\ Alerted /\ Daily
-----------------------------------------------------------------------------
(* What is written.                                                        *)

LEMMA RowFacts ==
    ASSUME NEW r \in Rows
    PROVE  /\ r.status \in Statuses /\ r.published \in Int /\ r.sent \subseteq AlertDays
           /\ r.status = "NONE" => r.sent = {}
BY DEF Rows

LEMMA RowMade ==
    ASSUME NEW status \in Statuses \ {"NONE"}, NEW published \in Int, NEW sent \in SUBSET AlertDays
    PROVE  /\ [status |-> status, published |-> published, sent |-> sent] \in Rows
           /\ [status |-> status, published |-> published, sent |-> sent].status = status
           /\ [status |-> status, published |-> published, sent |-> sent].published = published
           /\ [status |-> status, published |-> published, sent |-> sent].sent = sent
BY DEF Rows

LEMMA StatusChanged ==
    ASSUME NEW r \in Rows, NEW status \in Statuses \ {"NONE"}
    PROVE  /\ [r EXCEPT !.status = status] \in Rows
           /\ [r EXCEPT !.status = status].status = status
           /\ [r EXCEPT !.status = status].published = r.published
           /\ [r EXCEPT !.status = status].sent = r.sent
BY DEF Rows

LEMMA EnteredFacts ==
    ASSUME today \in Int, NEW published \in Int
    PROVE  /\ Entered(published) = "over" <=> today >= published + LiveDays
           /\ Entered(published) = "in time" => today < published + LiveDays - 1
BY PolicyAssumption DEF Entered

(* What a call writes, by its operation.                                   *)
WrittenAs(k, row) ==
    /\ row \in Rows /\ row.status # "NONE"
    /\ row.status = "SCHEDULED" => k.op = "publish" \/ row = k.row
    /\ k.op = "publish" =>
          /\ row.sent = {}
          /\ row.status = "SCHEDULED" => today < row.published
    /\ k.op = "renew" => row.sent = {} /\ row.status \in {"LIVE", "AUTO_DELETED"}
    /\ k.op \in {"publish", "renew"} =>
          /\ row.status # "ARCHIVED"
          /\ row.status = "AUTO_DELETED" => today >= row.published + LiveDays
    /\ k.op \notin {"publish", "renew"} =>
          /\ row.published = k.row.published /\ row.sent = k.row.sent
          /\ row.status # "AUTO_DELETED"
    /\ k.op = "pause" => row.status = "PAUSED"
    /\ k.op = "archive" => row.status = "ARCHIVED"
    /\ k.op \in {"boost", "addMedia"} => row = k.row

LEMMA FirstStatusFacts ==
    ASSUME today \in Int, NEW published \in Int
    PROVE  LET first == FirstStatus(published, today) IN
           /\ first \in Statuses \ {"NONE", "ARCHIVED"}
           /\ first = "SCHEDULED" => today < published
           /\ first = "AUTO_DELETED" => today >= published + LiveDays
BY DEF FirstStatus, IsScheduled, ShouldAutoDelete, Statuses, Gone

LEMMA WrittenFacts ==
    ASSUME Typed, NEW k \in CallRecords, k.op \in Ops,
           k.row.status \notin Gone, k.row.status = "NONE" <=> k.op = "publish",
           NEW row \in Written(k)
    PROVE  WrittenAs(k, row)
<1>0. /\ today \in Int /\ k.row \in Rows /\ LiveDays \in Nat
      /\ k.op \in {"publish", "pause", "archive", "renew", "boost", "addMedia"}
  BY OpsAssumption, PolicyAssumption DEF Typed, CallRecords
<1>1. CASE k.op = "publish"
  <2>1. PICK off \in PublishOffsets :
          row = [status |-> FirstStatus(today + off, today), published |-> today + off, sent |-> {}]
    BY <1>1 DEF Written
  <2>2. today + off \in Int
    BY <1>0, OffsetsAssumption
  <2>3. PICK p \in Int : p = today + off
    BY <2>2
  <2>4. PICK first : first = FirstStatus(p, today)
    OBVIOUS
  <2>5. /\ first \in Statuses \ {"NONE", "ARCHIVED"}
        /\ first = "SCHEDULED" => today < p
        /\ first = "AUTO_DELETED" => today >= p + LiveDays
    BY <1>0, <2>4, FirstStatusFacts
  <2>6. row = [status |-> first, published |-> p, sent |-> {}]
    BY <2>1, <2>3, <2>4
  <2>7. row \in Rows /\ row.status = first /\ row.published = p /\ row.sent = {}
    BY <2>5, <2>6, RowMade
  <2> QED
    BY <1>1, <2>5, <2>7 DEF WrittenAs
<1>2. CASE k.op = "renew"
  <2>1. PICK off \in RenewOffsets :
          row = [status |-> IF ShouldAutoDelete(today + off, today) THEN "AUTO_DELETED" ELSE "LIVE",
                 published |-> today + off, sent |-> {}]
    BY <1>2 DEF Written
  <2>2. today + off \in Int
    BY <1>0, OffsetsAssumption
  <2>3. PICK p \in Int : p = today + off
    BY <2>2
  <2>4. PICK first : first = IF ShouldAutoDelete(p, today) THEN "AUTO_DELETED" ELSE "LIVE"
    OBVIOUS
  <2>5. /\ first \in Statuses \ {"NONE"} /\ first \in {"LIVE", "AUTO_DELETED"}
        /\ first = "AUTO_DELETED" => today >= p + LiveDays
    BY <1>0, <2>4 DEF Statuses, Gone, ShouldAutoDelete
  <2>6. row = [status |-> first, published |-> p, sent |-> {}]
    BY <2>1, <2>3, <2>4
  <2>7. row \in Rows /\ row.status = first /\ row.published = p /\ row.sent = {}
    BY <2>5, <2>6, RowMade
  <2> QED
    BY <1>2, <2>5, <2>7 DEF WrittenAs
<1>3. CASE k.op = "pause"
  <2>1. row = [k.row EXCEPT !.status = "PAUSED"]
    BY <1>3 DEF Written
  <2>2. /\ row \in Rows /\ row.status = "PAUSED"
        /\ row.published = k.row.published /\ row.sent = k.row.sent
    BY <1>0, <2>1, StatusChanged DEF Statuses
  <2> QED
    BY <1>3, <2>2 DEF WrittenAs
<1>4. CASE k.op = "archive"
  <2>1. row = [k.row EXCEPT !.status = "ARCHIVED"]
    BY <1>4 DEF Written
  <2>2. /\ row \in Rows /\ row.status = "ARCHIVED"
        /\ row.published = k.row.published /\ row.sent = k.row.sent
    BY <1>0, <2>1, StatusChanged DEF Statuses, Gone
  <2> QED
    BY <1>4, <2>2 DEF WrittenAs
<1>5. CASE k.op \in {"boost", "addMedia"}
  <2>1. row = k.row
    BY <1>5 DEF Written
  <2> QED
    BY <1>0, <1>5, <2>1 DEF WrittenAs, Gone
<1> QED
  BY <1>0, <1>1, <1>2, <1>3, <1>4, <1>5

(* What the sweep makes of a record it has listed.                         *)
Due(old, now) ==
    IF old.status = "SCHEDULED" THEN {} ELSE DaysDue(old.published, now) \ old.sent
Swept(old, now) ==
    [old EXCEPT !.status = NewStatus(old, now), !.sent = @ \cup Due(old, now)]

SweptAs(old, now, row) ==
    /\ row \in Rows
    /\ row.published = old.published /\ row.sent = old.sent \cup Due(old, now)
    /\ row.status = NewStatus(old, now)
    /\ row.status \in {"LIVE", "AUTO_DELETED", "PAUSED", "RENEWAL_DUE"}
    /\ row.status = "AUTO_DELETED" => now >= old.published + LiveDays
    /\ old.status = "PAUSED" => row.status \in {"PAUSED", "AUTO_DELETED"}
    /\ Due(old, now) \subseteq AlertDays

LEMMA SweptFacts ==
    ASSUME NEW old \in Rows, NEW now \in Int, NewStatus(old, now) # "keep"
    PROVE  SweptAs(old, now, Swept(old, now))
<1>0. /\ LiveDays \in Nat /\ old.published \in Int /\ old.sent \subseteq AlertDays
  BY PolicyAssumption, RowFacts
<1>1. PICK status : status = NewStatus(old, now)
  OBVIOUS
<1>2. /\ status \in {"LIVE", "AUTO_DELETED", "PAUSED", "RENEWAL_DUE"}
      /\ status = "AUTO_DELETED" => now >= old.published + LiveDays
      /\ old.status = "PAUSED" => status \in {"PAUSED", "AUTO_DELETED"}
  BY <1>0, <1>1 DEF NewStatus, ShouldAutoDelete
<1>3. Due(old, now) \subseteq AlertDays
  BY DEF Due, DaysDue
<1>4. PICK sent : sent = old.sent \cup Due(old, now)
  OBVIOUS
<1>5. sent \in SUBSET AlertDays /\ status \in Statuses \ {"NONE"}
  BY <1>0, <1>2, <1>3, <1>4 DEF Statuses, Gone
<1>6. Swept(old, now) = [old EXCEPT !.status = status, !.sent = sent]
  BY <1>1, <1>4 DEF Swept
<1>7. PICK row : row = Swept(old, now)
  OBVIOUS
<1>8. row \in Rows /\ row.status = status /\ row.published = old.published /\ row.sent = sent
  <2>1. row = [old EXCEPT !.status = status, !.sent = sent]
    BY <1>6, <1>7
  <2> QED
    BY <1>5, <2>1 DEF Rows
<1>9. SweptAs(old, now, row)
  BY <1>1, <1>2, <1>3, <1>4, <1>8 DEF SweptAs
<1> QED
  BY <1>7, <1>9

(* Before the period is over, all days are due on its last day.            *)
LEMMA AllDue ==
    ASSUME NEW old \in Rows, NEW now \in Int, now = old.published + LiveDays - 1
    PROVE  DaysDue(old.published, now) = AlertDays
<1>1. /\ LiveDays \in Nat \ {0} /\ AlertDays \subseteq 1..(LiveDays - 1) /\ old.published \in Int
  BY PolicyAssumption, RowFacts
<1>2. \A d \in AlertDays : d \in Int /\ now - old.published >= d
  BY <1>1
<1>3. ~IsScheduled(old.published, now) /\ ~ShouldAutoDelete(old.published, now)
  BY <1>1 DEF IsScheduled, ShouldAutoDelete
<1> QED
  BY <1>2, <1>3 DEF DaysDue
-----------------------------------------------------------------------------
(* Where a process goes.                                                   *)

LEMMA Resting ==
    /\ NoAdvert \in Rows /\ NoAdvert.status = "NONE" /\ NoAdvert.sent = {}
    /\ IdleCall \in CallRecords /\ IdleCall.pc = "idle"
    /\ IdleSweep \in SweepRecords /\ IdleSweep.pc = "idle" /\ IdleSweep.now = 0
    /\ IdleSweep.todo = {} /\ IdleSweep.due = {}
<1>1. NoAdvert \in Rows /\ NoAdvert.status = "NONE" /\ NoAdvert.sent = {}
  BY DEF NoAdvert, Rows, Statuses
<1>2. PICK row : row = NoAdvert
  OBVIOUS
<1>3. IdleCall = [pc |-> "idle", op |-> "none", advert |-> "none", row |-> row]
  BY <1>2 DEF IdleCall
<1>4. PICK snap : snap = [a \in Adverts |-> row]
  OBVIOUS
<1>5. snap \in [Adverts -> Rows]
  BY <1>1, <1>2, <1>4
<1>6. IdleSweep = [pc |-> "idle", now |-> 0, snap |-> snap, todo |-> {}, advert |-> "none",
                   row |-> row, due |-> {}]
  BY <1>2, <1>4 DEF IdleSweep
<1> QED
  BY <1>1, <1>2, <1>3, <1>5, <1>6 DEF CallRecords, SweepRecords

LEMMA CallMoved ==
    ASSUME NEW k \in CallRecords, NEW pc \in {"idle", "attach", "write", "media", "index"}
    PROVE  LET new == [k EXCEPT !.pc = pc] IN
           /\ new \in CallRecords /\ new.pc = pc
           /\ new.op = k.op /\ new.advert = k.advert /\ new.row = k.row
BY DEF CallRecords

(* Where a call goes when it has written a row.                            *)
After(k, row) ==
    CASE k.op = "addMedia" -> IdleCall
      [] k.op = "archive" -> [k EXCEPT !.pc = "media", !.row = row]
      [] OTHER -> [k EXCEPT !.pc = "index", !.row = row]

AfterAs(k, row, new) ==
    /\ new \in CallRecords
    /\ new.pc = IF k.op = "addMedia" THEN "idle" ELSE IF k.op = "archive" THEN "media" ELSE "index"
    /\ new.pc # "idle" => new.op = k.op /\ new.advert = k.advert /\ new.row = row

LEMMA AfterFacts ==
    ASSUME NEW k \in CallRecords, NEW row \in Rows
    PROVE  AfterAs(k, row, After(k, row))
<1>1. CASE k.op = "addMedia"
  BY <1>1, Resting DEF After, AfterAs
<1>2. CASE k.op = "archive"
  <2>1. PICK new : new = [k EXCEPT !.pc = "media", !.row = row]
    OBVIOUS
  <2>2. After(k, row) = new
    BY <1>2, <2>1 DEF After
  <2>3. /\ new \in CallRecords /\ new.pc = "media"
        /\ new.op = k.op /\ new.advert = k.advert /\ new.row = row
    BY <2>1 DEF CallRecords
  <2>4. AfterAs(k, row, new)
    BY <1>2, <2>3 DEF AfterAs
  <2> QED
    BY <2>2, <2>4
<1>3. CASE k.op \notin {"addMedia", "archive"}
  <2>1. PICK new : new = [k EXCEPT !.pc = "index", !.row = row]
    OBVIOUS
  <2>2. After(k, row) = new
    BY <1>3, <2>1 DEF After
  <2>3. /\ new \in CallRecords /\ new.pc = "index"
        /\ new.op = k.op /\ new.advert = k.advert /\ new.row = row
    BY <2>1 DEF CallRecords
  <2>4. AfterAs(k, row, new)
    BY <1>3, <2>3 DEF AfterAs
  <2> QED
    BY <2>2, <2>4
<1> QED
  BY <1>1, <1>2, <1>3

LEMMA SweepMoved ==
    ASSUME NEW k \in SweepRecords, NEW pc \in {"idle", "next", "media", "index", "alert"}
    PROVE  LET new == [k EXCEPT !.pc = pc] IN
           /\ new \in SweepRecords /\ new.pc = pc
           /\ new.now = k.now /\ new.snap = k.snap /\ new.todo = k.todo
           /\ new.advert = k.advert /\ new.row = k.row /\ new.due = k.due
BY DEF SweepRecords

LEMMA SweepKept ==
    ASSUME NEW k \in SweepRecords, NEW a \in Adverts
    PROVE  LET new == [k EXCEPT !.todo = @ \ {a}] IN
           /\ new \in SweepRecords /\ new.todo = k.todo \ {a}
           /\ new.pc = k.pc /\ new.now = k.now /\ new.snap = k.snap
           /\ new.advert = k.advert /\ new.row = k.row /\ new.due = k.due
BY DEF SweepRecords
-----------------------------------------------------------------------------
(* What each step does.                                                    *)

Reads(c, k) ==
    /\ call[c].pc = "idle" /\ call' = [call EXCEPT ![c] = k]
    /\ k \in CallRecords /\ k.advert \in Adverts /\ k.op \in Ops /\ k.row = advert[k.advert]
    /\ k.pc = IF k.op = "addMedia" THEN "attach" ELSE "write"
    /\ CallSound(k)
    /\ Begin
    /\ UNCHANGED <<advert, index, media, alerts, today, swept, sweep>>

LEMMA ReadEffect ==
    ASSUME Typed, NEW c \in Calls, Read(c)
    PROVE  \E k : Reads(c, k)
<1>1. PICK a \in Adverts, op \in Ops :
        /\ IF op = "publish"
           THEN advert[a].status = "NONE" /\ \A d \in Calls : call[d].advert # a
           ELSE advert[a].status \notin Gone \cup {"NONE"}
        /\ SetCall(c, [pc |-> IF op = "addMedia" THEN "attach" ELSE "write",
                       op |-> op, advert |-> a, row |-> advert[a]])
  BY DEF Read
<1>2. PICK pc : pc = IF op = "addMedia" THEN "attach" ELSE "write"
  OBVIOUS
<1>3. PICK row : row = advert[a]
  OBVIOUS
<1>4. row \in Rows
  BY <1>3 DEF Typed
<1>5. PICK k : k = [pc |-> pc, op |-> op, advert |-> a, row |-> row]
  OBVIOUS
<1>6. k \in CallRecords /\ k.pc = pc /\ k.op = op /\ k.advert = a /\ k.row = row
  BY <1>2, <1>4, <1>5 DEF CallRecords
<1>7. CallSound(k)
  BY <1>1, <1>2, <1>3, <1>6 DEF CallSound, Gone
<1>8. call[c].pc = "idle" /\ Begin /\ call' = [call EXCEPT ![c] = k]
  BY <1>1, <1>2, <1>3, <1>5 DEF Read, SetCall, CallAt
<1>9. UNCHANGED <<advert, index, media, alerts, today, swept, sweep>>
  BY DEF Read
<1> QED
  BY <1>2, <1>3, <1>6, <1>7, <1>8, <1>9 DEF Reads

Writes(c, row, new) ==
    /\ call[c].pc = "write" /\ call[c].advert \in Adverts
    /\ WrittenAs(call[c], row) /\ AfterAs(call[c], row, new)
    /\ advert' = [advert EXCEPT ![call[c].advert] = row]
    /\ call' = [call EXCEPT ![c] = new]
    /\ IF call[c].op \in {"publish", "renew"}
       THEN entered' = [entered EXCEPT ![call[c].advert] = Entered(row.published)]
       ELSE UNCHANGED entered
    /\ renewed' = IF call[c].op = "renew" /\ (\E n \in alerts : n.advert = call[c].advert)
                  THEN renewed \cup {call[c].advert} ELSE renewed
    /\ UNCHANGED <<index, media, alerts, today, swept, sweep, missed, overlaps, crashes>>

LEMMA WriteEffect ==
    ASSUME Typed, Sound, NEW c \in Calls, Write(c)
    PROVE  \E row, new : Writes(c, row, new)
<1>1. PICK row \in Written(call[c]) :
          /\ advert' = [advert EXCEPT ![call[c].advert] = row]
          /\ SetCall(c, After(call[c], row))
          /\ IF call[c].op \in {"publish", "renew"}
             THEN entered' = [entered EXCEPT ![call[c].advert] = Entered(row.published)]
             ELSE UNCHANGED entered
          /\ renewed' = IF call[c].op = "renew" /\ (\E n \in alerts : n.advert = call[c].advert)
                        THEN renewed \cup {call[c].advert} ELSE renewed
  BY DEF Write, After
<1>2. PICK k : k = call[c]
  OBVIOUS
<1>3. /\ k \in CallRecords /\ k.pc = "write" /\ CallSound(k)
  BY <1>2 DEF Typed, Sound, Write, CallAt
<1>4. /\ k.op \in Ops /\ k.row.status \notin Gone /\ k.advert \in Adverts
      /\ k.row.status = "NONE" <=> k.op = "publish"
  BY <1>3 DEF CallSound
<1>5. WrittenAs(k, row)
  BY <1>1, <1>2, <1>3, <1>4, WrittenFacts
<1>6. AfterAs(k, row, After(k, row))
  BY <1>3, <1>5, AfterFacts DEF WrittenAs
<1>7. UNCHANGED <<index, media, alerts, today, swept, sweep, missed, overlaps, crashes>>
  BY DEF Write
<1>8. Writes(c, row, After(call[c], row))
  BY <1>1, <1>2, <1>3, <1>4, <1>5, <1>6, <1>7 DEF Writes, SetCall
<1> QED
  BY <1>8

Lists(s, new) ==
    /\ sweep[s].pc = "idle" /\ sweep' = [sweep EXCEPT ![s] = new] /\ new \in SweepRecords
    /\ new.pc = "next" /\ new.snap = advert
    /\ new.todo = {a \in Adverts : advert[a].status \notin Gone \cup {"NONE"}}
    /\ Begin
    /\ UNCHANGED <<advert, index, media, alerts, today, swept, call>>

LEMMA ListEffect ==
    ASSUME Typed, NEW s \in Sweeps, List(s) \/ ListDated(s)
    PROVE  \E new : Lists(s, new)
<1>0. PICK now \in Int : ListAt(s, now)
  BY OffsetsAssumption DEF List, ListDated, Typed
<1>1. PICK todo : todo = {a \in Adverts : advert[a].status \notin Gone \cup {"NONE"}}
  OBVIOUS
<1>k. PICK k : k = IdleSweep
  OBVIOUS
<1>2. PICK new : new = [k EXCEPT !.pc = "next", !.now = now, !.snap = advert, !.todo = todo]
  OBVIOUS
<1>3. todo \in SUBSET Adverts /\ now \in Int /\ advert \in [Adverts -> Rows]
  BY <1>1 DEF Typed
<1>4. /\ new \in SweepRecords /\ new.pc = "next"
      /\ new.snap = advert /\ new.todo = todo
  <2>1. k \in SweepRecords
    BY <1>k, Resting
  <2> QED
    BY <1>2, <1>3, <2>1 DEF SweepRecords
<1>5. sweep' = [sweep EXCEPT ![s] = new]
  BY <1>0, <1>1, <1>k, <1>2 DEF ListAt, SetSweep
<1>6. /\ sweep[s].pc = "idle" /\ Begin
      /\ UNCHANGED <<advert, index, media, alerts, today, swept, call>>
  BY <1>0 DEF ListAt, SweepAt
<1>7. Lists(s, new)
  BY <1>1, <1>4, <1>5, <1>6 DEF Lists
<1> QED
  BY <1>7

Keeps(s, a, new) ==
    /\ sweep[s].pc = "next" /\ a \in sweep[s].todo /\ a \in Adverts
    /\ NewStatus(sweep[s].snap[a], sweep[s].now) = "keep"
    /\ sweep' = [sweep EXCEPT ![s] = new] /\ new \in SweepRecords
    /\ new.pc = "next" /\ new.todo = sweep[s].todo \ {a}
    /\ new.now = sweep[s].now /\ new.snap = sweep[s].snap
    /\ UNCHANGED <<advert, index, media, alerts, today, swept, call, past>>

LEMMA KeepEffect ==
    ASSUME Typed, NEW s \in Sweeps, Keep(s)
    PROVE  \E a, new : Keeps(s, a, new)
<1>1. PICK a \in sweep[s].todo :
          /\ NewStatus(sweep[s].snap[a], sweep[s].now) = "keep"
          /\ SetSweep(s, [sweep[s] EXCEPT !.todo = @ \ {a}])
  BY DEF Keep
<1>2. PICK k : k = sweep[s]
  OBVIOUS
<1>3. k \in SweepRecords /\ a \in Adverts /\ k.pc = "next"
  BY <1>1, <1>2 DEF Typed, SweepRecords, Keep, SweepAt
<1>4. PICK new : new = [k EXCEPT !.todo = @ \ {a}]
  OBVIOUS
<1>5. /\ new \in SweepRecords /\ new.todo = k.todo \ {a}
      /\ new.pc = k.pc /\ new.now = k.now /\ new.snap = k.snap
  BY <1>3, <1>4, SweepKept
<1>6. sweep' = [sweep EXCEPT ![s] = new]
  BY <1>1, <1>2, <1>4 DEF SetSweep
<1>7. UNCHANGED <<advert, index, media, alerts, today, swept, call, past>>
  BY DEF Keep
<1>8. Keeps(s, a, new)
  BY <1>1, <1>2, <1>3, <1>5, <1>6, <1>7 DEF Keeps
<1> QED
  BY <1>8

Updates(s, a, row, new) ==
    /\ sweep[s].pc = "next" /\ a \in sweep[s].todo /\ a \in Adverts
    /\ SweptAs(sweep[s].snap[a], sweep[s].now, row)
    /\ advert' = [advert EXCEPT ![a] = row]
    /\ sweep' = [sweep EXCEPT ![s] = new] /\ new \in SweepRecords
    /\ new.pc = IF row.status = "AUTO_DELETED" THEN "media" ELSE "index"
    /\ new.todo = sweep[s].todo \ {a}
    /\ new.advert = a /\ new.row = row /\ new.due = Due(sweep[s].snap[a], sweep[s].now)
    /\ new.now = sweep[s].now /\ new.snap = sweep[s].snap
    /\ UNCHANGED <<index, media, alerts, today, swept, call, past>>

LEMMA UpdateEffect ==
    ASSUME Typed, NEW s \in Sweeps, Update(s)
    PROVE  \E a, row, new : Updates(s, a, row, new)
<1>1. PICK a \in sweep[s].todo :
          LET old == sweep[s].snap[a]
              status == NewStatus(old, sweep[s].now)
              due == Due(old, sweep[s].now)
              row == [old EXCEPT !.status = status, !.sent = @ \cup due]
          IN  /\ status # "keep"
              /\ advert' = [advert EXCEPT ![a] = row]
              /\ SetSweep(s, [sweep[s] EXCEPT
                    !.pc = IF status = "AUTO_DELETED" THEN "media" ELSE "index",
                    !.todo = @ \ {a}, !.advert = a, !.row = row, !.due = due])
  BY DEF Update, Due
<1>2. PICK k : k = sweep[s]
  OBVIOUS
<1>3. PICK old : old = k.snap[a]
  OBVIOUS
<1>4. k \in SweepRecords /\ a \in Adverts /\ k.pc = "next" /\ old \in Rows /\ k.now \in Int
  BY <1>1, <1>2, <1>3 DEF Typed, SweepRecords, Update, SweepAt
<1>5. PICK row : row = Swept(old, k.now)
  OBVIOUS
<1>6. PICK due : due = Due(old, k.now)
  OBVIOUS
<1>7. NewStatus(old, k.now) # "keep"
  BY <1>1, <1>2, <1>3
<1>8. SweptAs(old, k.now, row)
  BY <1>4, <1>5, <1>7, SweptFacts
<1>9. PICK pc : pc = IF NewStatus(old, k.now) = "AUTO_DELETED" THEN "media" ELSE "index"
  OBVIOUS
<1>10. PICK new : new = [k EXCEPT !.pc = pc, !.todo = @ \ {a}, !.advert = a, !.row = row, !.due = due]
  OBVIOUS
<1>11. row \in Rows /\ due \in SUBSET AlertDays /\ pc \in {"media", "index"}
  BY <1>6, <1>8, <1>9 DEF SweptAs
<1>12. /\ new \in SweepRecords /\ new.pc = pc /\ new.todo = k.todo \ {a}
       /\ new.advert = a /\ new.row = row /\ new.due = due
       /\ new.now = k.now /\ new.snap = k.snap
  BY <1>4, <1>10, <1>11 DEF SweepRecords
<1>13. row = [old EXCEPT !.status = NewStatus(old, k.now), !.sent = @ \cup due]
  BY <1>5, <1>6 DEF Swept
<1>14. advert' = [advert EXCEPT ![a] = row]
  BY <1>1, <1>2, <1>3, <1>6, <1>13
<1>15. sweep' = [sweep EXCEPT ![s] = new]
  BY <1>1, <1>2, <1>3, <1>6, <1>9, <1>10, <1>13 DEF SetSweep
<1>16. UNCHANGED <<index, media, alerts, today, swept, call, past>>
  BY DEF Update
<1>17. pc = IF row.status = "AUTO_DELETED" THEN "media" ELSE "index"
  BY <1>8, <1>9 DEF SweptAs
<1>18. Updates(s, a, row, new)
  BY <1>1, <1>2, <1>3, <1>4, <1>6, <1>8, <1>12, <1>14, <1>15, <1>16, <1>17 DEF Updates
<1> QED
  BY <1>18

Alerts(s, d, new) ==
    /\ sweep[s].pc = "alert" /\ d \in sweep[s].due /\ d \in AlertDays
    /\ sweep' = [sweep EXCEPT ![s] = new]
    /\ \/ /\ \E n \in alerts : n.advert = sweep[s].advert /\ n.day = d
          /\ new = IdleSweep /\ UNCHANGED alerts
       \/ /\ alerts' = alerts \cup {[advert |-> sweep[s].advert, day |-> d]}
          /\ new \in SweepRecords /\ new.due = sweep[s].due \ {d}
          /\ new.pc = IF sweep[s].due = {d} THEN "next" ELSE "alert"
          /\ new.now = sweep[s].now /\ new.snap = sweep[s].snap /\ new.todo = sweep[s].todo
          /\ new.advert = sweep[s].advert /\ new.row = sweep[s].row
    /\ UNCHANGED <<advert, index, media, today, swept, call, past>>

LEMMA AlertEffect ==
    ASSUME Typed, NEW s \in Sweeps, Alert(s)
    PROVE  \E d, new : Alerts(s, d, new)
<1>1. PICK d \in sweep[s].due :
          IF \E n \in alerts : n.advert = sweep[s].advert /\ n.day = d
             THEN SetSweep(s, IdleSweep) /\ UNCHANGED alerts
             ELSE /\ alerts' = alerts \cup {[advert |-> sweep[s].advert, day |-> d]}
                  /\ SetSweep(s, [sweep[s] EXCEPT !.due = @ \ {d},
                         !.pc = IF sweep[s].due = {d} THEN "next" ELSE "alert"])
  BY DEF Alert
<1>2. PICK k : k = sweep[s]
  OBVIOUS
<1>3. k \in SweepRecords /\ d \in AlertDays /\ k.pc = "alert"
  BY <1>1, <1>2 DEF Typed, SweepRecords, Alert, SweepAt
<1>4. UNCHANGED <<advert, index, media, today, swept, call, past>>
  BY DEF Alert
<1>5. CASE \E n \in alerts : n.advert = sweep[s].advert /\ n.day = d
  <2>1. Alerts(s, d, IdleSweep)
    BY <1>1, <1>2, <1>3, <1>4, <1>5 DEF Alerts, SetSweep
  <2> QED
    BY <2>1
<1>6. CASE ~\E n \in alerts : n.advert = sweep[s].advert /\ n.day = d
  <2>1. PICK pc : pc = IF k.due = {d} THEN "next" ELSE "alert"
    OBVIOUS
  <2>2. PICK new : new = [k EXCEPT !.due = @ \ {d}, !.pc = pc]
    OBVIOUS
  <2>3. /\ new \in SweepRecords /\ new.due = k.due \ {d} /\ new.pc = pc
        /\ new.now = k.now /\ new.snap = k.snap /\ new.todo = k.todo
        /\ new.advert = k.advert /\ new.row = k.row
    BY <1>3, <2>1, <2>2 DEF SweepRecords
  <2>4. sweep' = [sweep EXCEPT ![s] = new]
    BY <1>1, <1>2, <1>6, <2>1, <2>2 DEF SetSweep
  <2>5. Alerts(s, d, new)
    BY <1>1, <1>2, <1>3, <1>4, <1>6, <2>1, <2>3, <2>4 DEF Alerts
  <2> QED
    BY <2>5
<1> QED
  BY <1>5, <1>6

(* The steps that only move a process on, and those that leave it at rest. *)

Moves(c, from, to, new) ==
    /\ call[c].pc = from /\ call' = [call EXCEPT ![c] = new] /\ new \in CallRecords
    /\ new.pc = to
    /\ new.op = call[c].op /\ new.advert = call[c].advert /\ new.row = call[c].row

LEMMA MoveEffect ==
    ASSUME Typed, NEW c \in Calls,
           NEW to \in {"idle", "attach", "write", "media", "index"},
           SetCall(c, [call[c] EXCEPT !.pc = to])
    PROVE  \E new : Moves(c, call[c].pc, to, new)
<1>1. PICK k : k = call[c]
  OBVIOUS
<1>2. k \in CallRecords
  BY <1>1 DEF Typed
<1>3. PICK new : new = [k EXCEPT !.pc = to]
  OBVIOUS
<1>4. /\ new \in CallRecords /\ new.pc = to
      /\ new.op = k.op /\ new.advert = k.advert /\ new.row = k.row
  BY <1>2, <1>3, CallMoved
<1>5. Moves(c, call[c].pc, to, new)
  BY <1>1, <1>3, <1>4 DEF Moves, SetCall
<1> QED
  BY <1>5

Goes(s, to, new) ==
    /\ sweep' = [sweep EXCEPT ![s] = new] /\ new \in SweepRecords
    /\ new.pc = to /\ new.now = sweep[s].now /\ new.snap = sweep[s].snap
    /\ new.todo = sweep[s].todo /\ new.advert = sweep[s].advert
    /\ new.row = sweep[s].row /\ new.due = sweep[s].due

LEMMA GoEffect ==
    ASSUME Typed, NEW s \in Sweeps,
           NEW to \in {"idle", "next", "media", "index", "alert"},
           SetSweep(s, [sweep[s] EXCEPT !.pc = to])
    PROVE  \E new : Goes(s, to, new)
<1>1. PICK k : k = sweep[s]
  OBVIOUS
<1>2. k \in SweepRecords
  BY <1>1 DEF Typed
<1>3. PICK new : new = [k EXCEPT !.pc = to]
  OBVIOUS
<1>4. /\ new \in SweepRecords /\ new.pc = to
      /\ new.now = k.now /\ new.snap = k.snap /\ new.todo = k.todo
      /\ new.advert = k.advert /\ new.row = k.row /\ new.due = k.due
  BY <1>2, <1>3 DEF SweepRecords
<1>5. Goes(s, to, new)
  BY <1>1, <1>3, <1>4 DEF Goes, SetSweep
<1> QED
  BY <1>5
-----------------------------------------------------------------------------
(* Types and what processes have read.                                     *)

LEMMA InitTyped == Init => Typed /\ Sound
<1> SUFFICES ASSUME Init PROVE Typed /\ Sound
  OBVIOUS
<1>1. PICK row : row = NoAdvert
  OBVIOUS
<1>2. PICK k : k = IdleCall
  OBVIOUS
<1>3. PICK l : l = IdleSweep
  OBVIOUS
<1>4. /\ row \in Rows /\ k \in CallRecords /\ k.pc = "idle"
      /\ l \in SweepRecords /\ l.pc = "idle" /\ l.now = 0 /\ l.todo = {}
  BY <1>1, <1>2, <1>3, Resting
<1>5. Typed
  <2>1. advert = [a \in Adverts |-> row] /\ call = [c \in Calls |-> k] /\ sweep = [s \in Sweeps |-> l]
    BY <1>1, <1>2, <1>3 DEF Init
  <2>2. /\ advert \in [Adverts -> Rows] /\ call \in [Calls -> CallRecords]
        /\ sweep \in [Sweeps -> SweepRecords]
    BY <1>4, <2>1
  <2>3. DOMAIN media = Adverts /\ DOMAIN index = Adverts /\ DOMAIN entered = Adverts
    BY DEF Init
  <2>4. today = 0 /\ overlaps = 0 /\ crashes = 0 /\ alerts = {}
    BY DEF Init
  <2>5. swept = FALSE /\ missed = FALSE
    BY DEF Init
  <2>6. /\ today \in Int /\ overlaps \in Nat /\ crashes \in Nat
        /\ alerts \subseteq [advert : Adverts, day : AlertDays]
    BY <2>4
  <2>7. swept \in BOOLEAN /\ missed \in BOOLEAN
    BY <2>5
  <2> QED
    BY <2>2, <2>3, <2>6, <2>7 DEF Typed
<1>6. CallSound(k)
  BY <1>4 DEF CallSound
<1>7. SweepSound(l)
  BY <1>4 DEF SweepSound, Init
<1>8. Sound
  BY <1>2, <1>3, <1>6, <1>7 DEF Init, Sound
<1> QED
  BY <1>5, <1>8

LEMMA BeginTyped ==
    ASSUME Typed, Begin
    PROVE  /\ overlaps' \in Nat
           /\ overlaps' = 0 => overlaps = 0 /\ Quiet
           /\ UNCHANGED <<entered, renewed, missed, crashes>>
BY DEF Begin, Typed

LEMMA OneCall ==
    ASSUME Typed, Sound, NEW c \in Calls, NEW new \in CallRecords, CallSound(new),
           call' = [call EXCEPT ![c] = new]
    PROVE  /\ call' \in [Calls -> CallRecords]
           /\ \A d \in Calls : CallSound(call'[d])
           /\ call'[c] = new /\ \A d \in Calls : d # c => call'[d] = call[d]
BY DEF Typed, Sound

LEMMA OneSweep ==
    ASSUME Typed, Sound, NEW s \in Sweeps, NEW new \in SweepRecords, SweepSound(new),
           sweep' = [sweep EXCEPT ![s] = new], UNCHANGED today
    PROVE  /\ sweep' \in [Sweeps -> SweepRecords]
           /\ \A t \in Sweeps : SweepSound(sweep[t])' /\ SweepSound(sweep'[t])
           /\ sweep'[s] = new /\ \A t \in Sweeps : t # s => sweep'[t] = sweep[t]
<1>1. /\ sweep' \in [Sweeps -> SweepRecords]
      /\ sweep'[s] = new /\ \A t \in Sweeps : t # s => sweep'[t] = sweep[t]
  BY DEF Typed
<1>2. \A t \in Sweeps : SweepSound(sweep'[t])
  BY <1>1 DEF Sound
<1>3. \A t \in Sweeps : SweepSound(sweep[t])'
  BY <1>2 DEF SweepSound
<1> QED
  BY <1>1, <1>2, <1>3

(* The steps of calls.                                                     *)
LEMMA CallsTyped ==
    ASSUME Typed, Sound, NEW c \in Calls, Read(c) \/ CallStep(c)
    PROVE  Typed' /\ Sound'
<1>1. CASE Read(c)
  <2>1. PICK k : Reads(c, k)
    BY <1>1, ReadEffect
  <2>2. call' \in [Calls -> CallRecords] /\ \A d \in Calls : CallSound(call'[d])
    BY <2>1, OneCall DEF Reads
  <2>3. overlaps' \in Nat /\ UNCHANGED <<entered, renewed, missed, crashes>>
    BY <2>1, BeginTyped DEF Reads
  <2>4. UNCHANGED <<advert, index, media, alerts, today, swept, sweep>>
    BY <2>1 DEF Reads
  <2>5. Typed'
    BY <2>2, <2>3, <2>4 DEF Typed
  <2>6. Sound'
    BY <2>2, <2>4 DEF Sound, SweepSound, CallSound
  <2> QED
    BY <2>5, <2>6
<1>2. CASE Attach(c)
  <2>1. PICK new : Moves(c, "attach", "write", new)
    BY <1>2, MoveEffect DEF Attach, CallAt
  <2>2. CallSound(new)
    BY <2>1 DEF Sound, CallSound, Moves
  <2>3. call' \in [Calls -> CallRecords] /\ \A d \in Calls : CallSound(call'[d])
    BY <2>1, <2>2, OneCall DEF Moves
  <2>4. DOMAIN media' = DOMAIN media
    BY <1>2 DEF Attach
  <2>5. UNCHANGED <<advert, index, alerts, today, swept, sweep, past>>
    BY <1>2 DEF Attach
  <2>6. Typed'
    BY <2>3, <2>4, <2>5 DEF Typed, past
  <2>7. Sound'
    BY <2>3, <2>5 DEF Sound, SweepSound, CallSound
  <2> QED
    BY <2>6, <2>7
<1>3. CASE Write(c)
  <2>1. PICK row, new : Writes(c, row, new)
    BY <1>3, WriteEffect
  <2>2. new \in CallRecords /\ row \in Rows
    BY <2>1 DEF Writes, WrittenAs, AfterAs
  <2>3. CallSound(new)
    BY <2>1 DEF CallSound, Writes, AfterAs, WrittenAs
  <2>4. call' \in [Calls -> CallRecords] /\ \A d \in Calls : CallSound(call'[d])
    BY <2>1, <2>2, <2>3, OneCall DEF Writes
  <2>5. advert' \in [Adverts -> Rows] /\ DOMAIN entered' = DOMAIN entered
    BY <2>1, <2>2 DEF Writes, Typed
  <2>6. UNCHANGED <<index, media, alerts, today, swept, sweep, missed, overlaps, crashes>>
    BY <2>1 DEF Writes
  <2>7. Typed'
    BY <2>4, <2>5, <2>6 DEF Typed
  <2>8. Sound'
    BY <2>4, <2>6 DEF Sound, SweepSound, CallSound
  <2> QED
    BY <2>7, <2>8
<1>4. CASE ArchiveMedia(c)
  <2>1. PICK new : Moves(c, "media", "index", new)
    BY <1>4, MoveEffect DEF ArchiveMedia, CallAt
  <2>2. CallSound(new)
    BY <2>1 DEF Sound, CallSound, Moves
  <2>3. call' \in [Calls -> CallRecords] /\ \A d \in Calls : CallSound(call'[d])
    BY <2>1, <2>2, OneCall DEF Moves
  <2>4. DOMAIN media' = DOMAIN media
    BY <1>4 DEF ArchiveMedia
  <2>5. UNCHANGED <<advert, index, alerts, today, swept, sweep, past>>
    BY <1>4 DEF ArchiveMedia
  <2>6. Typed'
    BY <2>3, <2>4, <2>5 DEF Typed, past
  <2>7. Sound'
    BY <2>3, <2>5 DEF Sound, SweepSound, CallSound
  <2> QED
    BY <2>6, <2>7
<1>5. CASE SyncIndex(c)
  <2>1. PICK new : new = IdleCall
    OBVIOUS
  <2>2. new \in CallRecords /\ new.pc = "idle" /\ call' = [call EXCEPT ![c] = new]
    BY <1>5, <2>1, Resting DEF SyncIndex, SetCall
  <2>3. CallSound(new)
    BY <2>2 DEF CallSound
  <2>4. call' \in [Calls -> CallRecords] /\ \A d \in Calls : CallSound(call'[d])
    BY <2>2, <2>3, OneCall
  <2>5. DOMAIN index' = DOMAIN index
    BY <1>5 DEF SyncIndex
  <2>6. UNCHANGED <<advert, media, alerts, today, swept, sweep, past>>
    BY <1>5 DEF SyncIndex
  <2>7. Typed'
    BY <2>4, <2>5, <2>6 DEF Typed, past
  <2>8. Sound'
    BY <2>4, <2>6 DEF Sound, SweepSound, CallSound
  <2> QED
    BY <2>7, <2>8
<1> QED
  BY <1>1, <1>2, <1>3, <1>4, <1>5 DEF CallStep

(* The steps of sweeps.                                                    *)
LEMMA SweepsTyped ==
    ASSUME Typed, Sound, NEW s \in Sweeps, List(s) \/ ListDated(s) \/ SweepStep(s)
    PROVE  Typed' /\ Sound'
<1>1. CASE List(s) \/ ListDated(s)
  <2>1. PICK new : Lists(s, new)
    BY <1>1, ListEffect
  <2>2. SweepSound(new)
    BY <2>1 DEF Lists, SweepSound, Typed
  <2>3. UNCHANGED <<advert, index, media, alerts, today, swept, call>>
    BY <2>1 DEF Lists
  <2>4. /\ sweep' \in [Sweeps -> SweepRecords]
        /\ \A t \in Sweeps : SweepSound(sweep[t])'
    BY <2>1, <2>2, <2>3, OneSweep DEF Lists
  <2>5. overlaps' \in Nat /\ UNCHANGED <<entered, renewed, missed, crashes>>
    BY <2>1, BeginTyped DEF Lists
  <2>6. Typed'
    BY <2>3, <2>4, <2>5 DEF Typed
  <2>7. Sound'
    BY <2>3, <2>4 DEF Sound, CallSound
  <2> QED
    BY <2>6, <2>7
<1>2. CASE Keep(s)
  <2>1. PICK a, new : Keeps(s, a, new)
    BY <1>2, KeepEffect
  <2>2. SweepSound(sweep[s])
    BY DEF Sound
  <2>3. SweepSound(new)
    BY <2>1, <2>2 DEF Keeps, SweepSound
  <2>4. UNCHANGED <<advert, index, media, alerts, today, swept, call, past>>
    BY <2>1 DEF Keeps
  <2>5. /\ sweep' \in [Sweeps -> SweepRecords]
        /\ \A t \in Sweeps : SweepSound(sweep[t])'
    BY <2>1, <2>3, <2>4, OneSweep DEF Keeps
  <2>6. Typed'
    BY <2>4, <2>5 DEF Typed, past
  <2>7. Sound'
    BY <2>4, <2>5 DEF Sound, CallSound
  <2> QED
    BY <2>6, <2>7
<1>3. CASE Update(s)
  <2>1. PICK a, row, new : Updates(s, a, row, new)
    BY <1>3, UpdateEffect
  <2>2. SweepSound(sweep[s])
    BY DEF Sound
  <2>3. SweepSound(new)
    BY <2>1, <2>2 DEF Updates, SweepSound
  <2>4. UNCHANGED <<index, media, alerts, today, swept, call, past>>
    BY <2>1 DEF Updates
  <2>5. /\ sweep' \in [Sweeps -> SweepRecords]
        /\ \A t \in Sweeps : SweepSound(sweep[t])'
    BY <2>1, <2>3, <2>4, OneSweep DEF Updates
  <2>6. advert' \in [Adverts -> Rows]
    BY <2>1 DEF Updates, SweptAs, Typed
  <2>7. Typed'
    BY <2>4, <2>5, <2>6 DEF Typed, past
  <2>8. Sound'
    BY <2>4, <2>5 DEF Sound, CallSound
  <2> QED
    BY <2>7, <2>8
<1>4. CASE SweepMedia(s)
  <2>1. PICK new : Goes(s, "index", new)
    BY <1>4, GoEffect DEF SweepMedia
  <2>2. SweepSound(sweep[s]) /\ sweep[s].pc = "media"
    BY <1>4 DEF Sound, SweepMedia, SweepAt
  <2>3. SweepSound(new)
    BY <2>1, <2>2 DEF Goes, SweepSound
  <2>4. UNCHANGED <<advert, index, alerts, today, swept, call, past>> /\ DOMAIN media' = DOMAIN media
    BY <1>4 DEF SweepMedia
  <2>5. /\ sweep' \in [Sweeps -> SweepRecords]
        /\ \A t \in Sweeps : SweepSound(sweep[t])'
    BY <2>1, <2>3, <2>4, OneSweep DEF Goes
  <2>6. Typed'
    BY <2>4, <2>5 DEF Typed, past
  <2>7. Sound'
    BY <2>4, <2>5 DEF Sound, CallSound
  <2> QED
    BY <2>6, <2>7
<1>5. CASE SweepIndex(s)
  <2>0. PICK to \in {"next", "alert"} : to = IF sweep[s].due = {} THEN "next" ELSE "alert"
    OBVIOUS
  <2>1. PICK new : Goes(s, to, new)
    BY <1>5, <2>0, GoEffect DEF SweepIndex
  <2>2. SweepSound(sweep[s]) /\ sweep[s].pc = "index"
    BY <1>5 DEF Sound, SweepIndex, SweepAt
  <2>3. SweepSound(new)
    BY <2>1, <2>2 DEF Goes, SweepSound
  <2>4. UNCHANGED <<advert, media, alerts, today, swept, call, past>> /\ DOMAIN index' = DOMAIN index
    BY <1>5 DEF SweepIndex
  <2>5. /\ sweep' \in [Sweeps -> SweepRecords]
        /\ \A t \in Sweeps : SweepSound(sweep[t])'
    BY <2>1, <2>3, <2>4, OneSweep DEF Goes
  <2>6. Typed'
    BY <2>4, <2>5 DEF Typed, past
  <2>7. Sound'
    BY <2>4, <2>5 DEF Sound, CallSound
  <2> QED
    BY <2>6, <2>7
<1>6. CASE Alert(s)
  <2>1. PICK d, new : Alerts(s, d, new)
    BY <1>6, AlertEffect
  <2>2. SweepSound(sweep[s]) /\ sweep[s].advert \in Adverts /\ today \in Int
    BY <2>1 DEF Sound, SweepSound, Alerts, Typed
  <2>3. UNCHANGED <<advert, index, media, today, swept, call, past>>
    BY <2>1 DEF Alerts
  <2>4. new \in SweepRecords
    BY <2>1, Resting DEF Alerts
  <2>5. new = IdleSweep \/ SweepSound(new)
    BY <2>1, <2>2 DEF Alerts, SweepSound
  <2>6. alerts' \subseteq [advert : Adverts, day : AlertDays]
    BY <2>1, <2>2 DEF Alerts, Typed
  <2>7. ASSUME SweepSound(new) PROVE Typed' /\ Sound'
    <3>1. /\ sweep' \in [Sweeps -> SweepRecords]
          /\ \A t \in Sweeps : SweepSound(sweep[t])'
      BY <2>1, <2>3, <2>4, <2>7, OneSweep DEF Alerts
    <3>2. Typed'
      BY <2>3, <2>6, <3>1 DEF Typed, past
    <3>3. Sound'
      BY <2>3, <3>1 DEF Sound, CallSound
    <3> QED
      BY <3>2, <3>3
  <2>8. CASE new = IdleSweep
    <3>1. SweepSound(new)
      BY <2>8, Resting DEF SweepSound
    <3> QED
      BY <2>7, <3>1
  <2> QED
    BY <2>5, <2>7, <2>8
<1>7. CASE Complete(s)
  <2>1. PICK new : new = IdleSweep
    OBVIOUS
  <2>2. new \in SweepRecords /\ sweep' = [sweep EXCEPT ![s] = new]
    BY <1>7, <2>1, Resting DEF Complete, SetSweep
  <2>3. SweepSound(new)
    BY <2>1, Resting DEF SweepSound
  <2>4. UNCHANGED <<advert, index, media, alerts, today, call, past>>
    BY <1>7 DEF Complete
  <2>5. /\ sweep' \in [Sweeps -> SweepRecords]
        /\ \A t \in Sweeps : SweepSound(sweep[t])'
    BY <2>2, <2>3, <2>4, OneSweep
  <2>6. swept' \in BOOLEAN
    BY <1>7 DEF Complete
  <2>7. Typed'
    BY <2>4, <2>5, <2>6 DEF Typed, past
  <2>8. Sound'
    BY <2>4, <2>5 DEF Sound, CallSound
  <2> QED
    BY <2>7, <2>8
<1> QED
  BY <1>1, <1>2, <1>3, <1>4, <1>5, <1>6, <1>7 DEF SweepStep

LEMMA TypedStep == Typed /\ Sound /\ [Next]_vars => Typed' /\ Sound'
<1> SUFFICES ASSUME Typed, Sound, [Next]_vars PROVE Typed' /\ Sound'
  OBVIOUS
<1>1. CASE UNCHANGED vars
  BY <1>1 DEF vars, Typed, Sound, CallSound, SweepSound
<1>2. CASE Tick
  <2>1. /\ UNCHANGED <<advert, index, media, alerts, sweep, call, entered, renewed, overlaps, crashes>>
        /\ today' = today + 1
    BY <1>2 DEF Tick
  <2>t. today' \in Int
    BY <2>1 DEF Typed
  <2>b. swept' \in BOOLEAN /\ missed' \in BOOLEAN
    BY <1>2 DEF Tick
  <2>2. Typed'
    BY <2>1, <2>t, <2>b DEF Typed
  <2>3. ASSUME NEW s \in Sweeps PROVE SweepSound(sweep[s])'
    <3>1. SweepSound(sweep[s]) /\ sweep[s] \in SweepRecords
      BY DEF Sound, Typed
    <3> QED
      BY <2>1, <3>1 DEF SweepSound
  <2>4. Sound'
    BY <2>1, <2>3 DEF Sound, CallSound
  <2> QED
    BY <2>2, <2>4
<1>3. CASE Crash
  <2>1. /\ UNCHANGED <<advert, index, media, alerts, today, swept, entered, renewed, missed, overlaps>>
        /\ crashes' \in Nat
    BY <1>3 DEF Crash, Typed
  <2>2. CASE \E s \in Sweeps : SetSweep(s, IdleSweep) /\ UNCHANGED call
    <3>1. PICK s \in Sweeps : SetSweep(s, IdleSweep) /\ UNCHANGED call
      BY <2>2
    <3>2. SweepSound(IdleSweep)
      BY Resting DEF SweepSound
    <3>3. /\ sweep' \in [Sweeps -> SweepRecords]
          /\ \A t \in Sweeps : SweepSound(sweep[t])'
      BY <2>1, <3>1, <3>2, Resting, OneSweep DEF SetSweep
    <3>4. Typed' /\ Sound'
      BY <2>1, <3>1, <3>3 DEF Typed, Sound, CallSound
    <3> QED
      BY <3>4
  <2>3. CASE \E c \in Calls : SetCall(c, IdleCall) /\ UNCHANGED sweep
    <3>1. PICK c \in Calls : SetCall(c, IdleCall) /\ UNCHANGED sweep
      BY <2>3
    <3>2. CallSound(IdleCall)
      BY Resting DEF CallSound
    <3>3. call' \in [Calls -> CallRecords] /\ \A d \in Calls : CallSound(call'[d])
      BY <3>1, <3>2, Resting, OneCall DEF SetCall
    <3>4. Typed' /\ Sound'
      BY <2>1, <3>1, <3>3 DEF Typed, Sound, CallSound, SweepSound
    <3> QED
      BY <3>4
  <2> QED
    BY <1>3, <2>2, <2>3 DEF Crash
<1>4. CASE \E c \in Calls : Read(c) \/ CallStep(c)
  BY <1>4, CallsTyped
<1>5. CASE \E s \in Sweeps : List(s) \/ ListDated(s) \/ SweepStep(s)
  BY <1>5, SweepsTyped
<1> QED
  BY <1>1, <1>2, <1>3, <1>4, <1>5 DEF Next
-----------------------------------------------------------------------------
(* The files follow.                                                       *)

LEMMA CallElsewhere ==
    ASSUME Typed, NEW c \in Calls, NEW new, call' = [call EXCEPT ![c] = new]
    PROVE  call'[c] = new /\ \A d \in Calls : d # c => call'[d] = call[d]
BY DEF Typed

LEMMA SweepElsewhere ==
    ASSUME Typed, NEW s \in Sweeps, NEW new, sweep' = [sweep EXCEPT ![s] = new]
    PROVE  sweep'[s] = new /\ \A t \in Sweeps : t # s => sweep'[t] = sweep[t]
BY DEF Typed

(* Steps that move on a process with no files to archive.                  *)
LEMMA FilesKept ==
    ASSUME FilesFollow, UNCHANGED <<advert, entered, media, crashes>>,
           \A a \in Adverts : Archiving(a) => Archiving(a)'
    PROVE  FilesFollow'
BY DEF FilesFollow

LEMMA CallFilesKept ==
    ASSUME Typed, NEW c \in Calls, NEW new, call' = [call EXCEPT ![c] = new],
           UNCHANGED sweep,
           call[c].pc \notin {"media", "write"}
    PROVE  \A a \in Adverts : Archiving(a) => Archiving(a)'
BY CallElsewhere DEF Archiving

LEMMA SweepFilesKept ==
    ASSUME Typed, NEW s \in Sweeps, NEW new, sweep' = [sweep EXCEPT ![s] = new],
           UNCHANGED call,
           sweep[s].pc # "media"
    PROVE  \A a \in Adverts : Archiving(a) => Archiving(a)'
BY SweepElsewhere DEF Archiving

LEMMA CallsFiles ==
    ASSUME Typed, Sound, FilesFollow, NEW c \in Calls, Read(c) \/ CallStep(c)
    PROVE  FilesFollow'
<1>1. CASE Read(c)
  <2>1. PICK k : Reads(c, k)
    BY <1>1, ReadEffect
  <2>2. UNCHANGED <<advert, entered, media, crashes, sweep>>
    BY <2>1, BeginTyped DEF Reads
  <2> QED
    BY <2>1, <2>2, CallFilesKept, FilesKept DEF Reads
<1>2. CASE Attach(c)
  <2>1. PICK new : Moves(c, "attach", "write", new)
    BY <1>2, MoveEffect DEF Attach, CallAt
  <2>2. /\ call'[c] = new /\ new.pc = "write" /\ new.op = "addMedia"
        /\ new.advert = call[c].advert
    BY <2>1, CallElsewhere DEF Moves, Sound, CallSound
  <2>3. \A a \in Adverts : Archiving(a) => Archiving(a)'
    <3>1. UNCHANGED sweep
      BY <1>2 DEF Attach
    <3> QED
      BY <2>1, <3>1, CallFilesKept DEF Moves
  <2>4. \A a \in Adverts : a = call[c].advert => Archiving(a)'
    BY <2>2 DEF Archiving
  <2>5. /\ UNCHANGED <<advert, entered, crashes>>
        /\ \A a \in Adverts : a # call[c].advert => media'[a] = media[a]
    BY <1>2 DEF Attach, past, Typed
  <2> QED
    BY <2>3, <2>4, <2>5 DEF FilesFollow
<1>3. CASE Write(c)
  <2>1. PICK row, new : Writes(c, row, new)
    BY <1>3, WriteEffect
  <2>2. PICK k : k = call[c]
    OBVIOUS
  <2>3. /\ k.advert \in Adverts /\ k.pc = "write" /\ CallSound(k)
        /\ k.op \in {"publish", "pause", "archive", "renew", "boost", "addMedia"}
    BY <2>1, <2>2, OpsAssumption DEF Writes, Sound, CallSound
  <2>4. WrittenAs(k, row) /\ AfterAs(k, row, new)
    BY <2>1, <2>2 DEF Writes
  <2>5. /\ call'[c] = new /\ \A d \in Calls : d # c => call'[d] = call[d]
    BY <2>1, CallElsewhere DEF Writes
  <2>6. /\ advert'[k.advert] = row
        /\ \A a \in Adverts : a # k.advert => advert'[a] = advert[a]
    BY <2>1, <2>2, <2>3 DEF Writes, Typed
  <2>7. UNCHANGED <<media, sweep, crashes>>
    BY <2>1 DEF Writes
  <2>8. /\ \A a \in Adverts : a # k.advert => entered'[a] = entered[a]
        /\ k.op \in {"publish", "renew"} => entered'[k.advert] = Entered(row.published)
    BY <2>1, <2>2, <2>3 DEF Writes, Typed
  <2>9. \A a \in Adverts : a # k.advert /\ Archiving(a) => Archiving(a)'
    BY <2>2, <2>5, <2>7 DEF Archiving
  <2>10. row.status \in Gone => entered'[k.advert] = "over" \/ Archiving(k.advert)'
    <3>1. CASE k.op = "archive"
      <4>1. call'[c].advert = k.advert /\ call'[c].pc = "media"
        BY <2>4, <2>5, <3>1 DEF AfterAs
      <4> QED
        BY <4>1 DEF Archiving
    <3>2. CASE k.op \in {"publish", "renew"}
      <4>1. row.status \in Gone => today >= row.published + LiveDays
        BY <2>4, <3>2 DEF WrittenAs, Gone
      <4>2. row.status \in Gone => Entered(row.published) = "over"
        BY <2>4, <4>1, EnteredFacts, RowFacts DEF Typed, WrittenAs
      <4> QED
        BY <2>8, <3>2, <4>2
    <3>3. CASE k.op \in {"pause", "boost", "addMedia"}
      BY <2>3, <2>4, <3>3 DEF WrittenAs, Gone, CallSound
    <3> QED
      BY <2>3, <3>1, <3>2, <3>3
  <2> QED
    BY <2>6, <2>7, <2>8, <2>9, <2>10 DEF FilesFollow
<1>4. CASE ArchiveMedia(c)
  <2>1. PICK new : Moves(c, "media", "index", new)
    BY <1>4, MoveEffect DEF ArchiveMedia, CallAt
  <2>2. \A d \in Calls : d # c => call'[d] = call[d]
    BY <2>1, CallElsewhere DEF Moves
  <2>3. UNCHANGED <<advert, entered, crashes, sweep>>
    BY <1>4 DEF ArchiveMedia, past
  <2>4. /\ \A a \in Adverts : a # call[c].advert => media'[a] = media[a]
        /\ \A a \in Adverts : a = call[c].advert => media'[a] = "archived"
    BY <1>4 DEF ArchiveMedia, Typed
  <2>5. \A a \in Adverts : a # call[c].advert /\ Archiving(a) => Archiving(a)'
    BY <2>2, <2>3 DEF Archiving
  <2> QED
    BY <2>3, <2>4, <2>5 DEF FilesFollow
<1>5. CASE SyncIndex(c)
  <2>1. UNCHANGED <<advert, entered, media, crashes, sweep>>
    BY <1>5 DEF SyncIndex, past
  <2>2. call[c].pc = "index" /\ call' = [call EXCEPT ![c] = IdleCall]
    BY <1>5 DEF SyncIndex, CallAt, SetCall
  <2> QED
    BY <2>1, <2>2, CallFilesKept, FilesKept
<1> QED
  BY <1>1, <1>2, <1>3, <1>4, <1>5 DEF CallStep

LEMMA SweepsFiles ==
    ASSUME Typed, Sound, FilesFollow, NEW s \in Sweeps, List(s) \/ ListDated(s) \/ SweepStep(s)
    PROVE  FilesFollow'
<1>1. CASE List(s) \/ ListDated(s)
  <2>1. PICK new : Lists(s, new)
    BY <1>1, ListEffect
  <2>2. UNCHANGED <<advert, entered, media, crashes, call>>
    BY <2>1, BeginTyped DEF Lists
  <2> QED
    BY <2>1, <2>2, SweepFilesKept, FilesKept DEF Lists
<1>2. CASE Keep(s)
  <2>1. PICK a, new : Keeps(s, a, new)
    BY <1>2, KeepEffect
  <2>2. UNCHANGED <<advert, entered, media, crashes, call>>
    BY <2>1 DEF Keeps, past
  <2> QED
    BY <2>1, <2>2, SweepFilesKept, FilesKept DEF Keeps
<1>3. CASE Update(s)
  <2>1. PICK b, row, new : Updates(s, b, row, new)
    BY <1>3, UpdateEffect
  <2>2. UNCHANGED <<entered, media, crashes, call>>
    BY <2>1 DEF Updates, past
  <2>3. \A a \in Adverts : Archiving(a) => Archiving(a)'
    BY <2>1, <2>2, SweepFilesKept DEF Updates
  <2>4. /\ advert'[b] = row
        /\ \A a \in Adverts : a # b => advert'[a] = advert[a]
    BY <2>1 DEF Updates, Typed
  <2>5. sweep'[s] = new /\ new.advert = b /\ b \in Adverts
    BY <2>1, SweepElsewhere DEF Updates
  <2>6. row.status \in Gone => new.pc = "media"
    BY <2>1 DEF Updates, SweptAs, Gone
  <2>7. row.status \in Gone => Archiving(b)'
    BY <2>5, <2>6 DEF Archiving
  <2> QED
    BY <2>2, <2>3, <2>4, <2>7 DEF FilesFollow
<1>4. CASE SweepMedia(s)
  <2>1. PICK new : Goes(s, "index", new)
    BY <1>4, GoEffect DEF SweepMedia
  <2>2. \A t \in Sweeps : t # s => sweep'[t] = sweep[t]
    BY <2>1, SweepElsewhere DEF Goes
  <2>3. UNCHANGED <<advert, entered, crashes, call>>
    BY <1>4 DEF SweepMedia, past
  <2>4. /\ \A a \in Adverts : a # sweep[s].advert => media'[a] = media[a]
        /\ \A a \in Adverts : a = sweep[s].advert => media'[a] = "archived"
    BY <1>4 DEF SweepMedia, Typed
  <2>5. \A a \in Adverts : a # sweep[s].advert /\ Archiving(a) => Archiving(a)'
    BY <2>2, <2>3 DEF Archiving
  <2> QED
    BY <2>3, <2>4, <2>5 DEF FilesFollow
<1>5. CASE SweepIndex(s) \/ Alert(s) \/ Complete(s)
  <2>1. UNCHANGED <<advert, entered, media, crashes, call>>
    BY <1>5 DEF SweepIndex, Alert, Complete, past
  <2>2. \E new : sweep' = [sweep EXCEPT ![s] = new]
    BY <1>5 DEF SweepIndex, Alert, Complete, SetSweep
  <2>3. sweep[s].pc # "media"
    BY <1>5 DEF SweepIndex, Alert, Complete, SweepAt
  <2> QED
    BY <2>1, <2>2, <2>3, SweepFilesKept, FilesKept
<1> QED
  BY <1>1, <1>2, <1>3, <1>4, <1>5 DEF SweepStep

LEMMA FilesStep == Typed /\ Sound /\ FilesFollow /\ [Next]_vars => FilesFollow'
<1> SUFFICES ASSUME Typed, Sound, FilesFollow, [Next]_vars PROVE FilesFollow'
  OBVIOUS
<1>1. CASE UNCHANGED vars
  BY <1>1 DEF vars, FilesFollow, Archiving
<1>2. CASE Tick
  BY <1>2 DEF Tick, FilesFollow, Archiving
<1>3. CASE Crash
  <2>1. crashes' # 0
    BY <1>3 DEF Crash, Typed
  <2> QED
    BY <2>1 DEF FilesFollow
<1> QED
  BY <1>1, <1>2, <1>3, CallsFiles, SweepsFiles DEF Next
-----------------------------------------------------------------------------
(* Operations that came one at a time.                                     *)

LEMMA CallAlone ==
    ASSUME Typed, Alone, NEW c \in Calls, NEW new,
           call' = [call EXCEPT ![c] = new], UNCHANGED sweep,
           overlaps' = 0 => overlaps = 0 /\ (call[c].pc # "idle" \/ Quiet),
           overlaps' = 0 => (new.pc # "idle" => new.row = advert'[new.advert])
    PROVE  Alone'
<1> SUFFICES ASSUME overlaps' = 0 PROVE Single' /\ UpToDate'
  BY DEF Alone
<1>1. Single /\ UpToDate /\ (call[c].pc # "idle" \/ Quiet)
  BY DEF Alone
<1>2. /\ \A d \in Calls : d # c => call[d].pc = "idle"
      /\ \A s \in Sweeps : sweep[s].pc = "idle"
  BY <1>1 DEF Single, Quiet
<1>3. call'[c] = new /\ \A d \in Calls : d # c => call'[d] = call[d]
  BY CallElsewhere
<1>4. /\ \A d \in Calls : d # c => call'[d].pc = "idle"
      /\ \A s \in Sweeps : sweep'[s].pc = "idle"
  BY <1>2, <1>3
<1>5. Single'
  BY <1>4 DEF Single
<1>6. UpToDate'
  BY <1>3, <1>4 DEF UpToDate
<1> QED
  BY <1>5, <1>6

LEMMA SweepAlone ==
    ASSUME Typed, Alone, NEW s \in Sweeps, NEW new,
           sweep' = [sweep EXCEPT ![s] = new], UNCHANGED call,
           overlaps' = 0 => overlaps = 0 /\ (sweep[s].pc # "idle" \/ Quiet),
           overlaps' = 0 => /\ new.pc # "idle" => \A a \in new.todo : new.snap[a] = advert'[a]
                            /\ new.pc \notin {"idle", "next"} => new.row = advert'[new.advert]
    PROVE  Alone'
<1> SUFFICES ASSUME overlaps' = 0 PROVE Single' /\ UpToDate'
  BY DEF Alone
<1>1. Single /\ UpToDate /\ (sweep[s].pc # "idle" \/ Quiet)
  BY DEF Alone
<1>2. /\ \A t \in Sweeps : t # s => sweep[t].pc = "idle"
      /\ \A c \in Calls : call[c].pc = "idle"
  BY <1>1 DEF Single, Quiet
<1>3. sweep'[s] = new /\ \A t \in Sweeps : t # s => sweep'[t] = sweep[t]
  BY SweepElsewhere
<1>4. /\ \A t \in Sweeps : t # s => sweep'[t].pc = "idle"
      /\ \A c \in Calls : call'[c].pc = "idle"
  BY <1>2, <1>3
<1>5. Single'
  BY <1>4 DEF Single
<1>6. UpToDate'
  BY <1>3, <1>4 DEF UpToDate
<1> QED
  BY <1>5, <1>6

LEMMA CallsAlone ==
    ASSUME Typed, Sound, Alone, NEW c \in Calls, Read(c) \/ CallStep(c)
    PROVE  Alone'
<1>1. CASE Read(c)
  <2>1. PICK k : Reads(c, k)
    BY <1>1, ReadEffect
  <2>2. overlaps' = 0 => overlaps = 0 /\ Quiet
    BY <2>1, BeginTyped DEF Reads
  <2> QED
    BY <2>1, <2>2, CallAlone DEF Reads
<1>2. CASE Attach(c)
  <2>1. PICK new : Moves(c, "attach", "write", new)
    BY <1>2, MoveEffect DEF Attach, CallAt
  <2>2. UNCHANGED <<advert, sweep, overlaps>>
    BY <1>2 DEF Attach, past
  <2>3. overlaps = 0 => new.row = advert'[new.advert]
    BY <2>1, <2>2 DEF Moves, Alone, UpToDate
  <2> QED
    BY <2>1, <2>2, <2>3, CallAlone DEF Moves
<1>3. CASE Write(c)
  <2>1. PICK row, new : Writes(c, row, new)
    BY <1>3, WriteEffect
  <2>2. new.pc # "idle" => new.row = advert'[new.advert]
    BY <2>1 DEF Writes, AfterAs, Typed
  <2> QED
    BY <2>1, <2>2, CallAlone DEF Writes
<1>4. CASE ArchiveMedia(c)
  <2>1. PICK new : Moves(c, "media", "index", new)
    BY <1>4, MoveEffect DEF ArchiveMedia, CallAt
  <2>2. UNCHANGED <<advert, sweep, overlaps>>
    BY <1>4 DEF ArchiveMedia, past
  <2>3. overlaps = 0 => new.row = advert'[new.advert]
    BY <2>1, <2>2 DEF Moves, Alone, UpToDate
  <2> QED
    BY <2>1, <2>2, <2>3, CallAlone DEF Moves
<1>5. CASE SyncIndex(c)
  <2>1. PICK new : new = IdleCall
    OBVIOUS
  <2>2. call' = [call EXCEPT ![c] = new] /\ new.pc = "idle" /\ call[c].pc = "index"
    BY <1>5, <2>1, Resting DEF SyncIndex, SetCall, CallAt
  <2>3. UNCHANGED <<sweep, overlaps>>
    BY <1>5 DEF SyncIndex, past
  <2> QED
    BY <2>2, <2>3, CallAlone
<1> QED
  BY <1>1, <1>2, <1>3, <1>4, <1>5 DEF CallStep

(* A sweep that goes on with what it has. *)
LEMMA GoesAlone ==
    ASSUME Typed, Alone, NEW s \in Sweeps, NEW new, NEW to,
           Goes(s, to, new), sweep[s].pc \notin {"idle", "next"},
           UNCHANGED <<advert, call, overlaps>>
    PROVE  Alone'
<1>1. overlaps = 0 => /\ \A a \in new.todo : new.snap[a] = advert[a]
                      /\ new.row = advert[new.advert]
  BY DEF Goes, Alone, UpToDate
<1>2. overlaps' = 0 => /\ \A a \in new.todo : new.snap[a] = advert'[a]
                       /\ new.row = advert'[new.advert]
  BY <1>1
<1> QED
  BY <1>2, SweepAlone DEF Goes

LEMMA RestsAlone ==
    ASSUME Typed, Alone, NEW s \in Sweeps, sweep[s].pc # "idle",
           sweep' = [sweep EXCEPT ![s] = IdleSweep], UNCHANGED <<call, overlaps>>
    PROVE  Alone'
<1>1. PICK new : new = IdleSweep
  OBVIOUS
<1>2. new.pc = "idle" /\ sweep' = [sweep EXCEPT ![s] = new]
  BY <1>1, Resting
<1> QED
  BY <1>2, SweepAlone

LEMMA SweepsAlone ==
    ASSUME Typed, Sound, Alone, NEW s \in Sweeps, List(s) \/ ListDated(s) \/ SweepStep(s)
    PROVE  Alone'
<1>1. CASE List(s) \/ ListDated(s)
  <2>1. PICK new : Lists(s, new)
    BY <1>1, ListEffect
  <2>2. overlaps' = 0 => overlaps = 0 /\ Quiet
    BY <2>1, BeginTyped DEF Lists
  <2> QED
    BY <2>1, <2>2, SweepAlone DEF Lists
<1>2. CASE Keep(s)
  <2>1. PICK a, new : Keeps(s, a, new)
    BY <1>2, KeepEffect
  <2>2. UNCHANGED <<advert, call, overlaps>>
    BY <2>1 DEF Keeps, past
  <2>3. overlaps' = 0 => \A b \in new.todo : new.snap[b] = advert'[b]
    BY <2>1, <2>2 DEF Keeps, Alone, UpToDate
  <2> QED
    BY <2>1, <2>2, <2>3, SweepAlone DEF Keeps
<1>3. CASE Update(s)
  <2>1. PICK a, row, new : Updates(s, a, row, new)
    BY <1>3, UpdateEffect
  <2>2. UNCHANGED <<call, overlaps>>
    BY <2>1 DEF Updates, past
  <2>3. /\ advert'[a] = row
        /\ \A b \in Adverts : b # a => advert'[b] = advert[b]
    BY <2>1 DEF Updates, Typed
  <2>4. overlaps' = 0 => \A b \in new.todo : new.snap[b] = advert'[b]
    <3>1. sweep[s].todo \subseteq Adverts /\ new.todo = sweep[s].todo \ {a}
          /\ new.snap = sweep[s].snap /\ sweep[s].pc = "next"
      BY <2>1 DEF Updates, Typed, SweepRecords
    <3>2. overlaps = 0 => \A b \in sweep[s].todo : sweep[s].snap[b] = advert[b]
      BY <3>1 DEF Alone, UpToDate
    <3> QED
      BY <2>2, <2>3, <3>1, <3>2
  <2>5. new.row = advert'[new.advert]
    BY <2>1, <2>3 DEF Updates
  <2> QED
    BY <2>1, <2>2, <2>4, <2>5, SweepAlone DEF Updates
<1>4. CASE SweepMedia(s)
  <2>1. PICK new : Goes(s, "index", new)
    BY <1>4, GoEffect DEF SweepMedia
  <2> QED
    BY <1>4, <2>1, GoesAlone DEF SweepMedia, past, SweepAt
<1>5. CASE SweepIndex(s)
  <2>1. PICK to \in {"next", "alert"} : to = IF sweep[s].due = {} THEN "next" ELSE "alert"
    OBVIOUS
  <2>2. PICK new : Goes(s, to, new)
    BY <1>5, <2>1, GoEffect DEF SweepIndex
  <2> QED
    BY <1>5, <2>2, GoesAlone DEF SweepIndex, past, SweepAt
<1>6. CASE Alert(s)
  <2>1. PICK d, new : Alerts(s, d, new)
    BY <1>6, AlertEffect
  <2>2. UNCHANGED <<advert, call, overlaps>> /\ sweep[s].pc = "alert"
    BY <2>1 DEF Alerts, past
  <2>3. CASE new = IdleSweep
    BY <2>1, <2>2, <2>3, RestsAlone DEF Alerts
  <2>4. CASE new # IdleSweep
    <3>1. /\ new.snap = sweep[s].snap /\ new.todo = sweep[s].todo
          /\ new.advert = sweep[s].advert /\ new.row = sweep[s].row
      BY <2>1, <2>4 DEF Alerts
    <3>2. overlaps = 0 => /\ \A a \in sweep[s].todo : sweep[s].snap[a] = advert[a]
                          /\ sweep[s].row = advert[sweep[s].advert]
      BY <2>2 DEF Alone, UpToDate
    <3>3. overlaps' = 0 => /\ \A a \in new.todo : new.snap[a] = advert'[a]
                           /\ new.row = advert'[new.advert]
      BY <2>2, <3>1, <3>2
    <3> QED
      BY <2>1, <2>2, <3>3, SweepAlone DEF Alerts
  <2> QED
    BY <2>3, <2>4
<1>7. CASE Complete(s)
  BY <1>7, RestsAlone DEF Complete, SetSweep, SweepAt, past
<1> QED
  BY <1>1, <1>2, <1>3, <1>4, <1>5, <1>6, <1>7 DEF SweepStep

LEMMA AloneStep == Typed /\ Sound /\ Alone /\ [Next]_vars => Alone'
<1> SUFFICES ASSUME Typed, Sound, Alone, [Next]_vars PROVE Alone'
  OBVIOUS
<1>1. CASE UNCHANGED vars
  BY <1>1 DEF vars, Alone, Single, UpToDate
<1>2. CASE Tick
  BY <1>2 DEF Tick, Alone, Single, UpToDate
<1>3. CASE Crash
  <2>1. UNCHANGED <<advert, overlaps>>
    BY <1>3 DEF Crash
  <2>2. CASE \E s \in Sweeps : ~SweepAt(s, "idle") /\ SetSweep(s, IdleSweep) /\ UNCHANGED call
    BY <2>1, <2>2, RestsAlone DEF SweepAt, SetSweep
  <2>3. CASE \E c \in Calls : ~CallAt(c, "idle") /\ SetCall(c, IdleCall) /\ UNCHANGED sweep
    <3>1. PICK c \in Calls : ~CallAt(c, "idle") /\ SetCall(c, IdleCall) /\ UNCHANGED sweep
      BY <2>3
    <3>2. PICK new : new = IdleCall
      OBVIOUS
    <3>3. new.pc = "idle" /\ call' = [call EXCEPT ![c] = new] /\ call[c].pc # "idle"
      BY <3>1, <3>2, Resting DEF SetCall, CallAt
    <3> QED
      BY <2>1, <3>1, <3>3, CallAlone
  <2> QED
    BY <1>3, <2>2, <2>3 DEF Crash
<1> QED
  BY <1>1, <1>2, <1>3, CallsAlone, SweepsAlone DEF Next
-----------------------------------------------------------------------------
(* The index follows.                                                      *)

LEMMA IndexKept ==
    ASSUME Indexed, UNCHANGED <<advert, index>>, Undisturbed' => Undisturbed,
           \A a \in Adverts : Indexing(a) => Indexing(a)'
    PROVE  Indexed'
BY DEF Indexed

LEMMA CallsIndexed ==
    ASSUME Typed, Sound, Alone, Indexed, NEW c \in Calls, Read(c) \/ CallStep(c)
    PROVE  Indexed'
<1>1. CASE Read(c)
  <2>1. PICK k : Reads(c, k)
    BY <1>1, ReadEffect
  <2>2. Undisturbed' => Undisturbed
    BY <2>1, BeginTyped DEF Reads, Undisturbed
  <2>3. UNCHANGED <<advert, index, sweep>>
    BY <2>1 DEF Reads
  <2>4. call[c].pc = "idle" /\ \A d \in Calls : d # c => call'[d] = call[d]
    BY <2>1, CallElsewhere DEF Reads
  <2>5. \A a \in Adverts : Indexing(a) => Indexing(a)'
    BY <2>3, <2>4 DEF Indexing
  <2> QED
    BY <2>2, <2>3, <2>5, IndexKept
<1>2. CASE Attach(c)
  <2>1. PICK new : Moves(c, "attach", "write", new)
    BY <1>2, MoveEffect DEF Attach, CallAt
  <2>2. UNCHANGED <<advert, index, sweep, overlaps, crashes>>
    BY <1>2 DEF Attach, past
  <2>3. call[c].pc = "attach" /\ \A d \in Calls : d # c => call'[d] = call[d]
    BY <2>1, CallElsewhere DEF Moves
  <2>4. \A a \in Adverts : Indexing(a) => Indexing(a)'
    BY <2>2, <2>3 DEF Indexing
  <2> QED
    BY <2>2, <2>4, IndexKept DEF Undisturbed
<1>3. CASE Write(c)
  <2>1. PICK row, new : Writes(c, row, new)
    BY <1>3, WriteEffect
  <2>2. PICK k : k = call[c]
    OBVIOUS
  <2>3. k.advert \in Adverts /\ k.pc = "write" /\ WrittenAs(k, row) /\ AfterAs(k, row, new)
    BY <2>1, <2>2 DEF Writes
  <2>4. UNCHANGED <<index, sweep, overlaps, crashes>>
    BY <2>1 DEF Writes
  <2>5. /\ call'[c] = new /\ \A d \in Calls : d # c => call'[d] = call[d]
    BY <2>1, CallElsewhere DEF Writes
  <2>6. /\ advert'[k.advert] = row
        /\ \A a \in Adverts : a # k.advert => advert'[a] = advert[a]
    BY <2>1, <2>2, <2>3 DEF Writes, Typed
  <2>7. \A a \in Adverts : Indexing(a) => Indexing(a)'
    BY <2>2, <2>3, <2>4, <2>5 DEF Indexing
  <2>8. CASE k.op = "addMedia"
    <3>1. overlaps = 0 => row = advert[k.advert]
      BY <2>2, <2>3, <2>8 DEF WrittenAs, Alone, UpToDate
    <3> QED
      BY <2>4, <2>6, <2>7, <3>1 DEF Indexed, Undisturbed
  <2>9. CASE k.op # "addMedia"
    <3>1. new.pc \in {"media", "index"} /\ new.advert = k.advert
      BY <2>3, <2>9 DEF AfterAs
    <3>2. Indexing(k.advert)'
      BY <2>5, <3>1 DEF Indexing
    <3> QED
      BY <2>4, <2>6, <2>7, <3>2 DEF Indexed, Undisturbed
  <2> QED
    BY <2>8, <2>9
<1>4. CASE ArchiveMedia(c)
  <2>1. PICK new : Moves(c, "media", "index", new)
    BY <1>4, MoveEffect DEF ArchiveMedia, CallAt
  <2>2. UNCHANGED <<advert, index, sweep, overlaps, crashes>>
    BY <1>4 DEF ArchiveMedia, past
  <2>3. /\ call'[c] = new /\ new.pc = "index" /\ new.advert = call[c].advert
        /\ \A d \in Calls : d # c => call'[d] = call[d]
    BY <2>1, CallElsewhere DEF Moves
  <2>4. \A a \in Adverts : Indexing(a) => Indexing(a)'
    BY <2>2, <2>3 DEF Indexing
  <2> QED
    BY <2>2, <2>4, IndexKept DEF Undisturbed
<1>5. CASE SyncIndex(c)
  <2>1. UNCHANGED <<advert, sweep, overlaps, crashes>>
    BY <1>5 DEF SyncIndex, past
  <2>2. call[c].pc = "index" /\ call' = [call EXCEPT ![c] = IdleCall]
    BY <1>5 DEF SyncIndex, CallAt, SetCall
  <2>3. \A d \in Calls : d # c => call'[d] = call[d]
    BY <2>2, CallElsewhere
  <2>4. /\ \A a \in Adverts : a # call[c].advert => index'[a] = index[a]
        /\ \A a \in Adverts : a = call[c].advert => index'[a] = Entry(call[c].row)
    BY <1>5 DEF SyncIndex, Typed
  <2>5. overlaps = 0 => call[c].row = advert[call[c].advert]
    BY <2>2 DEF Alone, UpToDate
  <2>6. \A a \in Adverts : a # call[c].advert /\ Indexing(a) => Indexing(a)'
    BY <2>1, <2>3 DEF Indexing
  <2>7. ASSUME Undisturbed', NEW a \in Adverts
        PROVE  index'[a] = Entry(advert[a]) \/ Indexing(a)'
    <3>1. Undisturbed
      BY <2>1, <2>7 DEF Undisturbed
    <3>2. CASE a = call[c].advert
      BY <2>4, <2>5, <3>1, <3>2 DEF Undisturbed
    <3>3. CASE a # call[c].advert
      BY <2>4, <2>6, <3>1, <3>3 DEF Indexed
    <3> QED
      BY <3>2, <3>3
  <2>8. \A a \in Adverts : Entry(advert[a])' = Entry(advert[a])
    BY <2>1
  <2> QED
    BY <2>7, <2>8 DEF Indexed
<1> QED
  BY <1>1, <1>2, <1>3, <1>4, <1>5 DEF CallStep

LEMMA SweepsIndexed ==
    ASSUME Typed, Sound, Alone, Indexed, NEW s \in Sweeps, List(s) \/ ListDated(s) \/ SweepStep(s)
    PROVE  Indexed'
<1>1. CASE List(s) \/ ListDated(s)
  <2>1. PICK new : Lists(s, new)
    BY <1>1, ListEffect
  <2>2. Undisturbed' => Undisturbed
    BY <2>1, BeginTyped DEF Lists, Undisturbed
  <2>3. UNCHANGED <<advert, index, call>>
    BY <2>1 DEF Lists
  <2>4. sweep[s].pc = "idle" /\ \A t \in Sweeps : t # s => sweep'[t] = sweep[t]
    BY <2>1, SweepElsewhere DEF Lists
  <2>5. \A a \in Adverts : Indexing(a) => Indexing(a)'
    BY <2>3, <2>4 DEF Indexing
  <2> QED
    BY <2>2, <2>3, <2>5, IndexKept
<1>2. CASE Keep(s) \/ Alert(s) \/ Complete(s)
  <2>1. UNCHANGED <<advert, index, call, overlaps, crashes>>
    BY <1>2 DEF Keep, Alert, Complete, past
  <2>2. PICK new : sweep' = [sweep EXCEPT ![s] = new]
    BY <1>2 DEF Keep, Alert, Complete, SetSweep
  <2>3. sweep[s].pc \in {"next", "alert"} /\ \A t \in Sweeps : t # s => sweep'[t] = sweep[t]
    BY <1>2, <2>2, SweepElsewhere DEF Keep, Alert, Complete, SweepAt
  <2>4. \A a \in Adverts : Indexing(a) => Indexing(a)'
    BY <2>1, <2>3 DEF Indexing
  <2> QED
    BY <2>1, <2>4, IndexKept DEF Undisturbed
<1>3. CASE Update(s)
  <2>1. PICK b, row, new : Updates(s, b, row, new)
    BY <1>3, UpdateEffect
  <2>2. UNCHANGED <<index, call, overlaps, crashes>>
    BY <2>1 DEF Updates, past
  <2>3. /\ sweep[s].pc = "next" /\ sweep'[s] = new
        /\ \A t \in Sweeps : t # s => sweep'[t] = sweep[t]
    BY <2>1, SweepElsewhere DEF Updates
  <2>4. \A a \in Adverts : Indexing(a) => Indexing(a)'
    BY <2>2, <2>3 DEF Indexing
  <2>5. \A a \in Adverts : a # b => advert'[a] = advert[a]
    BY <2>1 DEF Updates, Typed
  <2>6. new.pc \in {"media", "index"} /\ new.advert = b
    BY <2>1 DEF Updates
  <2>7. Indexing(b)'
    BY <2>3, <2>6 DEF Indexing
  <2> QED
    BY <2>2, <2>4, <2>5, <2>7 DEF Indexed, Undisturbed
<1>4. CASE SweepMedia(s)
  <2>1. PICK new : Goes(s, "index", new)
    BY <1>4, GoEffect DEF SweepMedia
  <2>2. UNCHANGED <<advert, index, call, overlaps, crashes>>
    BY <1>4 DEF SweepMedia, past
  <2>3. /\ sweep'[s] = new /\ new.pc = "index" /\ new.advert = sweep[s].advert
        /\ \A t \in Sweeps : t # s => sweep'[t] = sweep[t]
    BY <2>1, SweepElsewhere DEF Goes
  <2>4. \A a \in Adverts : Indexing(a) => Indexing(a)'
    BY <2>2, <2>3 DEF Indexing
  <2> QED
    BY <2>2, <2>4, IndexKept DEF Undisturbed
<1>5. CASE SweepIndex(s)
  <2>1. UNCHANGED <<advert, call, overlaps, crashes>>
    BY <1>5 DEF SweepIndex, past
  <2>2. PICK new : sweep' = [sweep EXCEPT ![s] = new]
    BY <1>5 DEF SweepIndex, SetSweep
  <2>3. sweep[s].pc = "index" /\ \A t \in Sweeps : t # s => sweep'[t] = sweep[t]
    BY <1>5, <2>2, SweepElsewhere DEF SweepIndex, SweepAt
  <2>4. /\ \A a \in Adverts : a # sweep[s].advert => index'[a] = index[a]
        /\ \A a \in Adverts : a = sweep[s].advert => index'[a] = Entry(sweep[s].row)
    BY <1>5 DEF SweepIndex, Typed
  <2>5. overlaps = 0 => sweep[s].row = advert[sweep[s].advert]
    BY <2>3 DEF Alone, UpToDate
  <2>6. \A a \in Adverts : a # sweep[s].advert /\ Indexing(a) => Indexing(a)'
    BY <2>1, <2>3 DEF Indexing
  <2>7. ASSUME Undisturbed', NEW a \in Adverts
        PROVE  index'[a] = Entry(advert[a]) \/ Indexing(a)'
    <3>1. Undisturbed
      BY <2>1, <2>7 DEF Undisturbed
    <3>2. CASE a = sweep[s].advert
      BY <2>4, <2>5, <3>1, <3>2 DEF Undisturbed
    <3>3. CASE a # sweep[s].advert
      BY <2>4, <2>6, <3>1, <3>3 DEF Indexed
    <3> QED
      BY <3>2, <3>3
  <2>8. \A a \in Adverts : Entry(advert[a])' = Entry(advert[a])
    BY <2>1
  <2> QED
    BY <2>7, <2>8 DEF Indexed
<1> QED
  BY <1>1, <1>2, <1>3, <1>4, <1>5 DEF SweepStep

LEMMA IndexedStep == Typed /\ Sound /\ Alone /\ Indexed /\ [Next]_vars => Indexed'
<1> SUFFICES ASSUME Typed, Sound, Alone, Indexed, [Next]_vars PROVE Indexed'
  OBVIOUS
<1>1. CASE UNCHANGED vars
  BY <1>1 DEF vars, Indexed, Indexing, Undisturbed
<1>2. CASE Tick
  BY <1>2 DEF Tick, Indexed, Indexing, Undisturbed
<1>3. CASE Crash
  <2>1. crashes' # 0
    BY <1>3 DEF Crash, Typed
  <2> QED
    BY <2>1 DEF Indexed, Undisturbed
<1> QED
  BY <1>1, <1>2, <1>3, CallsIndexed, SweepsIndexed DEF Next
-----------------------------------------------------------------------------
(* The alerts follow.                                                      *)

LEMMA AlertsKept ==
    ASSUME Alerted, UNCHANGED <<advert, alerts, renewed, sweep>>, Undisturbed' => Undisturbed
    PROVE  Alerted'
BY DEF Alerted, AlertsOf, FirstPeriod, Warned, Sending

(* A sweep goes on, and sends what it was about to send, or had nothing.   *)
LEMMA SendsOn ==
    ASSUME Typed, Alerted, NEW s \in Sweeps, NEW new,
           sweep' = [sweep EXCEPT ![s] = new],
           UNCHANGED <<advert, alerts, renewed>>, Undisturbed' => Undisturbed,
           \A a \in Adverts : Sending(s, a)' => Sending(s, a) /\ new.due = sweep[s].due,
           \A a \in Adverts : Sending(s, a) => Sending(s, a)' \/ sweep[s].due = {}
    PROVE  Alerted'
<1>1. sweep'[s] = new /\ \A t \in Sweeps : t # s => sweep'[t] = sweep[t]
  BY SweepElsewhere
<1>2. \A t \in Sweeps, a \in Adverts : t # s => Sending(t, a)' = Sending(t, a)
  BY <1>1 DEF Sending
<1>3. ASSUME NEW a \in Adverts, AlertsOf(a) PROVE AlertsOf(a)'
  <2>1. \A n \in alerts' : n.advert = a => n.day \in advert'[a].sent
    BY <1>3 DEF AlertsOf
  <2>2. ASSUME NEW d \in advert'[a].sent
        PROVE  Warned(a, d)' \/ \E t \in Sweeps : Sending(t, a)' /\ d \in sweep'[t].due
    <3>1. CASE Warned(a, d)
      BY <3>1 DEF Warned
    <3>2. CASE \E t \in Sweeps : Sending(t, a) /\ d \in sweep[t].due
      <4>1. PICK t \in Sweeps : Sending(t, a) /\ d \in sweep[t].due
        BY <3>2
      <4>2. CASE t = s
        BY <1>1, <4>1, <4>2
      <4>3. CASE t # s
        BY <1>1, <1>2, <4>1, <4>3
      <4> QED
        BY <4>2, <4>3
    <3> QED
      BY <1>3, <2>2, <3>1, <3>2 DEF AlertsOf
  <2>3. ASSUME NEW t \in Sweeps, Sending(t, a)'
        PROVE  /\ sweep'[t].due \subseteq advert'[a].sent
               /\ \A n \in alerts' : n.advert = a => n.day \notin sweep'[t].due
    <3>1. Sending(t, a) /\ sweep'[t].due = sweep[t].due
      BY <1>1, <1>2, <2>3
    <3> QED
      BY <1>3, <3>1 DEF AlertsOf
  <2> QED
    BY <2>1, <2>2, <2>3 DEF AlertsOf
<1> QED
  BY <1>3 DEF Alerted, FirstPeriod

LEMMA CallsAlerted ==
    ASSUME Typed, Sound, Alone, Alerted, NEW c \in Calls, Read(c) \/ CallStep(c)
    PROVE  Alerted'
<1>1. CASE Read(c)
  <2>1. PICK k : Reads(c, k)
    BY <1>1, ReadEffect
  <2>2. (Undisturbed' => Undisturbed) /\ UNCHANGED renewed
    BY <2>1, BeginTyped DEF Reads, Undisturbed
  <2> QED
    BY <2>1, <2>2, AlertsKept DEF Reads
<1>2. CASE Attach(c) \/ ArchiveMedia(c) \/ SyncIndex(c)
  <2>1. UNCHANGED <<advert, alerts, renewed, sweep, overlaps, crashes>>
    BY <1>2 DEF Attach, ArchiveMedia, SyncIndex, past
  <2> QED
    BY <2>1, AlertsKept DEF Undisturbed
<1>3. CASE Write(c)
  <2>1. PICK row, new : Writes(c, row, new)
    BY <1>3, WriteEffect
  <2>2. PICK k : k = call[c]
    OBVIOUS
  <2>3. k.advert \in Adverts /\ k.pc = "write" /\ WrittenAs(k, row) /\ CallSound(k)
    BY <2>1, <2>2 DEF Writes, Sound
  <2>4. UNCHANGED <<alerts, sweep, overlaps, crashes>>
    BY <2>1 DEF Writes
  <2>5. /\ advert'[k.advert] = row
        /\ \A a \in Adverts : a # k.advert => advert'[a] = advert[a]
    BY <2>1, <2>2, <2>3 DEF Writes, Typed
  <2> SUFFICES ASSUME Undisturbed', NEW a \in Adverts, FirstPeriod(a)'
               PROVE  AlertsOf(a)'
    BY DEF Alerted
  <2>6. Undisturbed /\ FirstPeriod(a)
    BY <2>1, <2>4 DEF Undisturbed, FirstPeriod, Writes
  <2>7. AlertsOf(a)
    BY <2>6 DEF Alerted
  <2>8. CASE a # k.advert
    <3>1. advert'[a] = advert[a]
      BY <2>5, <2>8
    <3> QED
      BY <2>4, <2>7, <3>1 DEF AlertsOf, Warned, Sending
  <2>9. CASE a = k.advert
    <3>1. k.row = advert[a] /\ \A s \in Sweeps : sweep[s].pc = "idle"
      BY <2>2, <2>3, <2>6, <2>9 DEF Undisturbed, Alone, Single, UpToDate
    <3>2. CASE row.sent = advert[a].sent
      BY <2>4, <2>5, <2>7, <2>9, <3>2 DEF AlertsOf, Warned, Sending
    <3>3. CASE row.sent # advert[a].sent
      <4>1. k.op \in {"publish", "renew"} /\ row.sent = {}
        BY <2>3, <3>1, <3>3 DEF WrittenAs
      <4>2. k.op # "publish"
        BY <2>3, <3>1, <3>3, <4>1, RowFacts DEF Typed, CallSound
      <4>3. ~\E n \in alerts : n.advert = a
        BY <2>1, <2>2, <2>9, <4>1, <4>2 DEF Writes, FirstPeriod
      <4>4. advert'[a].sent = {} /\ \A s \in Sweeps : ~Sending(s, a)'
        BY <2>4, <2>5, <2>9, <3>1, <4>1 DEF Sending
      <4> QED
        BY <2>4, <4>3, <4>4 DEF AlertsOf
    <3> QED
      BY <3>2, <3>3
  <2> QED
    BY <2>8, <2>9
<1> QED
  BY <1>1, <1>2, <1>3 DEF CallStep

LEMMA SweepsAlerted ==
    ASSUME Typed, Sound, Alone, Alerted, NEW s \in Sweeps, List(s) \/ ListDated(s) \/ SweepStep(s)
    PROVE  Alerted'
<1>1. CASE List(s) \/ ListDated(s)
  <2>1. PICK new : Lists(s, new)
    BY <1>1, ListEffect
  <2>2. (Undisturbed' => Undisturbed) /\ UNCHANGED renewed
    BY <2>1, BeginTyped DEF Lists, Undisturbed
  <2>3. sweep'[s] = new
    BY <2>1, SweepElsewhere DEF Lists
  <2>4. \A a \in Adverts : ~Sending(s, a) /\ ~Sending(s, a)'
    BY <2>1, <2>3 DEF Lists, Sending
  <2> QED
    BY <2>1, <2>2, <2>4, SendsOn DEF Lists
<1>2. CASE Keep(s)
  <2>1. PICK b, new : Keeps(s, b, new)
    BY <1>2, KeepEffect
  <2>2. UNCHANGED <<advert, alerts, renewed, overlaps, crashes>>
    BY <2>1 DEF Keeps, past
  <2>3. sweep'[s] = new
    BY <2>1, SweepElsewhere DEF Keeps
  <2>4. \A a \in Adverts : ~Sending(s, a) /\ ~Sending(s, a)'
    BY <2>1, <2>3 DEF Keeps, Sending
  <2> QED
    BY <2>1, <2>2, <2>4, SendsOn DEF Keeps, Undisturbed
<1>3. CASE Update(s)
  <2>1. PICK b, row, new : Updates(s, b, row, new)
    BY <1>3, UpdateEffect
  <2>2. UNCHANGED <<alerts, renewed, overlaps, crashes>>
    BY <2>1 DEF Updates, past
  <2>3. /\ sweep[s].pc = "next" /\ sweep'[s] = new
        /\ \A t \in Sweeps : t # s => sweep'[t] = sweep[t]
    BY <2>1, SweepElsewhere DEF Updates
  <2>4. /\ advert'[b] = row
        /\ \A a \in Adverts : a # b => advert'[a] = advert[a]
    BY <2>1 DEF Updates, Typed
  <2> SUFFICES ASSUME Undisturbed', NEW a \in Adverts, FirstPeriod(a)'
               PROVE  AlertsOf(a)'
    BY DEF Alerted
  <2>5. Undisturbed /\ AlertsOf(a)
    BY <2>2 DEF Undisturbed, FirstPeriod, Alerted
  <2>6. \A t \in Sweeps : t # s => sweep[t].pc = "idle"
    BY <2>3, <2>5 DEF Undisturbed, Alone, Single
  <2>7. \A t \in Sweeps : ~Sending(t, a)
    BY <2>3, <2>6 DEF Sending
  <2>8. \A t \in Sweeps : Sending(t, a)' => t = s /\ a = b
    BY <2>1, <2>3, <2>6 DEF Sending, Updates
  <2>9. CASE a # b
    <3>1. advert'[a] = advert[a]
      BY <2>4, <2>9
    <3> QED
      BY <2>2, <2>5, <2>7, <2>8, <2>9, <3>1 DEF AlertsOf, Warned
  <2>10. CASE a = b
    <3>1. PICK due : due = Due(sweep[s].snap[b], sweep[s].now)
      OBVIOUS
    <3>2. sweep[s].snap[b] = advert[a]
      BY <2>1, <2>3, <2>5, <2>10 DEF Updates, Undisturbed, Alone, UpToDate
    <3>3. due \cap advert[a].sent = {}
      BY <3>1, <3>2 DEF Due
    <3>4. advert'[a].sent = advert[a].sent \cup due /\ new.due = due
      BY <2>1, <2>4, <2>10, <3>1, <3>2 DEF Updates, SweptAs
    <3>5. Sending(s, a)'
      BY <2>1, <2>3, <2>10 DEF Sending, Updates
    <3>6. \A n \in alerts' : n.advert = a => n.day \in advert[a].sent
      BY <2>2, <2>5 DEF AlertsOf
    <3>7. \A d \in advert[a].sent : Warned(a, d)'
      BY <2>2, <2>5, <2>7 DEF AlertsOf, Warned
    <3>8. \A d \in due : Sending(s, a)' /\ d \in sweep'[s].due
      BY <2>3, <3>4, <3>5
    <3>9. \A t \in Sweeps : Sending(t, a)' =>
            /\ sweep'[t].due \subseteq advert'[a].sent
            /\ \A n \in alerts' : n.advert = a => n.day \notin sweep'[t].due
      BY <2>3, <2>8, <3>3, <3>4, <3>6
    <3> QED
      BY <3>4, <3>6, <3>7, <3>8, <3>9 DEF AlertsOf
  <2> QED
    BY <2>9, <2>10
<1>4. CASE SweepMedia(s)
  <2>1. PICK new : Goes(s, "index", new)
    BY <1>4, GoEffect DEF SweepMedia
  <2>2. UNCHANGED <<advert, alerts, renewed, overlaps, crashes>> /\ sweep[s].pc = "media"
    BY <1>4 DEF SweepMedia, SweepAt, past
  <2>3. sweep'[s] = new
    BY <2>1, SweepElsewhere DEF Goes
  <2>4. new.due = sweep[s].due /\ \A a \in Adverts : Sending(s, a)' <=> Sending(s, a)
    BY <2>1, <2>2, <2>3 DEF Goes, Sending
  <2> QED
    BY <2>1, <2>2, <2>4, SendsOn DEF Goes, Undisturbed
<1>5. CASE SweepIndex(s)
  <2>0. PICK to \in {"next", "alert"} : to = IF sweep[s].due = {} THEN "next" ELSE "alert"
    OBVIOUS
  <2>1. PICK new : Goes(s, to, new)
    BY <1>5, <2>0, GoEffect DEF SweepIndex
  <2>2. UNCHANGED <<advert, alerts, renewed, overlaps, crashes>> /\ sweep[s].pc = "index"
    BY <1>5 DEF SweepIndex, SweepAt, past
  <2>3. sweep'[s] = new
    BY <2>1, SweepElsewhere DEF Goes
  <2>4. /\ \A a \in Adverts : Sending(s, a)' => Sending(s, a) /\ new.due = sweep[s].due
        /\ \A a \in Adverts : Sending(s, a) => Sending(s, a)' \/ sweep[s].due = {}
    BY <2>0, <2>1, <2>2, <2>3 DEF Goes, Sending
  <2> QED
    BY <2>1, <2>2, <2>4, SendsOn DEF Goes, Undisturbed
<1>6. CASE Alert(s)
  <2>1. PICK d, new : Alerts(s, d, new)
    BY <1>6, AlertEffect
  <2>2. PICK b : b = sweep[s].advert
    OBVIOUS
  <2>3. UNCHANGED <<advert, renewed, overlaps, crashes>> /\ sweep[s].pc = "alert"
    BY <2>1 DEF Alerts, past
  <2>4. d \in sweep[s].due /\ b \in Adverts /\ Sending(s, b)
    BY <2>1, <2>2, <2>3 DEF Alerts, Sending, Sound, SweepSound
  <2>5. sweep'[s] = new /\ \A t \in Sweeps : t # s => sweep'[t] = sweep[t]
    BY <2>1, SweepElsewhere DEF Alerts
  <2> SUFFICES ASSUME Undisturbed', NEW a \in Adverts, FirstPeriod(a)'
               PROVE  AlertsOf(a)'
    BY DEF Alerted
  <2>6. Undisturbed /\ AlertsOf(a)
    BY <2>3 DEF Undisturbed, FirstPeriod, Alerted
  <2>7. \A t \in Sweeps : t # s => sweep[t].pc = "idle"
    BY <2>3, <2>6 DEF Undisturbed, Alone, Single
  <2>8. \A t \in Sweeps : (Sending(t, a) => t = s) /\ (Sending(t, a)' => t = s)
    BY <2>5, <2>7 DEF Sending
  <2>9. CASE a # b
    <3>1. \A t \in Sweeps : ~Sending(t, a)
      BY <2>2, <2>8, <2>9 DEF Sending
    <3>2. ~Sending(s, a)'
      <4>1. CASE new = IdleSweep
        BY <2>5, <4>1, Resting DEF Sending
      <4>2. CASE new # IdleSweep
        BY <2>1, <2>2, <2>5, <2>9, <4>2 DEF Sending, Alerts
      <4> QED
        BY <4>1, <4>2
    <3>3. \A n : n.advert = a => (n \in alerts' <=> n \in alerts)
      BY <2>1, <2>2, <2>9 DEF Alerts
    <3>4. \A e \in AlertDays : Warned(a, e) => Warned(a, e)'
      BY <2>1 DEF Alerts, Warned
    <3>5. advert[a].sent \subseteq AlertDays
      BY RowFacts DEF Typed
    <3> QED
      BY <2>3, <2>6, <2>8, <3>1, <3>2, <3>3, <3>4, <3>5 DEF AlertsOf
  <2>10. CASE a = b
    <3>1. /\ sweep[s].due \subseteq advert[a].sent
          /\ \A n \in alerts : n.advert = a => n.day \in advert[a].sent /\ n.day \notin sweep[s].due
      BY <2>4, <2>6, <2>10 DEF AlertsOf
    <3>2. ~\E n \in alerts : n.advert = b /\ n.day = d
      BY <2>4, <2>10, <3>1
    <3>3. /\ alerts' = alerts \cup {[advert |-> b, day |-> d]}
          /\ new.due = sweep[s].due \ {d} /\ new.advert = b
          /\ new.pc = IF sweep[s].due = {d} THEN "next" ELSE "alert"
      BY <2>1, <2>2, <3>2 DEF Alerts
    <3>4. \A n \in alerts' : n.advert = a => n.day \in advert[a].sent /\ n.day \notin new.due
      BY <2>4, <3>1, <3>3
    <3>5. ASSUME NEW e \in advert[a].sent
          PROVE  Warned(a, e)' \/ (Sending(s, a)' /\ e \in sweep'[s].due)
      <4>0. alerts' = alerts \cup {[advert |-> a, day |-> d]}
        BY <2>10, <3>3
      <4>1. CASE Warned(a, e)
        <5>1. [advert |-> a, day |-> e] \in alerts'
          BY <4>0, <4>1 DEF Warned
        <5> QED
          BY <5>1 DEF Warned
      <4>2. CASE e = d
        <5>1. [advert |-> a, day |-> e] \in alerts'
          BY <4>0, <4>2
        <5> QED
          BY <5>1 DEF Warned
      <4>3. CASE e \in sweep[s].due /\ e # d
        <5>1. e \in new.due /\ new.pc = "alert"
          BY <3>3, <4>3
        <5> QED
          BY <2>5, <2>10, <3>3, <5>1 DEF Sending
      <4>4. Warned(a, e) \/ e \in sweep[s].due
        BY <2>6, <2>8, <3>5 DEF AlertsOf
      <4> QED
        BY <4>1, <4>2, <4>3, <4>4
    <3>6. \A t \in Sweeps : Sending(t, a)' =>
            /\ sweep'[t].due \subseteq advert[a].sent
            /\ \A n \in alerts' : n.advert = a => n.day \notin sweep'[t].due
      BY <2>5, <2>8, <3>1, <3>3, <3>4
    <3> QED
      BY <2>3, <3>4, <3>5, <3>6 DEF AlertsOf
  <2> QED
    BY <2>9, <2>10
<1>7. CASE Complete(s)
  <2>1. PICK new : new = IdleSweep
    OBVIOUS
  <2>2. /\ UNCHANGED <<advert, alerts, renewed, overlaps, crashes>> /\ sweep[s].pc = "next"
        /\ sweep' = [sweep EXCEPT ![s] = new] /\ new.pc = "idle"
    BY <1>7, <2>1, Resting DEF Complete, SetSweep, SweepAt, past
  <2>3. sweep'[s] = new
    BY <2>2, SweepElsewhere
  <2>4. \A a \in Adverts : ~Sending(s, a) /\ ~Sending(s, a)'
    BY <2>2, <2>3 DEF Sending
  <2> QED
    BY <2>2, <2>4, SendsOn DEF Undisturbed
<1> QED
  BY <1>1, <1>2, <1>3, <1>4, <1>5, <1>6, <1>7 DEF SweepStep

LEMMA AlertedStep == Typed /\ Sound /\ Alone /\ Alerted /\ [Next]_vars => Alerted'
<1> SUFFICES ASSUME Typed, Sound, Alone, Alerted, [Next]_vars PROVE Alerted'
  OBVIOUS
<1>1. CASE UNCHANGED vars
  BY <1>1, AlertsKept DEF vars, Undisturbed
<1>2. CASE Tick
  BY <1>2, AlertsKept DEF Tick, Undisturbed
<1>3. CASE Crash
  <2>1. crashes' # 0
    BY <1>3 DEF Crash, Typed
  <2> QED
    BY <2>1 DEF Alerted, Undisturbed
<1> QED
  BY <1>1, <1>2, <1>3, CallsAlerted, SweepsAlerted DEF Next
-----------------------------------------------------------------------------
(* Day by day.                                                             *)

LEMMA DailyKept ==
    ASSUME Daily, UNCHANGED <<advert, entered, today, missed>>, Undisturbed' => Undisturbed,
           Undisturbed' => \A a \in Adverts, day \in Int :
               SweptAsOf(a, day)' => SweptAsOf(a, day) \/ advert[a].status \in Gone \cup {"NONE"},
           Typed
    PROVE  Daily'
<1> SUFFICES ASSUME Undisturbed', ~missed', NEW a \in Adverts
             PROVE  Scheduled(a)' /\ Counted(a)'
  BY DEF Daily
<1>1. Scheduled(a) /\ Counted(a)
  BY DEF Daily
<1>2. /\ advert[a].published + LiveDays - 1 \in Int
      /\ \A day \in Int : SweptAsOf(a, day)' => SweptAsOf(a, day) \/ advert[a].status \in Gone \cup {"NONE"}
  BY RowFacts, PolicyAssumption DEF Typed
<1>3. Scheduled(a)'
  BY <1>1, <1>2 DEF Scheduled, Gone
<1>4. Counted(a)'
  BY <1>1, <1>2 DEF Counted
<1> QED
  BY <1>3, <1>4

(* A sweep goes on with the same date and the same adverts to do. *)
LEMMA SweepGoesOn ==
    ASSUME Typed, NEW s \in Sweeps, NEW new, sweep[s].pc # "idle",
           sweep' = [sweep EXCEPT ![s] = new],
           new.pc = "idle" \/ (new.now = sweep[s].now /\ new.todo = sweep[s].todo),
           UNCHANGED <<today, swept>>
    PROVE  \A a \in Adverts, day \in Int : SweptAsOf(a, day)' => SweptAsOf(a, day)
BY SweepElsewhere DEF SweptAsOf

LEMMA CallsDaily ==
    ASSUME Typed, Sound, Alone, Daily, NEW c \in Calls, Read(c) \/ CallStep(c)
    PROVE  Daily'
<1>1. CASE Read(c)
  <2>1. PICK k : Reads(c, k)
    BY <1>1, ReadEffect
  <2>2. (Undisturbed' => Undisturbed) /\ UNCHANGED <<entered, missed>>
    BY <2>1, BeginTyped DEF Reads, Undisturbed
  <2>3. UNCHANGED <<advert, today, swept, sweep>>
    BY <2>1 DEF Reads
  <2>4. \A a \in Adverts, day \in Int : SweptAsOf(a, day)' => SweptAsOf(a, day)
    BY <2>3 DEF SweptAsOf
  <2> QED
    BY <2>2, <2>3, <2>4, DailyKept
<1>2. CASE Attach(c) \/ ArchiveMedia(c) \/ SyncIndex(c)
  <2>1. UNCHANGED <<advert, entered, today, missed, swept, sweep, overlaps, crashes>>
    BY <1>2 DEF Attach, ArchiveMedia, SyncIndex, past
  <2>2. \A a \in Adverts, day \in Int : SweptAsOf(a, day)' => SweptAsOf(a, day)
    BY <2>1 DEF SweptAsOf
  <2> QED
    BY <2>1, <2>2, DailyKept DEF Undisturbed
<1>3. CASE Write(c)
  <2>1. PICK row, new : Writes(c, row, new)
    BY <1>3, WriteEffect
  <2>2. PICK k : k = call[c]
    OBVIOUS
  <2>3. k.advert \in Adverts /\ k.pc = "write" /\ WrittenAs(k, row) /\ CallSound(k)
    BY <2>1, <2>2 DEF Writes, Sound
  <2>4. UNCHANGED <<today, swept, sweep, missed, overlaps, crashes>>
    BY <2>1 DEF Writes
  <2>5. /\ advert'[k.advert] = row
        /\ \A a \in Adverts : a # k.advert => advert'[a] = advert[a]
    BY <2>1, <2>2, <2>3 DEF Writes, Typed
  <2>6. /\ \A a \in Adverts : a # k.advert => entered'[a] = entered[a]
        /\ k.op \in {"publish", "renew"} => entered'[k.advert] = Entered(row.published)
        /\ k.op \notin {"publish", "renew"} => UNCHANGED entered
    BY <2>1, <2>2, <2>3 DEF Writes, Typed
  <2> SUFFICES ASSUME Undisturbed', ~missed', NEW a \in Adverts
               PROVE  Scheduled(a)' /\ Counted(a)'
    BY DEF Daily
  <2>7. Undisturbed /\ ~missed /\ Scheduled(a) /\ Counted(a)
    BY <2>4 DEF Undisturbed, Daily
  <2>0. \A s \in Sweeps : sweep[s].pc = "idle"
    BY <2>2, <2>3, <2>7 DEF Undisturbed, Alone, Single
  <2>8. \A day \in Int : /\ SweptAsOf(a, day)' = SweptAsOf(a, day)
                         /\ SweptAsOf(a, day)' => day = today
    BY <2>0, <2>4 DEF SweptAsOf
  <2>t. /\ today \in Int /\ advert[a].published \in Int
        /\ advert[a].published + LiveDays - 1 \in Int
    BY RowFacts, PolicyAssumption DEF Typed
  <2>9. CASE a # k.advert
    <3>1. advert'[a] = advert[a] /\ entered'[a] = entered[a]
      BY <2>5, <2>6, <2>9
    <3> QED
      BY <2>4, <2>7, <2>8, <2>t, <3>1 DEF Scheduled, Counted
  <2>10. CASE a = k.advert /\ k.op \in {"publish", "renew"}
    <3>1. row.published \in Int /\ today \in Int /\ LiveDays \in Nat
      BY <2>3, RowFacts, PolicyAssumption DEF WrittenAs, Typed
    <3>2. row.status = "SCHEDULED" => today < row.published
      BY <2>3, <2>10 DEF WrittenAs
    <3>3. entered'[a] = "in time" => today < row.published + LiveDays - 1
      BY <2>6, <2>10, <3>1, EnteredFacts
    <3>4. Scheduled(a)'
      BY <2>4, <2>5, <2>8, <2>10, <3>1, <3>2 DEF Scheduled
    <3>5. Counted(a)'
      <4>1. CASE entered'[a] = "in time"
        <5>1. /\ today' = today /\ advert'[a].published = row.published
              /\ today < row.published + LiveDays - 1
          BY <2>4, <2>5, <2>10, <3>3, <4>1
        <5>2. /\ ~(today' >= advert'[a].published + LiveDays)
              /\ advert'[a].published + LiveDays - 1 \in Int
              /\ today # advert'[a].published + LiveDays - 1
          BY <3>1, <5>1
        <5> QED
          BY <2>8, <5>2 DEF Counted
      <4>2. CASE entered'[a] # "in time"
        BY <4>2 DEF Counted
      <4> QED
        BY <4>1, <4>2
    <3> QED
      BY <3>4, <3>5
  <2>11. CASE a = k.advert /\ k.op \notin {"publish", "renew"}
    <3>1. k.row = advert[a]
      BY <2>2, <2>3, <2>7, <2>11 DEF Undisturbed, Alone, UpToDate
    <3>2. /\ row.published = advert[a].published /\ row.sent = advert[a].sent
          /\ row.status = "SCHEDULED" => row = advert[a]
          /\ advert[a].status \notin Gone \cup {"NONE"}
      BY <2>3, <2>11, <3>1 DEF WrittenAs, CallSound
    <3>3. Scheduled(a)'
      BY <2>4, <2>5, <2>7, <2>8, <2>t, <2>11, <3>2 DEF Scheduled
    <3>4. Counted(a)'
      BY <2>4, <2>5, <2>6, <2>7, <2>8, <2>t, <2>11, <3>2 DEF Counted
    <3> QED
      BY <3>3, <3>4
  <2> QED
    BY <2>9, <2>10, <2>11
<1> QED
  BY <1>1, <1>2, <1>3 DEF CallStep

LEMMA KeptCounted ==
    ASSUME NEW old \in Rows, NEW now \in Int, NewStatus(old, now) = "keep"
    PROVE  /\ old.status = "SCHEDULED" => now < old.published
           /\ now = old.published + LiveDays - 1 => AlertDays \subseteq old.sent
<1>0. /\ LiveDays \in Nat \ {0} /\ old.published \in Int
  BY PolicyAssumption, RowFacts
<1>1. old.status = "SCHEDULED" => now < old.published
  BY <1>0 DEF NewStatus, IsScheduled
<1>2. ASSUME now = old.published + LiveDays - 1 PROVE AlertDays \subseteq old.sent
  <2>1. ~IsScheduled(old.published, now) /\ ~ShouldAutoDelete(old.published, now)
    BY <1>0, <1>2 DEF IsScheduled, ShouldAutoDelete
  <2>2. DaysDue(old.published, now) \ old.sent = {}
    BY <2>1 DEF NewStatus
  <2>3. DaysDue(old.published, now) = AlertDays
    BY <1>2, AllDue
  <2> QED
    BY <2>2, <2>3
<1> QED
  BY <1>1, <1>2

LEMMA DueCounted ==
    ASSUME NEW old \in Rows, NEW now \in Int, NewStatus(old, now) # "keep",
           old.status = "SCHEDULED" => now <= old.published
    PROVE  /\ old.status = "SCHEDULED" => now >= old.published
           /\ now = old.published + LiveDays - 1 => AlertDays \subseteq old.sent \cup Due(old, now)
<1>0. /\ LiveDays \in Nat \ {0} /\ AlertDays \subseteq 1..(LiveDays - 1) /\ old.published \in Int
  BY PolicyAssumption, RowFacts
<1>1. ~IsScheduled(old.published, now) /\ now >= old.published
  BY <1>0 DEF NewStatus, IsScheduled
<1>2. ASSUME now = old.published + LiveDays - 1, old.status # "SCHEDULED"
      PROVE  AlertDays \subseteq old.sent \cup Due(old, now)
  BY <1>2, AllDue DEF Due
<1>3. ASSUME now = old.published + LiveDays - 1, old.status = "SCHEDULED"
      PROVE  AlertDays = {}
  <2>1. LiveDays = 1
    BY <1>0, <1>1, <1>3
  <2> QED
    BY <1>0, <2>1
<1> QED
  BY <1>1, <1>2, <1>3
LEMMA SweepsDaily ==
    ASSUME Typed, Sound, Alone, Daily, NEW s \in Sweeps, List(s) \/ ListDated(s) \/ SweepStep(s)
    PROVE  Daily'
<1>1. CASE List(s) \/ ListDated(s)
  <2>1. PICK new : Lists(s, new)
    BY <1>1, ListEffect
  <2>2. (Undisturbed' => Undisturbed) /\ UNCHANGED <<entered, missed>>
    BY <2>1, BeginTyped DEF Lists, Undisturbed
  <2>3. UNCHANGED <<advert, today, swept>>
    BY <2>1 DEF Lists
  <2>4. sweep'[s] = new /\ \A t \in Sweeps : t # s => sweep'[t] = sweep[t]
    BY <2>1, SweepElsewhere DEF Lists
  <2>5. \A a \in Adverts : a \notin new.todo => advert[a].status \in Gone \cup {"NONE"}
    BY <2>1 DEF Lists
  <2>6. \A a \in Adverts, day \in Int :
          SweptAsOf(a, day)' => SweptAsOf(a, day) \/ advert[a].status \in Gone \cup {"NONE"}
    BY <2>3, <2>4, <2>5 DEF SweptAsOf
  <2> QED
    BY <2>2, <2>3, <2>6, DailyKept
<1>2. CASE Keep(s)
  <2>1. PICK b, new : Keeps(s, b, new)
    BY <1>2, KeepEffect
  <2>2. UNCHANGED <<advert, entered, today, missed, swept, overlaps, crashes>>
    BY <2>1 DEF Keeps, past
  <2>3. /\ sweep[s].pc = "next" /\ sweep'[s] = new /\ new.now = sweep[s].now
        /\ new.todo = sweep[s].todo \ {b} /\ b \in sweep[s].todo /\ b \in Adverts
        /\ \A t \in Sweeps : t # s => sweep'[t] = sweep[t]
    BY <2>1, SweepElsewhere DEF Keeps
  <2>4. \A a \in Adverts, day \in Int :
          a # b \/ sweep[s].now # day => (SweptAsOf(a, day)' => SweptAsOf(a, day))
    BY <2>2, <2>3 DEF SweptAsOf
  <2> SUFFICES ASSUME Undisturbed', ~missed', NEW a \in Adverts
               PROVE  Scheduled(a)' /\ Counted(a)'
    BY DEF Daily
  <2>5. Undisturbed /\ Scheduled(a) /\ Counted(a)
    BY <2>2 DEF Undisturbed, Daily
  <2>p. /\ advert[a] \in Rows /\ today \in Int /\ advert[a].published \in Int
        /\ advert[a].published + LiveDays - 1 \in Int
    BY RowFacts, PolicyAssumption DEF Typed
  <2>6. CASE a # b
    <3>1. \A day \in Int : SweptAsOf(a, day)' => SweptAsOf(a, day)
      BY <2>4, <2>6
    <3> QED
      BY <2>2, <2>5, <2>p, <3>1 DEF Scheduled, Counted
  <2>7. CASE a = b
    <3>0. PICK now : now = sweep[s].now
      OBVIOUS
    <3>1. sweep[s].snap[b] = advert[a] /\ NewStatus(sweep[s].snap[b], now) = "keep"
      BY <2>1, <2>3, <2>5, <2>7, <3>0 DEF Keeps, Undisturbed, Alone, UpToDate
    <3>2. NewStatus(advert[a], now) = "keep" /\ now \in Int
      BY <3>0, <3>1 DEF Typed, SweepRecords
    <3>3. /\ advert[a].status = "SCHEDULED" => now < advert[a].published
          /\ now = advert[a].published + LiveDays - 1 => AlertDays \subseteq advert[a].sent
      BY <2>p, <3>2, KeptCounted
    <3>4. \A day \in Int : SweptAsOf(a, day)' => SweptAsOf(a, day) \/ day = now
      BY <2>4, <3>0
    <3>5. Scheduled(a)'
      BY <2>2, <2>5, <2>p, <3>3, <3>4 DEF Scheduled
    <3>6. Counted(a)'
      BY <2>2, <2>5, <2>p, <3>3, <3>4 DEF Counted
    <3> QED
      BY <3>5, <3>6
  <2> QED
    BY <2>6, <2>7
<1>3. CASE Update(s)
  <2>1. PICK b, row, new : Updates(s, b, row, new)
    BY <1>3, UpdateEffect
  <2>2. UNCHANGED <<entered, today, missed, swept, overlaps, crashes>>
    BY <2>1 DEF Updates, past
  <2>3. /\ sweep[s].pc = "next" /\ sweep'[s] = new /\ new.now = sweep[s].now
        /\ new.todo = sweep[s].todo \ {b} /\ b \in sweep[s].todo /\ b \in Adverts
        /\ \A t \in Sweeps : t # s => sweep'[t] = sweep[t]
    BY <2>1, SweepElsewhere DEF Updates
  <2>4. \A a \in Adverts, day \in Int :
          a # b \/ sweep[s].now # day => (SweptAsOf(a, day)' => SweptAsOf(a, day))
    BY <2>2, <2>3 DEF SweptAsOf
  <2>5. /\ advert'[b] = row
        /\ \A a \in Adverts : a # b => advert'[a] = advert[a]
    BY <2>1 DEF Updates, Typed
  <2> SUFFICES ASSUME Undisturbed', ~missed', NEW a \in Adverts
               PROVE  Scheduled(a)' /\ Counted(a)'
    BY DEF Daily
  <2>6. Undisturbed /\ Scheduled(a) /\ Counted(a)
    BY <2>2 DEF Undisturbed, Daily
  <2>7. CASE a # b
    <3>1. (\A day \in Int : SweptAsOf(a, day)' => SweptAsOf(a, day)) /\ advert'[a] = advert[a]
      BY <2>4, <2>5, <2>7
    <3>2. advert[a].published + LiveDays - 1 \in Int
      BY RowFacts, PolicyAssumption DEF Typed
    <3> QED
      BY <2>2, <2>6, <3>1, <3>2 DEF Scheduled, Counted
  <2>8. CASE a = b
    <3>1. sweep[s].snap[b] = advert[a]
      BY <2>3, <2>6, <2>8 DEF Undisturbed, Alone, UpToDate
    <3>2. PICK now : now = sweep[s].now
      OBVIOUS
    <3>3. /\ now \in Int /\ today \in Int /\ advert[a] \in Rows
          /\ advert[a].status \notin Gone \cup {"NONE"}
      BY <2>3, <3>1, <3>2 DEF Typed, Sound, SweepSound, SweepRecords
    <3>4. SweptAs(advert[a], now, row)
      BY <2>1, <3>1, <3>2 DEF Updates
    <3>5. /\ row.published = advert[a].published /\ row.sent = advert[a].sent \cup Due(advert[a], now)
          /\ row.status # "SCHEDULED" /\ NewStatus(advert[a], now) # "keep"
          /\ row.published \in Int /\ LiveDays \in Nat \ {0}
      BY <3>3, <3>4, RowFacts, PolicyAssumption DEF SweptAs
    <3>6. Scheduled(a)'
      BY <2>5, <2>8, <3>5 DEF Scheduled
    <3>9. ASSUME entered'[a] = "in time", today' >= row.published + LiveDays
          PROVE  AlertDays \subseteq row.sent
      <4>1. entered[a] = "in time" /\ today >= advert[a].published + LiveDays
        BY <2>2, <3>5, <3>9
      <4>2. AlertDays \subseteq advert[a].sent
        BY <2>6, <3>3, <4>1 DEF Counted
      <4> QED
        BY <3>5, <4>2
    <3>10. ASSUME entered'[a] = "in time", SweptAsOf(a, row.published + LiveDays - 1)'
           PROVE  AlertDays \subseteq row.sent
      <4>0. PICK last \in Int : last = row.published + LiveDays - 1
        BY <3>5
      <4>1. CASE now = last
        <5>1. now <= today \/ (swept /\ now = today + 1)
          <6>1. SweptAsOf(a, now)'
            BY <3>10, <4>0, <4>1
          <6>2. now <= today \/ now = today \/ (swept /\ now = today + 1)
            BY <2>2, <6>1 DEF SweptAsOf
          <6> QED
            BY <3>3, <6>2
        <5>2. advert[a].status = "SCHEDULED" =>
                today <= row.published /\ (swept => today < row.published)
          BY <2>6, <3>3, <3>5 DEF Scheduled, SweptAsOf
        <5>3. advert[a].status = "SCHEDULED" => now <= advert[a].published
          BY <3>3, <3>5, <5>1, <5>2
        <5> QED
          BY <3>3, <3>5, <4>0, <4>1, <5>3, DueCounted
      <4>2. CASE now # last
        <5>1. SweptAsOf(a, last)
          BY <2>4, <3>2, <3>10, <4>0, <4>2
        <5>2. entered[a] = "in time" /\ last = advert[a].published + LiveDays - 1
          BY <2>2, <3>5, <3>10, <4>0
        <5>3. AlertDays \subseteq advert[a].sent
          BY <2>6, <3>3, <5>1, <5>2 DEF Counted
        <5> QED
          BY <3>5, <5>3
      <4> QED
        BY <4>1, <4>2
    <3>11. Counted(a)'
      BY <2>5, <2>8, <3>9, <3>10 DEF Counted
    <3> QED
      BY <3>6, <3>11
  <2> QED
    BY <2>7, <2>8
<1>4. CASE SweepMedia(s)
  <2>1. PICK new : Goes(s, "index", new)
    BY <1>4, GoEffect DEF SweepMedia
  <2>2. UNCHANGED <<advert, entered, today, missed, swept, overlaps, crashes>> /\ sweep[s].pc = "media"
    BY <1>4 DEF SweepMedia, SweepAt, past
  <2>3. \A a \in Adverts, day \in Int : SweptAsOf(a, day)' => SweptAsOf(a, day)
    BY <2>1, <2>2, SweepGoesOn DEF Goes
  <2> QED
    BY <2>2, <2>3, DailyKept DEF Undisturbed
<1>5. CASE SweepIndex(s)
  <2>0. PICK to \in {"next", "alert"} : to = IF sweep[s].due = {} THEN "next" ELSE "alert"
    OBVIOUS
  <2>1. PICK new : Goes(s, to, new)
    BY <1>5, <2>0, GoEffect DEF SweepIndex
  <2>2. UNCHANGED <<advert, entered, today, missed, swept, overlaps, crashes>> /\ sweep[s].pc = "index"
    BY <1>5 DEF SweepIndex, SweepAt, past
  <2>3. \A a \in Adverts, day \in Int : SweptAsOf(a, day)' => SweptAsOf(a, day)
    BY <2>1, <2>2, SweepGoesOn DEF Goes
  <2> QED
    BY <2>2, <2>3, DailyKept DEF Undisturbed
<1>6. CASE Alert(s)
  <2>1. PICK d, new : Alerts(s, d, new)
    BY <1>6, AlertEffect
  <2>2. UNCHANGED <<advert, entered, today, missed, swept, overlaps, crashes>>
    BY <2>1 DEF Alerts, past
  <2>3. new.pc = "idle" \/ (new.now = sweep[s].now /\ new.todo = sweep[s].todo)
    BY <2>1, Resting DEF Alerts
  <2>4. \A a \in Adverts, day \in Int : SweptAsOf(a, day)' => SweptAsOf(a, day)
    BY <2>1, <2>2, <2>3, SweepGoesOn DEF Alerts
  <2> QED
    BY <2>2, <2>4, DailyKept DEF Undisturbed
<1>7. CASE Complete(s)
  <2>1. PICK new : new = IdleSweep
    OBVIOUS
  <2>2. /\ UNCHANGED <<advert, entered, today, missed, overlaps, crashes>>
        /\ swept' = (swept \/ sweep[s].now = today)
        /\ sweep[s].pc = "next" /\ sweep[s].todo = {}
        /\ sweep' = [sweep EXCEPT ![s] = new] /\ new.pc = "idle"
    BY <1>7, <2>1, Resting DEF Complete, SetSweep, SweepAt, past
  <2>3. sweep'[s] = new /\ \A t \in Sweeps : t # s => sweep'[t] = sweep[t]
    BY <2>2, SweepElsewhere
  <2>4. ASSUME Undisturbed'
        PROVE  \A a \in Adverts, day \in Int : SweptAsOf(a, day)' => SweptAsOf(a, day)
    <3>1. \A t \in Sweeps : sweep'[t].pc = "idle"
      BY <2>2, <2>3, <2>4 DEF Undisturbed, Alone, Single
    <3>2. today \in Int /\ sweep[s].now \in Int
      BY DEF Typed, SweepRecords
    <3>3. ASSUME NEW a \in Adverts, NEW day \in Int, SweptAsOf(a, day)' PROVE SweptAsOf(a, day)
      <4>1. swept' /\ day = today
        BY <2>2, <3>1, <3>3 DEF SweptAsOf
      <4>2. CASE swept
        BY <4>1, <4>2 DEF SweptAsOf
      <4>3. CASE sweep[s].now = today
        <5>1. day <= today /\ sweep[s].now = day /\ a \notin sweep[s].todo /\ sweep[s].pc # "idle"
          BY <2>2, <3>2, <4>1, <4>3
        <5> QED
          BY <5>1 DEF SweptAsOf
      <4> QED
        BY <2>2, <4>1, <4>2, <4>3
    <3> QED
      BY <3>3
  <2> QED
    BY <2>2, <2>4, DailyKept DEF Undisturbed
<1> QED
  BY <1>1, <1>2, <1>3, <1>4, <1>5, <1>6, <1>7 DEF SweepStep

(* A day goes by: it was swept, or one is missed. *)
LEMMA TickDaily ==
    ASSUME Typed, Daily, Tick
    PROVE  Daily'
<1> SUFFICES ASSUME Undisturbed', ~missed', NEW a \in Adverts
             PROVE  Scheduled(a)' /\ Counted(a)'
  BY DEF Daily
<1>1. /\ UNCHANGED <<advert, entered, sweep, overlaps, crashes>>
      /\ today' = today + 1 /\ swept' = FALSE /\ swept /\ ~missed
  BY DEF Tick
<1>2. Scheduled(a) /\ Counted(a)
  BY <1>1 DEF Undisturbed, Daily
<1>3. today \in Int /\ advert[a].published \in Int /\ LiveDays \in Nat
  BY RowFacts, PolicyAssumption DEF Typed
<1>4. SweptAsOf(a, today)
  BY <1>1 DEF SweptAsOf
<1>5. \A day \in Int : SweptAsOf(a, day)' => SweptAsOf(a, day)
  BY <1>1, <1>3 DEF SweptAsOf
<1>6. Scheduled(a)'
  BY <1>1, <1>2, <1>3, <1>4, <1>5 DEF Scheduled
<1>7. Counted(a)'
  <2>1. PICK last \in Int : last = advert[a].published + LiveDays - 1
    BY <1>3
  <2>2. today + 1 >= advert[a].published + LiveDays =>
          today >= advert[a].published + LiveDays \/ today = last
    BY <1>3, <2>1
  <2> QED
    BY <1>1, <1>2, <1>4, <1>5, <2>1, <2>2 DEF Counted
<1> QED
  BY <1>6, <1>7

LEMMA DailyStep == Typed /\ Sound /\ Alone /\ Daily /\ [Next]_vars => Daily'
<1> SUFFICES ASSUME Typed, Sound, Alone, Daily, [Next]_vars PROVE Daily'
  OBVIOUS
<1>1. CASE UNCHANGED vars
  <2>1. \A a \in Adverts, day \in Int : SweptAsOf(a, day)' => SweptAsOf(a, day)
    BY <1>1 DEF vars, SweptAsOf
  <2> QED
    BY <1>1, <2>1, DailyKept DEF vars, Undisturbed
<1>2. CASE Tick
  BY <1>2, TickDaily
<1>3. CASE Crash
  <2>1. crashes' # 0
    BY <1>3 DEF Crash, Typed
  <2> QED
    BY <2>1 DEF Daily, Undisturbed
<1> QED
  BY <1>1, <1>2, <1>3, CallsDaily, SweepsDaily DEF Next
-----------------------------------------------------------------------------
(* The invariant, and what follows from it.                                *)

LEMMA InitRest == Init => FilesFollow /\ Alone /\ Indexed /\ Alerted /\ Daily
<1> SUFFICES ASSUME Init PROVE FilesFollow /\ Alone /\ Indexed /\ Alerted /\ Daily
  OBVIOUS
<1>1. /\ \A a \in Adverts : advert[a].status = "NONE" /\ advert[a].sent = {}
      /\ \A c \in Calls : call[c].pc = "idle"
      /\ \A s \in Sweeps : sweep[s].pc = "idle"
  BY Resting DEF Init
<1>2. FilesFollow
  BY <1>1 DEF FilesFollow, Gone
<1>3. Alone
  BY <1>1 DEF Alone, Single, UpToDate
<1>4. \A a \in Adverts : Entry(advert[a]) = NotIndexed
  BY <1>1 DEF Entry
<1>5. Indexed
  BY <1>4 DEF Init, Indexed
<1>6. alerts = {}
  BY DEF Init
<1>7. Alerted
  BY <1>1, <1>6 DEF Alerted, AlertsOf, Sending
<1>8. Daily
  BY <1>1 DEF Daily, Scheduled, Counted
<1> QED
  BY <1>2, <1>3, <1>5, <1>7, <1>8

(* The invariant that the properties rest on holds. *)
THEOREM AdvertsInvariant == Spec => []IInv
<1>1. Init => IInv
  BY InitTyped, InitRest DEF IInv
<1>2. IInv /\ [Next]_vars => IInv'
  <2> SUFFICES ASSUME IInv, [Next]_vars PROVE IInv'
    OBVIOUS
  <2>1. Typed /\ Sound /\ FilesFollow /\ Alone /\ Indexed /\ Alerted /\ Daily
    BY DEF IInv
  <2>2. Typed' /\ Sound'
    BY <2>1, TypedStep
  <2>3. FilesFollow' /\ Alone' /\ Indexed' /\ Alerted' /\ Daily'
    BY <2>1, FilesStep, AloneStep, IndexedStep, AlertedStep, DailyStep
  <2> QED
    BY <2>2, <2>3 DEF IInv
<1> QED
  BY <1>1, <1>2, PTL DEF Spec

LEMMA EntryFacts ==
    ASSUME NEW row \in Rows
    PROVE  /\ Entry(row).status = "SCHEDULED" =>
                 row.status = "SCHEDULED" /\ Entry(row).published = row.published
           /\ Entry(row).status \in {"LIVE", "RENEWAL_DUE"} => row.status = Entry(row).status
<1>1. CASE row.status \in Gone \cup {"NONE"}
  BY <1>1 DEF Entry, NotIndexed
<1>2. CASE row.status \notin Gone \cup {"NONE"}
  BY <1>2 DEF Entry
<1> QED
  BY <1>1, <1>2

(* What a record says is so elsewhere, whatever the adverts, the length of *)
(* the period, the alert days and the dates: the alerts it counts are sent *)
(* and the index is as it says, of operations that come one at a time and  *)
(* finish; the files of an advert that is gone are archived, in whatever   *)
(* order the operations of the sweep and the tenants overlap.              *)
THEOREM RecordKept == Spec => []RecordAgrees
<1>1. IInv => RecordAgrees
  <2> SUFFICES ASSUME IInv PROVE AlertsSent /\ IndexAgrees /\ GoneMediaArchived
    BY DEF RecordAgrees
  <2>1. Typed /\ FilesFollow /\ Indexed /\ Alerted
    BY DEF IInv
  <2>2. Quiet => \A a \in Adverts : ~Archiving(a) /\ ~Indexing(a) /\ \A s \in Sweeps : ~Sending(s, a)
    BY DEF Quiet, Archiving, Indexing, Sending
  <2>3. GoneMediaArchived
    BY <2>1, <2>2 DEF GoneMediaArchived, FilesFollow
  <2>4. AlertsSent
    BY <2>1, <2>2 DEF AlertsSent, Alerted, AlertsOf
  <2>5. IndexAgrees
    <3> SUFFICES ASSUME Quiet, Undisturbed, NEW a \in Adverts
                 PROVE  /\ index[a] = Entry(advert[a])
                        /\ Discoverable(a) =>
                              /\ advert[a].status # "PAUSED"
                              /\ advert[a].status = "SCHEDULED" => advert[a].published <= today
      BY DEF IndexAgrees
    <3>1. index[a] = Entry(advert[a])
      BY <2>1, <2>2 DEF Indexed
    <3>2. PICK row \in Rows : row = advert[a]
      BY <2>1 DEF Typed
    <3>3. PICK e : e = Entry(row)
      OBVIOUS
    <3>4. /\ e.status = "SCHEDULED" => row.status = "SCHEDULED" /\ e.published = row.published
          /\ e.status \in {"LIVE", "RENEWAL_DUE"} => row.status = e.status
      BY <3>3, EntryFacts
    <3>5. row.published \in Int /\ today \in Int
      BY <2>1, RowFacts DEF Typed
    <3>6. index[a] = e
      BY <3>1, <3>2, <3>3
    <3>7. ASSUME Discoverable(a)
          PROVE  row.status # "PAUSED" /\ (row.status = "SCHEDULED" => row.published <= today)
      <4>1. \/ e.status \in {"LIVE", "RENEWAL_DUE"}
            \/ e.status = "SCHEDULED" /\ ~(today < e.published)
        BY <3>6, <3>7 DEF Discoverable, IsScheduled
      <4> QED
        BY <3>4, <3>5, <4>1
    <3> QED
      BY <3>1, <3>2, <3>7
  <2> QED
    BY <2>3, <2>4, <2>5
<1> QED
  BY <1>1, AdvertsInvariant, PTL

(* The steps that change a record. *)
LEMMA WhoChanges ==
    ASSUME Typed, Sound, [Next]_vars
    PROVE  \/ UNCHANGED advert
           \/ \E c \in Calls : \E row, new : Write(c) /\ Writes(c, row, new)
           \/ \E s \in Sweeps : \E b, row, new : Updates(s, b, row, new)
<1>1. CASE \E c \in Calls : Write(c)
  BY <1>1, WriteEffect
<1>2. CASE \E s \in Sweeps : Update(s)
  BY <1>2, UpdateEffect
<1>3. CASE UNCHANGED vars \/ Tick \/ Crash
  BY <1>3 DEF vars, Tick, Crash
<1>4. CASE \E c \in Calls : Read(c) \/ Attach(c) \/ ArchiveMedia(c) \/ SyncIndex(c)
  BY <1>4 DEF Read, Attach, ArchiveMedia, SyncIndex
<1>5. CASE \E s \in Sweeps : \/ List(s) \/ ListDated(s) \/ Keep(s) \/ SweepMedia(s)
                             \/ SweepIndex(s) \/ Alert(s) \/ Complete(s)
  BY <1>5 DEF List, ListDated, ListAt, Keep, SweepMedia, SweepIndex, Alert, Complete
<1> QED
  BY <1>1, <1>2, <1>3, <1>4, <1>5 DEF Next, CallStep, SweepStep

(* An advert has expired by the date that this sweep was given. *)
ExpiredFor(s, a) == sweep[s].pc # "idle" /\ sweep[s].now >= advert[a].published + LiveDays

(* What a sweep that was not overtaken deletes has expired, and it ends no *)
(* pause.                                                                  *)
LEMMA UpdateJust ==
    ASSUME IInv, NEW s \in Sweeps, NEW b, NEW row, NEW new, Updates(s, b, row, new),
           overlaps = 0
    PROVE  /\ b \in Adverts /\ advert'[b] = row
           /\ \A a \in Adverts : a # b => advert'[a] = advert[a]
           /\ row.status = "AUTO_DELETED" => ExpiredFor(s, b)
           /\ advert[b].status = "PAUSED" => row.status \in {"PAUSED"} \cup Gone
           /\ advert[b].status \notin Gone \cup {"NONE"}
           /\ \A t \in Sweeps, a \in Adverts : ~Sending(t, a)
<1>1. Typed /\ Sound /\ Alone
  BY DEF IInv
<1>2. /\ sweep[s].pc = "next" /\ b \in sweep[s].todo /\ b \in Adverts
      /\ SweptAs(sweep[s].snap[b], sweep[s].now, row)
      /\ advert' = [advert EXCEPT ![b] = row]
  BY DEF Updates
<1>3. sweep[s].snap[b] = advert[b]
  BY <1>1, <1>2 DEF Alone, UpToDate
<1>4. PICK now : now = sweep[s].now
  OBVIOUS
<1>5. /\ now \in Int /\ advert[b] \in Rows
      /\ advert[b].status \notin Gone \cup {"NONE"}
  BY <1>1, <1>2, <1>3, <1>4 DEF Typed, Sound, SweepSound, SweepRecords
<1>6. SweptAs(advert[b], now, row)
  BY <1>2, <1>3, <1>4
<1>7. row.status = "AUTO_DELETED" => ExpiredFor(s, b)
  BY <1>2, <1>4, <1>5, <1>6 DEF SweptAs, ExpiredFor
<1>8. advert[b].status = "PAUSED" => row.status \in {"PAUSED"} \cup Gone
  BY <1>6 DEF SweptAs, Gone
<1>9. advert'[b] = row /\ \A a \in Adverts : a # b => advert'[a] = advert[a]
  BY <1>1, <1>2 DEF Typed
<1>10. \A t \in Sweeps, a \in Adverts : ~Sending(t, a)
  BY <1>1, <1>2 DEF Alone, Single, Sending
<1> QED
  BY <1>2, <1>5, <1>7, <1>8, <1>9, <1>10

(* The same of a tenant's call, but for a renewal. *)
LEMMA WriteJust ==
    ASSUME IInv, NEW c \in Calls, NEW row, NEW new, Writes(c, row, new), overlaps = 0
    PROVE  LET a == call[c].advert IN
           /\ a \in Adverts /\ advert'[a] = row
           /\ \A b \in Adverts : b # a => advert'[b] = advert[b]
           /\ call[c].op # "renew" => /\ row.status = "AUTO_DELETED" => advert[a].status = "NONE"
                                      /\ advert[a].status = "PAUSED" => row.status \in {"PAUSED"} \cup Gone
           /\ row.status = "AUTO_DELETED" => entered'[a] # "in time"
<1>1. Typed /\ Sound /\ Alone
  BY DEF IInv
<1>2. PICK k : k = call[c]
  OBVIOUS
<1>3. /\ k.pc = "write" /\ k.advert \in Adverts /\ WrittenAs(k, row) /\ CallSound(k)
      /\ advert' = [advert EXCEPT ![k.advert] = row]
      /\ k.op \in {"publish", "renew"} =>
            entered' = [entered EXCEPT ![k.advert] = Entered(row.published)]
  BY <1>1, <1>2 DEF Writes, Sound
<1>4. k.op \in {"publish", "pause", "archive", "renew", "boost", "addMedia"}
  BY <1>3, OpsAssumption DEF CallSound
<1>5. k.row = advert[k.advert]
  BY <1>1, <1>2, <1>3 DEF Alone, UpToDate
<1>6. /\ advert'[k.advert] = row
      /\ \A b \in Adverts : b # k.advert => advert'[b] = advert[b]
  BY <1>1, <1>3 DEF Typed
<1>7. k.op # "renew" => /\ row.status = "AUTO_DELETED" => advert[k.advert].status = "NONE"
                        /\ advert[k.advert].status = "PAUSED" => row.status \in {"PAUSED"} \cup Gone
  BY <1>3, <1>4, <1>5 DEF WrittenAs, CallSound, Gone
<1>8. row.status = "AUTO_DELETED" => entered'[k.advert] # "in time"
  <2> SUFFICES ASSUME row.status = "AUTO_DELETED" PROVE entered'[k.advert] # "in time"
    OBVIOUS
  <2>1. k.op \in {"publish", "renew"}
    BY <1>3 DEF WrittenAs
  <2>2. today >= row.published + LiveDays
    BY <1>3, <2>1 DEF WrittenAs
  <2>3. Entered(row.published) = "over"
    BY <1>1, <1>3, <2>2, EnteredFacts, RowFacts DEF Typed, WrittenAs
  <2>4. entered'[k.advert] = "over"
    BY <1>1, <1>3, <2>1, <2>3 DEF Typed
  <2> QED
    BY <2>4
<1> QED
  BY <1>2, <1>3, <1>6, <1>7, <1>8

(* The lifecycle warns before it deletes, and undoes no tenant's decision: *)
(* without a day missed, no advert entered in time is deleted before all   *)
(* its alerts but by a sweep dated ahead; and of operations that come one  *)
(* at a time, only a renewal ends a pause, and only a renewal or a sweep   *)
(* given a date on which it will have expired deletes an advert.           *)
THEOREM SweepJust == Spec => SweepIsJust
<1>1. ASSUME IInv, [Next]_vars, Undisturbed, ~missed, ~DatedAhead, NEW a \in Adverts,
             Deletes(a), FirstPeriod(a), entered'[a] = "in time"
      PROVE  \A d \in AlertDays : Warned(a, d)
  <2>1. /\ Typed /\ Sound /\ overlaps = 0 /\ Alerted /\ Daily
        /\ advert[a].status # "AUTO_DELETED" /\ advert'[a].status = "AUTO_DELETED"
    BY <1>1 DEF IInv, Undisturbed, Deletes
  <2>2. CASE \E c \in Calls : \E row, new : Writes(c, row, new)
    <3>1. PICK c \in Calls : \E row, new : Writes(c, row, new)
      BY <2>2
    <3>2. PICK row, new : Writes(c, row, new)
      BY <3>1
    <3> QED
      BY <1>1, <2>1, <3>2, WriteJust
  <2>3. CASE \E s \in Sweeps : \E b, row, new : Updates(s, b, row, new)
    <3>1. PICK s \in Sweeps : \E b, row, new : Updates(s, b, row, new)
      BY <2>3
    <3>2. PICK b, row, new : Updates(s, b, row, new)
      BY <3>1
    <3>3. /\ advert'[b] = row /\ \A c \in Adverts : c # b => advert'[c] = advert[c]
          /\ row.status = "AUTO_DELETED" => ExpiredFor(s, b)
          /\ advert[b].status \notin Gone \cup {"NONE"}
          /\ \A t \in Sweeps, c \in Adverts : ~Sending(t, c)
      BY <1>1, <2>1, <3>2, UpdateJust
    <3>4. /\ ExpiredFor(s, a)
          /\ advert[a].status \notin Gone \cup {"NONE"}
          /\ \A t \in Sweeps : ~Sending(t, a)
      <4>1. a = b
        BY <2>1, <3>3
      <4>2. row.status = "AUTO_DELETED"
        BY <2>1, <3>3, <4>1
      <4> QED
        BY <3>3, <4>1, <4>2
    <3>5. UNCHANGED entered
      BY <3>2 DEF Updates, past
    <3>6. sweep'[s] # sweep[s]
      <4>1. sweep'[s] = new /\ sweep[s].pc = "next"
        BY <2>1, <3>2, SweepElsewhere DEF Updates
      <4>2. new.pc # "next"
        BY <3>2 DEF Updates
      <4> QED
        BY <4>1, <4>2
    <3>7. today >= advert[a].published + LiveDays
      <4>1. ~(sweep[s].now > today)
        BY <1>1, <3>6 DEF DatedAhead
      <4>2. /\ today \in Int /\ advert[a].published \in Int /\ LiveDays \in Nat
            /\ sweep[s].now \in Int
        BY <2>1, RowFacts, PolicyAssumption DEF Typed, SweepRecords
      <4> QED
        BY <3>4, <4>1, <4>2 DEF ExpiredFor
    <3>8. AlertDays \subseteq advert[a].sent
      BY <1>1, <2>1, <3>4, <3>5, <3>7 DEF Daily, Counted
    <3> QED
      BY <1>1, <2>1, <3>4, <3>8 DEF Alerted, AlertsOf
  <2> QED
    BY <1>1, <2>1, <2>2, <2>3, WhoChanges
<1>2. ASSUME IInv, [Next]_vars, overlaps' = 0, NEW a \in Adverts, ~Renews(a)
      PROVE  /\ Deletes(a) => Expired(a)
             /\ advert[a].status = "PAUSED" => advert'[a].status \in {"PAUSED"} \cup Gone
  <2>1. Typed /\ Sound
    BY <1>2 DEF IInv
  <2>2. CASE UNCHANGED advert
    BY <2>2 DEF Deletes
  <2>3. CASE \E c \in Calls : \E row, new : Write(c) /\ Writes(c, row, new)
    <3>1. PICK c \in Calls : \E row, new : Write(c) /\ Writes(c, row, new)
      BY <2>3
    <3>2. PICK row, new : Write(c) /\ Writes(c, row, new)
      BY <3>1
    <3>3. overlaps = 0
      BY <1>2, <3>2 DEF Writes
    <3>4. a = call[c].advert => call[c].op # "renew"
      BY <1>2, <3>2 DEF Renews
    <3> QED
      BY <1>2, <3>2, <3>3, <3>4, WriteJust DEF Deletes
  <2>4. CASE \E s \in Sweeps : \E b, row, new : Updates(s, b, row, new)
    <3>1. PICK s \in Sweeps : \E b, row, new : Updates(s, b, row, new)
      BY <2>4
    <3>2. PICK b, row, new : Updates(s, b, row, new)
      BY <3>1
    <3>3. overlaps = 0
      BY <1>2, <3>2 DEF Updates, past
    <3> QED
      BY <1>2, <3>2, <3>3, UpdateJust DEF Deletes, Expired, ExpiredFor
  <2> QED
    BY <1>2, <2>1, <2>2, <2>3, <2>4, WhoChanges
<1>3. IInv /\ [Next]_vars =>
        [Undisturbed /\ ~missed /\ ~DatedAhead => \A a \in Adverts :
            Deletes(a) /\ FirstPeriod(a) /\ entered'[a] = "in time" =>
                \A d \in AlertDays : Warned(a, d)]_vars
  BY <1>1
<1>4. IInv /\ [Next]_vars =>
        [overlaps' = 0 => \A a \in Adverts : ~Renews(a) =>
            /\ Deletes(a) => Expired(a)
            /\ advert[a].status = "PAUSED" => advert'[a].status \in {"PAUSED"} \cup Gone]_vars
  BY <1>2
<1>5. Spec => DeletedWarnedOnce
  BY <1>3, AdvertsInvariant, PTL DEF Spec, DeletedWarnedOnce
<1>6. Spec => SweepRespectsTenants
  BY <1>4, AdvertsInvariant, PTL DEF Spec, SweepRespectsTenants
<1> QED
  BY <1>5, <1>6 DEF SweepIsJust

-----------------------------------------------------------------------------
(* Drafts: files in a position that another of their owner has.  An upload *)
(* that goes by an old list may add one, and a copy repeats those of its   *)
(* source; each takes the place of a request that overlapped.  What a      *)
(* duplication will copy is not known until it lists, and its source may   *)
(* itself be a copy in progress: so there is a bound W for each owner,     *)
(* which grows along the rank, and not only the count itself.              *)

PossibleOwners == {OfDraft(d) : d \in Drafts} \cup {OfPost(n) : n \in Nat \ {0}}
DraftRows == [status : {"NONE", "DRAFT", "PUBLISHED"}, content : Contents \cup {"none"}]
FileRecords == [owner : PossibleOwners, order : 0..(MaxItems - 1), upload : Nat,
                status : {"READY_FOR_PREVIEW", "LIVE"}]
RequestRecords ==
    [pc : {"idle", "create", "read", "save", "list", "attach", "version", "publish",
           "copy", "files", "each"},
     op : {"none", "update", "media", "publish", "duplicate"},
     owner : PossibleOwners \cup {<<>>}, row : DraftRows,
     listed : SUBSET FileRecords, version : Nat \cup Drafts]

(* The files F of an owner, and their positions. *)
Held(F, o) == {f \in F : f.owner = o}
Count(F, o) == Cardinality(Held(F, o))
Used(F, o) == Cardinality(OrdersOf(Held(F, o)))

(* Of the requests q: who may still add a file, and who copies into o. *)
Busy(q) == {r \in Requests : q[r].pc \notin {"idle", "save"}}
CopiesInto(k, o) == k.pc \in {"files", "each"} /\ o = OfDraft(k.version)

(* W bounds the files in a position that another has, of each owner; a     *)
(* copy will have at most those of its source.                             *)
CopyBound(W, rank, F, k) ==
    /\ k.pc = "each" =>
          Count(F, OfDraft(k.version)) + Cardinality(k.listed)
             <= Cardinality(OrdersOf(Held(F, OfDraft(k.version))) \cup OrdersOf(k.listed))
                   + W[OfDraft(k.version)]
    /\ k.pc = "files" =>
          /\ Count(F, OfDraft(k.version)) + W[k.owner] <= W[OfDraft(k.version)]
          /\ rank[k.owner] < rank[OfDraft(k.version)]
Bounds(W, rank, F, q, n) ==
    /\ W \in [PossibleOwners -> Nat] /\ rank \in [PossibleOwners -> Nat]
    /\ \A o \in PossibleOwners : /\ W[o] + Cardinality(Busy(q)) <= n + 1
                                 /\ Count(F, o) <= Used(F, o) + W[o]
    /\ \A r \in Requests : CopyBound(W, rank, F, q[r])

(* An upload that goes by a list which is no longer so has been overtaken. *)
Overtaken(F, q, r) ==
    /\ q[r].pc = "attach" /\ q[r].listed # Held(F, q[r].owner)
    /\ \A s \in Requests : ~CopiesInto(q[s], q[r].owner)
Crowded(F, q, n) ==
    /\ \A o \in PossibleOwners : Count(F, o) <= Used(F, o) + n
    /\ \A r \in Requests : Overtaken(F, q, r) =>
          Count(F, q[r].owner) + Cardinality(Busy(q)) <= Used(F, q[r].owner) + n
    /\ \E W, rank : Bounds(W, rank, F, q, n)

(* What is known of files and requests whose crowding is in question. *)
Ready(F, q, n) ==
    /\ n \in Nat /\ IsFiniteSet(F) /\ F \subseteq FileRecords /\ q \in [Requests -> RequestRecords]
    /\ \A r \in Requests :
          /\ q[r].pc # "idle" => q[r].owner \in PossibleOwners
          /\ q[r].pc \in {"files", "each"} => q[r].version \in Drafts
          /\ q[r].pc \in {"attach", "publish", "each"} => q[r].listed \subseteq Held(F, q[r].owner)
    /\ \A r, s \in Requests : 
          q[r].pc \in {"files", "each"} /\ q[s].pc \in {"files", "each"} /\ q[r].version = q[s].version => r = s

(* Drafts and adverts are told apart as owners.                            *)
LEMMA OwnersDiffer ==
    /\ \A d \in Drafts : OfDraft(d) \in PossibleOwners
    /\ \A n \in Nat \ {0} : OfPost(n) \in PossibleOwners
    /\ \A d, e : OfDraft(d) = OfDraft(e) => d = e
    /\ \A d, n : OfDraft(d) # OfPost(n)
BY DEF PossibleOwners, OfDraft, OfPost

(* Files take at most as many positions as there are files.                *)
LEMMA OrdersFinite ==
  ASSUME NEW L, IsFiniteSet(L)
  PROVE  /\ IsFiniteSet(OrdersOf(L)) /\ Cardinality(OrdersOf(L)) \in Nat
         /\ Cardinality(L) \in Nat /\ Cardinality(OrdersOf(L)) <= Cardinality(L)
<1> DEFINE g == [f \in L |-> f.order]
<1>1. g \in Surjection(L, OrdersOf(L))
  BY DEF OrdersOf, Surjection
<1>2. IsFiniteSet(OrdersOf(L)) /\ Cardinality(OrdersOf(L)) <= Cardinality(L)
  BY <1>1, FS_Surjection
<1> QED BY <1>2, FS_CardinalityType

LEMMA HeldFinite ==
  ASSUME NEW F, IsFiniteSet(F), NEW o
  PROVE  /\ IsFiniteSet(Held(F, o)) /\ IsFiniteSet(OrdersOf(Held(F, o)))
         /\ Count(F, o) \in Nat /\ Used(F, o) \in Nat /\ Used(F, o) <= Count(F, o)
<1>1. IsFiniteSet(Held(F, o))
  <2>1. Held(F, o) \in SUBSET F
    BY DEF Held
  <2> QED BY <2>1, FS_Subset
<1>2. IsFiniteSet(OrdersOf(Held(F, o))) /\ Cardinality(OrdersOf(Held(F, o))) <= Cardinality(Held(F, o))
  BY <1>1, OrdersFinite
<1> QED BY <1>1, <1>2, FS_CardinalityType DEF Count, Used

(* One more file. *)
LEMMA FileAdded ==
  ASSUME NEW F, IsFiniteSet(F), NEW g, NEW o
  PROVE  /\ o # g.owner => Held(F \cup {g}, o) = Held(F, o)
         /\ Held(F \cup {g}, g.owner) = Held(F, g.owner) \cup {g}
         /\ OrdersOf(Held(F \cup {g}, g.owner)) = OrdersOf(Held(F, g.owner)) \cup {g.order}
         /\ Count(F \cup {g}, g.owner) <= Count(F, g.owner) + 1
         /\ Used(F \cup {g}, g.owner) >= Used(F, g.owner)
         /\ g.order \notin OrdersOf(Held(F, g.owner)) => Used(F \cup {g}, g.owner) = Used(F, g.owner) + 1
<1>1. o # g.owner => Held(F \cup {g}, o) = Held(F, o)
  BY DEF Held
<1>2. Held(F \cup {g}, g.owner) = Held(F, g.owner) \cup {g}
  BY DEF Held
<1>3. OrdersOf(Held(F, g.owner) \cup {g}) = OrdersOf(Held(F, g.owner)) \cup {g.order}
  BY DEF OrdersOf
<1>4. IsFiniteSet(Held(F, g.owner)) /\ IsFiniteSet(OrdersOf(Held(F, g.owner)))
      /\ Count(F, g.owner) \in Nat /\ Used(F, g.owner) \in Nat
  BY HeldFinite
<1>5. Count(F \cup {g}, g.owner) <= Count(F, g.owner) + 1
  <2>1. Cardinality(Held(F, g.owner) \cup {g}) = IF g \in Held(F, g.owner) THEN Cardinality(Held(F, g.owner))
                                                  ELSE Cardinality(Held(F, g.owner)) + 1
    BY <1>4, FS_AddElement
  <2>2. Count(F \cup {g}, g.owner) = Cardinality(Held(F, g.owner) \cup {g})
    BY <1>2 DEF Count
  <2> HIDE DEF Held
  <2> QED BY <2>1, <2>2, <1>4 DEF Count
<1>6. Used(F \cup {g}, g.owner) = IF g.order \in OrdersOf(Held(F, g.owner)) THEN Used(F, g.owner)
                                  ELSE Used(F, g.owner) + 1
  <2> DEFINE P == OrdersOf(Held(F, g.owner))
  <2>1. Cardinality(P \cup {g.order}) = IF g.order \in P THEN Cardinality(P) ELSE Cardinality(P) + 1
    BY <1>4, FS_AddElement
  <2>2. OrdersOf(Held(F \cup {g}, g.owner)) = P \cup {g.order}
    BY <1>2, <1>3
  <2> QED BY <2>1, <2>2 DEF Used
<1>7. OrdersOf(Held(F \cup {g}, g.owner)) = OrdersOf(Held(F, g.owner)) \cup {g.order}
  BY <1>2, <1>3
<1>8. /\ Used(F \cup {g}, g.owner) >= Used(F, g.owner)
      /\ g.order \notin OrdersOf(Held(F, g.owner)) => Used(F \cup {g}, g.owner) = Used(F, g.owner) + 1
  BY <1>4, <1>6
<1> QED BY <1>1, <1>2, <1>5, <1>7, <1>8

(* A part of some files has no more in each other's positions than all.    *)
LEMMA PartOfFiles ==
  ASSUME NEW H, IsFiniteSet(H), NEW L \in SUBSET H
  PROVE  /\ IsFiniteSet(L)
         /\ Cardinality(L) + Cardinality(OrdersOf(H)) <= Cardinality(H) + Cardinality(OrdersOf(L))
<1>1. IsFiniteSet(L) /\ IsFiniteSet(H \ L) /\ Cardinality(H \ L) = Cardinality(H) - Cardinality(L)
  <2>1. H \cap L = L
    OBVIOUS
  <2>2. IsFiniteSet(L)
    BY FS_Subset
  <2>3. IsFiniteSet(H \ L) /\ Cardinality(H \ L) = Cardinality(H) - Cardinality(H \cap L)
    BY FS_Difference
  <2> QED BY <2>1, <2>2, <2>3
<1>2. OrdersOf(H) = OrdersOf(L) \cup OrdersOf(H \ L)
  BY DEF OrdersOf
<1>3. /\ IsFiniteSet(OrdersOf(L)) /\ IsFiniteSet(OrdersOf(H \ L))
      /\ Cardinality(OrdersOf(L)) \in Nat /\ Cardinality(OrdersOf(H \ L)) \in Nat
      /\ Cardinality(OrdersOf(H \ L)) <= Cardinality(H \ L)
      /\ Cardinality(H) \in Nat /\ Cardinality(L) \in Nat
  BY <1>1, OrdersFinite
<1>4. IsFiniteSet(OrdersOf(L) \cap OrdersOf(H \ L)) /\ Cardinality(OrdersOf(L) \cap OrdersOf(H \ L)) \in Nat
  BY <1>3, FS_Intersection, FS_CardinalityType
<1>5. Cardinality(OrdersOf(H)) <= Cardinality(OrdersOf(L)) + Cardinality(OrdersOf(H \ L))
  <2>1. Cardinality(OrdersOf(H)) = Cardinality(OrdersOf(L)) + Cardinality(OrdersOf(H \ L))
                                     - Cardinality(OrdersOf(L) \cap OrdersOf(H \ L))
    BY <1>2, <1>3, FS_Union
  <2> QED BY <2>1, <1>3, <1>4
<1>6. Cardinality(OrdersOf(H)) \in Nat
  BY OrdersFinite
<1> QED BY <1>1, <1>3, <1>5, <1>6

(* A union of positions is at most their sum, and at least each.           *)
LEMMA TogetherAtMost ==
  ASSUME NEW A, NEW B, IsFiniteSet(A), IsFiniteSet(B)
  PROVE  /\ IsFiniteSet(A \cup B) /\ Cardinality(A \cup B) \in Nat
         /\ Cardinality(A \cup B) <= Cardinality(A) + Cardinality(B)
         /\ Cardinality(A) <= Cardinality(A \cup B) /\ Cardinality(B) <= Cardinality(A \cup B)
         /\ Cardinality(A) \in Nat /\ Cardinality(B) \in Nat
<1>1. IsFiniteSet(A \cup B) /\ IsFiniteSet(A \cap B)
      /\ Cardinality(A \cup B) = Cardinality(A) + Cardinality(B) - Cardinality(A \cap B)
  BY FS_Union, FS_Intersection
<1>2. /\ Cardinality(A \cup B) \in Nat /\ Cardinality(A \cap B) \in Nat
      /\ Cardinality(A) \in Nat /\ Cardinality(B) \in Nat
  BY <1>1, FS_CardinalityType
<1>3. Cardinality(A) <= Cardinality(A \cup B) /\ Cardinality(B) <= Cardinality(A \cup B)
  BY <1>1, FS_Subset
<1> QED BY <1>1, <1>2, <1>3

(* How many requests may add a file, when one goes on.                     *)
LEMMA BusyMoves ==
  ASSUME NEW q \in [Requests -> RequestRecords], NEW r \in Requests, NEW k \in RequestRecords
  PROVE  /\ IsFiniteSet(Busy(q)) /\ Cardinality(Busy(q)) \in Nat
         /\ Cardinality(Busy([q EXCEPT ![r] = k])) \in Nat
         /\ k.pc \in {"idle", "save"} /\ q[r].pc \notin {"idle", "save"} =>
               Cardinality(Busy([q EXCEPT ![r] = k])) + 1 = Cardinality(Busy(q))
         /\ k.pc \in {"idle", "save"} /\ q[r].pc \in {"idle", "save"} =>
               Cardinality(Busy([q EXCEPT ![r] = k])) = Cardinality(Busy(q))
         /\ k.pc \notin {"idle", "save"} /\ q[r].pc \notin {"idle", "save"} =>
               Cardinality(Busy([q EXCEPT ![r] = k])) = Cardinality(Busy(q))
         /\ k.pc \notin {"idle", "save"} /\ q[r].pc \in {"idle", "save"} =>
               Cardinality(Busy([q EXCEPT ![r] = k])) = Cardinality(Busy(q)) + 1
<1>1. IsFiniteSet(Busy(q)) /\ Busy(q) \subseteq Requests
  <2>1. Busy(q) \in SUBSET Requests
    BY DEF Busy
  <2> QED BY <2>1, FS_Subset, DraftsAssumption
<1>2. CASE k.pc \in {"idle", "save"}
  <2>1. Busy([q EXCEPT ![r] = k]) = Busy(q) \ {r}
    BY <1>2 DEF Busy
  <2>2. r \in Busy(q) <=> q[r].pc \notin {"idle", "save"}
    BY DEF Busy
  <2>3. Cardinality(Busy(q)) \in Nat /\ Cardinality(Busy(q) \ {r}) \in Nat
    BY <1>1, FS_RemoveElement, FS_CardinalityType
  <2>4. Cardinality(Busy(q) \ {r}) = IF r \in Busy(q) THEN Cardinality(Busy(q)) - 1 ELSE Cardinality(Busy(q))
    BY <1>1, FS_RemoveElement
  <2> DEFINE b == Cardinality(Busy(q))   c == Cardinality(Busy([q EXCEPT ![r] = k]))
  <2>5. b \in Nat /\ c \in Nat /\ c = IF q[r].pc \notin {"idle", "save"} THEN b - 1 ELSE b
    BY <2>1, <2>2, <2>3, <2>4
  <2> HIDE DEF b, c
  <2>6. /\ q[r].pc \notin {"idle", "save"} => c + 1 = b
        /\ q[r].pc \in {"idle", "save"} => c = b
    BY <2>5
  <2> QED BY <1>1, <1>2, <2>5, <2>6 DEF b, c
<1>3. CASE k.pc \notin {"idle", "save"}
  <2>1. Busy([q EXCEPT ![r] = k]) = Busy(q) \cup {r}
    BY <1>3 DEF Busy
  <2>2. r \in Busy(q) <=> q[r].pc \notin {"idle", "save"}
    BY DEF Busy
  <2> QED BY <1>1, <1>3, <2>1, <2>2, FS_AddElement, FS_CardinalityType
<1> QED BY <1>2, <1>3

(* One request goes on; nobody begins, and no file is added. *)
LEMMA CrowdSettles ==
  ASSUME NEW F, NEW q, NEW n, Ready(F, q, n), Crowded(F, q, n),
         NEW r \in Requests, NEW k \in RequestRecords,
         k.pc \notin {"idle", "save"} => q[r].pc \notin {"idle", "save"},
         k.pc \notin {"files", "each"},
         k.pc = "attach" => k.listed = Held(F, k.owner),
         q[r].pc \in {"files", "each"} => k.pc = "idle"
  PROVE  Crowded(F, [q EXCEPT ![r] = k], n)
<1> DEFINE p == [q EXCEPT ![r] = k]
           b == Cardinality(Busy(q))
           c == Cardinality(Busy(p))
<1>0. n \in Nat /\ IsFiniteSet(F) /\ q \in [Requests -> RequestRecords]
  BY DEF Ready
<1>1. p[r] = k /\ \A s \in Requests \ {r} : p[s] = q[s]
  BY <1>0
<1>2. b \in Nat /\ c \in Nat /\ c <= b /\ (q[r].pc \in {"files", "each"} => c + 1 = b)
  <2>1. b \in Nat /\ c \in Nat
    BY <1>0, BusyMoves
  <2>2. c = b \/ c + 1 = b
    BY <1>0, BusyMoves
  <2>3. q[r].pc \in {"files", "each"} => c + 1 = b
    BY <1>0, BusyMoves
  <2> HIDE DEF b, c
  <2> QED BY <2>1, <2>2, <2>3
<1>3. PICK W, rank : Bounds(W, rank, F, q, n)
  BY DEF Crowded
<1> HIDE DEF p, b, c
<1>4. \A o : Count(F, o) \in Nat /\ Used(F, o) \in Nat
  BY <1>0, HeldFinite
<1>5. Bounds(W, rank, F, p, n)
  <2>1. \A o \in PossibleOwners : W[o] + c <= n + 1 /\ Count(F, o) <= Used(F, o) + W[o]
    <3>1. \A o \in PossibleOwners : W[o] \in Nat /\ W[o] + b <= n + 1 /\ Count(F, o) <= Used(F, o) + W[o]
      BY <1>3 DEF Bounds, b
    <3> QED BY <3>1, <1>0, <1>2
  <2>2. \A s \in Requests : CopyBound(W, rank, F, p[s])
    <3>1. CopyBound(W, rank, F, k)
      BY DEF CopyBound
    <3>2. \A s \in Requests : CopyBound(W, rank, F, q[s])
      BY <1>3 DEF Bounds
    <3> QED BY <3>1, <3>2, <1>1
  <2>3. W \in [PossibleOwners -> Nat] /\ rank \in [PossibleOwners -> Nat]
    BY <1>3 DEF Bounds
  <2> QED BY <2>1, <2>2, <2>3 DEF Bounds, c
<1>6. ASSUME NEW s \in Requests, Overtaken(F, p, s)
      PROVE  Count(F, p[s].owner) + c <= Used(F, p[s].owner) + n
  <2>1. s # r /\ p[s] = q[s]
    BY <1>1, <1>6 DEF Overtaken
  <2>2. PICK o : o = q[s].owner
    OBVIOUS
  <2>3. CASE Overtaken(F, q, s)
    <3>1. Count(F, o) + b <= Used(F, o) + n
      BY <2>2, <2>3 DEF Crowded, b
    <3> QED BY <3>1, <2>1, <2>2, <1>0, <1>2, <1>4
  <2>4. CASE ~Overtaken(F, q, s)
    <3>1. PICK t \in Requests : CopiesInto(q[t], o)
      BY <2>1, <2>2, <2>4, <1>6 DEF Overtaken
    <3>2. t = r
      BY <3>1, <1>1, <1>6, <2>1, <2>2 DEF Overtaken
    <3>3. c + 1 = b
      BY <3>1, <3>2, <1>2 DEF CopiesInto
    <3>4. o \in PossibleOwners
      BY <2>1, <2>2, <1>6 DEF Overtaken, Ready
    <3>5. W[o] \in Nat /\ W[o] + b <= n + 1 /\ Count(F, o) <= Used(F, o) + W[o]
      BY <3>4, <1>3 DEF Bounds, b
    <3>6. Count(F, o) + c <= Used(F, o) + n
      BY <3>3, <3>5, <1>0, <1>2, <1>4
    <3> QED BY <3>6, <2>1, <2>2
  <2> QED BY <2>3, <2>4
<1>7. \A o \in PossibleOwners : Count(F, o) <= Used(F, o) + n
  BY DEF Crowded
<1> QED BY <1>5, <1>6, <1>7 DEF Crowded, p, c

(* A request begins: alone, or as one more overlap. *)
LEMMA CrowdBegins ==
  ASSUME NEW F, NEW q, NEW n, Ready(F, q, n), Crowded(F, q, n),
         NEW r \in Requests, NEW k \in RequestRecords, NEW m,
         q[r].pc = "idle", k.pc \in {"create", "read", "copy"},
         m = IF \A s \in Requests : q[s].pc = "idle" THEN n ELSE n + 1
  PROVE  Crowded(F, [q EXCEPT ![r] = k], m)
<1> DEFINE p == [q EXCEPT ![r] = k]
           b == Cardinality(Busy(q))
           c == Cardinality(Busy(p))
<1>0. n \in Nat /\ m \in Nat /\ n <= m /\ IsFiniteSet(F) /\ q \in [Requests -> RequestRecords]
  BY DEF Ready
<1>1. p[r] = k /\ \A s \in Requests \ {r} : p[s] = q[s]
  BY <1>0
<1>2. b \in Nat /\ c \in Nat /\ c = b + 1
  <2>1. b \in Nat /\ c \in Nat
    BY <1>0, BusyMoves
  <2>2. c = b + 1
    BY <1>0, BusyMoves
  <2> QED BY <2>1, <2>2
<1>4. \A o : Count(F, o) \in Nat /\ Used(F, o) \in Nat
  BY <1>0, HeldFinite
<1>7. \A o \in PossibleOwners : Count(F, o) <= Used(F, o) + n
  BY DEF Crowded
<1>8. \A s \in Requests : \A o : CopiesInto(p[s], o) <=> CopiesInto(q[s], o)
  BY <1>1 DEF CopiesInto
<1> HIDE DEF p
<1>9. \A s \in Requests : Overtaken(F, p, s) => s # r /\ p[s] = q[s] /\ Overtaken(F, q, s)
  BY <1>1, <1>8 DEF Overtaken
<1> HIDE DEF b, c
<1>10. CASE \A s \in Requests : q[s].pc = "idle"
  <2> DEFINE W == [o \in PossibleOwners |-> n]   rank == [o \in PossibleOwners |-> 0]
  <2>1. m = n
    BY <1>10
  <2>2. b = 0
    <3>1. Busy(q) = {}
      BY <1>10 DEF Busy
    <3> QED BY <3>1, FS_EmptySet DEF b
  <2>3. \A s \in Requests : CopyBound(W, rank, F, p[s])
    BY <1>1, <1>10 DEF CopyBound
  <2>4. \A o \in PossibleOwners : W[o] + c <= m + 1 /\ Count(F, o) <= Used(F, o) + W[o]
    BY <2>1, <2>2, <1>0, <1>2, <1>7
  <2>5. W \in [PossibleOwners -> Nat] /\ rank \in [PossibleOwners -> Nat]
    BY <1>0
  <2> HIDE DEF W, rank
  <2>6. Bounds(W, rank, F, p, m)
    BY <2>3, <2>4, <2>5 DEF Bounds, c
  <2>7. \A s \in Requests : ~Overtaken(F, p, s)
    BY <1>1, <1>9, <1>10 DEF Overtaken
  <2> QED BY <2>1, <2>6, <2>7, <1>7 DEF Crowded, p
<1>11. CASE ~\A s \in Requests : q[s].pc = "idle"
  <2>1. m = n + 1
    BY <1>11
  <2>2. PICK W, rank : Bounds(W, rank, F, q, n)
    BY DEF Crowded
  <2>3. \A s \in Requests : CopyBound(W, rank, F, p[s])
    <3>1. CopyBound(W, rank, F, k)
      BY DEF CopyBound
    <3>2. \A s \in Requests : CopyBound(W, rank, F, q[s])
      BY <2>2 DEF Bounds
    <3> QED BY <3>1, <3>2, <1>1
  <2>4. \A o \in PossibleOwners : W[o] + c <= m + 1 /\ Count(F, o) <= Used(F, o) + W[o]
    <3>1. \A o \in PossibleOwners : W[o] \in Nat /\ W[o] + b <= n + 1 /\ Count(F, o) <= Used(F, o) + W[o]
      BY <2>2 DEF Bounds, b
    <3> QED BY <3>1, <2>1, <1>0, <1>2
  <2>5. W \in [PossibleOwners -> Nat] /\ rank \in [PossibleOwners -> Nat]
    BY <2>2 DEF Bounds
  <2>6. Bounds(W, rank, F, p, m)
    BY <2>3, <2>4, <2>5 DEF Bounds, c
  <2>7. ASSUME NEW s \in Requests, Overtaken(F, p, s)
        PROVE  Count(F, p[s].owner) + c <= Used(F, p[s].owner) + m
    <3>1. PICK o : o = q[s].owner
      OBVIOUS
    <3>2. Count(F, o) + b <= Used(F, o) + n
      BY <2>7, <3>1, <1>9 DEF Crowded, b
    <3>3. Count(F, o) + c <= Used(F, o) + m
      BY <3>2, <2>1, <1>0, <1>2, <1>4
    <3> QED BY <3>1, <3>3, <2>7, <1>9
  <2>8. \A o \in PossibleOwners : Count(F, o) <= Used(F, o) + m
    BY <2>1, <1>0, <1>4, <1>7
  <2> QED BY <2>6, <2>7, <2>8 DEF Crowded, p, c
<1> QED BY <1>10, <1>11

(* A duplication lists the files it will copy. *)
LEMMA CrowdLists ==
  ASSUME NEW F, NEW q, NEW n, Ready(F, q, n), Crowded(F, q, n),
         NEW r \in Requests, NEW k \in RequestRecords,
         q[r].pc = "files", k.pc = "each", k.owner = q[r].owner, k.version = q[r].version,
         k.listed = Held(F, k.owner)
  PROVE  Crowded(F, [q EXCEPT ![r] = k], n)
<1> DEFINE p == [q EXCEPT ![r] = k]
           b == Cardinality(Busy(q))
           c == Cardinality(Busy(p))
<1>0. n \in Nat /\ IsFiniteSet(F) /\ q \in [Requests -> RequestRecords]
  BY DEF Ready
<1>1. p[r] = k /\ \A s \in Requests \ {r} : p[s] = q[s]
  BY <1>0
<1>2. b \in Nat /\ c = b
  <2>1. b \in Nat
    BY <1>0, BusyMoves
  <2>2. c = b
    BY <1>0, BusyMoves
  <2> QED BY <2>1, <2>2
<1>3. PICK W, rank : Bounds(W, rank, F, q, n)
  BY DEF Crowded
<1>4. \A o : Count(F, o) \in Nat /\ Used(F, o) \in Nat
  BY <1>0, HeldFinite
<1> HIDE DEF p, b, c
<1>5. CopyBound(W, rank, F, k)
  <2>1. PICK o, w : o = OfDraft(k.version) /\ w = k.owner
    OBVIOUS
  <2>2. o \in PossibleOwners /\ w \in PossibleOwners
    BY <2>1, OwnersDiffer DEF Ready
  <2>3. Count(F, o) + W[w] <= W[o]
    BY <1>3, <2>1 DEF Bounds, CopyBound
  <2>4. Count(F, w) <= Used(F, w) + W[w] /\ W[w] \in Nat /\ W[o] \in Nat
    BY <1>3, <2>2 DEF Bounds
  <2>5. /\ Used(F, w) <= Cardinality(OrdersOf(Held(F, o)) \cup OrdersOf(Held(F, w)))
        /\ Cardinality(OrdersOf(Held(F, o)) \cup OrdersOf(Held(F, w))) \in Nat
    <3>1. IsFiniteSet(OrdersOf(Held(F, o))) /\ IsFiniteSet(OrdersOf(Held(F, w)))
      BY <1>0, HeldFinite
    <3> QED BY <3>1, TogetherAtMost DEF Used
  <2>6. Count(F, o) + Count(F, w)
           <= Cardinality(OrdersOf(Held(F, o)) \cup OrdersOf(Held(F, w))) + W[o]
    BY <2>3, <2>4, <2>5, <1>4
  <2> QED BY <2>1, <2>6 DEF CopyBound, Count
<1>6. Bounds(W, rank, F, p, n)
  <2>1. \A s \in Requests : CopyBound(W, rank, F, p[s])
    BY <1>1, <1>3, <1>5 DEF Bounds
  <2> QED BY <2>1, <1>2, <1>3 DEF Bounds, b, c
<1>7. \A s \in Requests : \A o : CopiesInto(p[s], o) <=> CopiesInto(q[s], o)
  BY <1>1 DEF CopiesInto
<1>8. \A s \in Requests : Overtaken(F, p, s) => p[s] = q[s] /\ Overtaken(F, q, s)
  BY <1>1, <1>7 DEF Overtaken
<1> QED BY <1>2, <1>6, <1>8 DEF Crowded, p, b, c

(* A duplication makes its draft, which has no files yet. *)
LEMMA CrowdDuplicates ==
  ASSUME NEW F, NEW q, NEW n, Ready(F, q, n), Crowded(F, q, n),
         NEW r \in Requests, NEW k \in RequestRecords,
         q[r].pc = "copy", k.pc = "files", k.owner = q[r].owner, k.version \in Drafts,
         Held(F, OfDraft(k.version)) = {},
         \A s \in Requests : /\ q[s].owner # OfDraft(k.version)
                             /\ ~CopiesInto(q[s], OfDraft(k.version))
  PROVE  Crowded(F, [q EXCEPT ![r] = k], n)
<1> DEFINE p == [q EXCEPT ![r] = k]
           b == Cardinality(Busy(q))
           c == Cardinality(Busy(p))
<1>0. n \in Nat /\ IsFiniteSet(F) /\ q \in [Requests -> RequestRecords]
  BY DEF Ready
<1>1. p[r] = k /\ \A s \in Requests \ {r} : p[s] = q[s]
  BY <1>0
<1>2. b \in Nat /\ c = b
  <2>1. b \in Nat
    BY <1>0, BusyMoves
  <2>2. c = b
    BY <1>0, BusyMoves
  <2> QED BY <2>1, <2>2
<1>3. PICK W, rank : Bounds(W, rank, F, q, n)
  BY DEF Crowded
<1>4. \A o : Count(F, o) \in Nat /\ Used(F, o) \in Nat
  BY <1>0, HeldFinite
<1> HIDE DEF p, b, c
<1>5. PICK t, w : t = OfDraft(k.version) /\ w = k.owner
  OBVIOUS
<1>6. t \in PossibleOwners /\ w \in PossibleOwners /\ w # t
  BY <1>5, OwnersDiffer DEF Ready
<1> DEFINE W2 == [W EXCEPT ![t] = W[w]]   rank2 == [rank EXCEPT ![t] = rank[w] + 1]
<1>7. /\ W2 \in [PossibleOwners -> Nat] /\ rank2 \in [PossibleOwners -> Nat]
      /\ W2[t] = W[w] /\ rank2[t] = rank[w] + 1 /\ rank[w] \in Nat /\ W[w] \in Nat
      /\ \A o \in PossibleOwners \ {t} : W2[o] = W[o] /\ rank2[o] = rank[o]
  BY <1>3, <1>6 DEF Bounds
<1> HIDE DEF W2, rank2
<1>8. Count(F, t) = 0
  BY <1>5, FS_EmptySet DEF Count
<1>9. CopyBound(W2, rank2, F, k)
  <2>1. Count(F, t) + W2[w] <= W2[t] /\ rank2[w] < rank2[t]
    BY <1>6, <1>7, <1>8
  <2> QED BY <2>1, <1>5 DEF CopyBound
<1>10. ASSUME NEW s \in Requests \ {r} PROVE CopyBound(W2, rank2, F, q[s])
  <2>1. CopyBound(W, rank, F, q[s])
    BY <1>3 DEF Bounds
  <2>2. CASE q[s].pc \in {"files", "each"}
    <3>1. q[s].owner \in PossibleOwners \ {t} /\ OfDraft(q[s].version) \in PossibleOwners \ {t}
      BY <2>2, <1>5, OwnersDiffer DEF Ready, CopiesInto
    <3> QED BY <2>1, <3>1, <1>7 DEF CopyBound
  <2>3. CASE q[s].pc \notin {"files", "each"}
    BY <2>3 DEF CopyBound
  <2> QED BY <2>2, <2>3
<1>11. Bounds(W2, rank2, F, p, n)
  <2>1. \A s \in Requests : CopyBound(W2, rank2, F, p[s])
    BY <1>1, <1>9, <1>10
  <2>2. \A o \in PossibleOwners : W[o] + b <= n + 1 /\ Count(F, o) <= Used(F, o) + W[o]
    BY <1>3 DEF Bounds, b
  <2>3. \A o \in PossibleOwners : W2[o] + c <= n + 1 /\ Count(F, o) <= Used(F, o) + W2[o]
    <3>1. W2[t] + c <= n + 1 /\ Count(F, t) <= Used(F, t) + W2[t]
      BY <2>2, <1>2, <1>4, <1>6, <1>7, <1>8
    <3> QED BY <3>1, <2>2, <1>2, <1>7
  <2> QED BY <2>1, <2>3, <1>7 DEF Bounds, c
<1>12. \A s \in Requests : \A o : CopiesInto(q[s], o) => CopiesInto(p[s], o)
  BY <1>1 DEF CopiesInto
<1>13. \A s \in Requests : Overtaken(F, p, s) => p[s] = q[s] /\ Overtaken(F, q, s)
  BY <1>1, <1>12 DEF Overtaken
<1> QED BY <1>2, <1>11, <1>13 DEF Crowded, p, b, c

(* An upload adds its file in a position that its list left free. *)
LEMMA CrowdUploads ==
  ASSUME NEW F, NEW q, NEW n, Ready(F, q, n), Crowded(F, q, n),
         NEW r \in Requests, NEW k \in RequestRecords, NEW g,
         q[r].pc = "attach", k.pc = "save",
         g.owner = q[r].owner, g.order \notin OrdersOf(q[r].listed)
  PROVE  Crowded(F \cup {g}, [q EXCEPT ![r] = k], n)
<1> DEFINE p == [q EXCEPT ![r] = k]
           b == Cardinality(Busy(q))
           c == Cardinality(Busy(p))
           G == F \cup {g}
<1>0. n \in Nat /\ IsFiniteSet(F) /\ q \in [Requests -> RequestRecords]
  BY DEF Ready
<1>1. p[r] = k /\ \A s \in Requests \ {r} : p[s] = q[s]
  BY <1>0
<1>2. b \in Nat /\ c \in Nat /\ c + 1 = b
  <2>1. b \in Nat /\ c \in Nat
    BY <1>0, BusyMoves
  <2>2. c + 1 = b
    BY <1>0, BusyMoves
  <2> QED BY <2>1, <2>2
<1>3. PICK W, rank : Bounds(W, rank, F, q, n)
  BY DEF Crowded
<1>4. PICK x : x = q[r].owner /\ x \in PossibleOwners
  BY DEF Ready
<1>5. IsFiniteSet(G)
  BY <1>0, FS_AddElement
<1>6. \A o : /\ Count(F, o) \in Nat /\ Used(F, o) \in Nat
             /\ Count(G, o) \in Nat /\ Used(G, o) \in Nat
  BY <1>0, <1>5, HeldFinite
<1>7. \A o : o # x => Held(G, o) = Held(F, o) /\ Count(G, o) = Count(F, o) /\ Used(G, o) = Used(F, o)
  BY <1>4 DEF Held, Count, Used
<1>8. /\ OrdersOf(Held(G, x)) = OrdersOf(Held(F, x)) \cup {g.order}
      /\ Count(G, x) <= Count(F, x) + 1 /\ Used(G, x) >= Used(F, x)
      /\ g.order \notin OrdersOf(Held(F, x)) => Used(G, x) = Used(F, x) + 1
  <2>1. /\ OrdersOf(Held(G, g.owner)) = OrdersOf(Held(F, g.owner)) \cup {g.order}
        /\ Count(G, g.owner) <= Count(F, g.owner) + 1 /\ Used(G, g.owner) >= Used(F, g.owner)
        /\ g.order \notin OrdersOf(Held(F, g.owner)) => Used(G, g.owner) = Used(F, g.owner) + 1
    BY <1>0, FileAdded
  <2> QED BY <2>1, <1>4
<1> HIDE DEF p, b, c, G
<1> DEFINE W2 == [o \in PossibleOwners |-> IF rank[o] >= rank[x] THEN W[o] + 1 ELSE W[o]]
<1>9. \A o \in PossibleOwners : W[o] \in Nat /\ rank[o] \in Nat
  BY <1>3 DEF Bounds
<1>10. /\ W2 \in [PossibleOwners -> Nat]
       /\ \A o \in PossibleOwners : W2[o] = IF rank[o] >= rank[x] THEN W[o] + 1 ELSE W[o]
  BY <1>9
<1> HIDE DEF W2
<1>11. \A o \in PossibleOwners : W2[o] \in Nat /\ W[o] <= W2[o] /\ W2[o] <= W[o] + 1
  BY <1>9, <1>10
<1>12. W2[x] = W[x] + 1
  BY <1>4, <1>9, <1>10
<1>13. \A o \in PossibleOwners : W[o] + b <= n + 1 /\ Count(F, o) <= Used(F, o) + W[o]
  BY <1>3 DEF Bounds, b
<1>14. \A o \in PossibleOwners : W2[o] + c <= n + 1
  BY <1>0, <1>2, <1>9, <1>11, <1>13
<1>15. ASSUME NEW o \in PossibleOwners PROVE Count(G, o) <= Used(G, o) + W2[o]
  <2>1. CASE o = x
    <3>1. Count(F, x) <= Used(F, x) + W[x] /\ W[x] \in Nat
      BY <1>4, <1>9, <1>13
    <3> QED BY <2>1, <3>1, <1>6, <1>8, <1>12
  <2>2. CASE o # x
    <3>1. Count(F, o) <= Used(F, o) + W[o] /\ W[o] \in Nat /\ W2[o] \in Nat /\ W[o] <= W2[o]
      BY <1>9, <1>11, <1>13
    <3>2. Count(G, o) = Count(F, o) /\ Used(G, o) = Used(F, o)
      BY <2>2, <1>7
    <3> QED BY <3>1, <3>2, <1>6
  <2> QED BY <2>1, <2>2
<1>16. ASSUME NEW s \in Requests \ {r} PROVE CopyBound(W2, rank, G, q[s])
  <2>1. PICK h, o, w, L : h = q[s] /\ o = OfDraft(q[s].version) /\ w = q[s].owner /\ L = q[s].listed
    OBVIOUS
  <2>2. CopyBound(W, rank, F, h)
    BY <1>3, <2>1 DEF Bounds
  <2>3. CASE h.pc = "each"
    <3> DEFINE u == Cardinality(OrdersOf(Held(F, o)) \cup OrdersOf(L))
               v == Cardinality(OrdersOf(Held(G, o)) \cup OrdersOf(L))
    <3>1. Count(F, o) + Cardinality(L) <= u + W[o]
      BY <2>1, <2>2, <2>3 DEF CopyBound
    <3>2. o \in PossibleOwners /\ L \subseteq Held(F, w)
      BY <2>1, <2>3, OwnersDiffer DEF Ready
    <3>3. IsFiniteSet(L)
      <4>1. L \in SUBSET Held(F, w) /\ IsFiniteSet(Held(F, w))
        BY <3>2, <1>0, HeldFinite
      <4> QED BY <4>1, FS_Subset
    <3>4. IsFiniteSet(OrdersOf(Held(F, o))) /\ IsFiniteSet(OrdersOf(Held(G, o))) /\ IsFiniteSet(OrdersOf(L))
      BY <1>0, <1>5, <3>3, HeldFinite, OrdersFinite
    <3>5. IsFiniteSet(OrdersOf(Held(G, o)) \cup OrdersOf(L)) /\ u \in Nat /\ v \in Nat
      BY <3>4, TogetherAtMost
    <3>6. u <= v
      <4>1. OrdersOf(Held(F, o)) \subseteq OrdersOf(Held(G, o))
        BY <1>7, <1>8
      <4>2. OrdersOf(Held(F, o)) \cup OrdersOf(L) \in SUBSET (OrdersOf(Held(G, o)) \cup OrdersOf(L))
        BY <4>1
      <4> QED BY <4>2, <3>5, FS_Subset
    <3>7. Cardinality(L) \in Nat
      BY <3>3, OrdersFinite
    <3> HIDE DEF u, v
    <3>8. Count(G, o) + Cardinality(L) <= v + W2[o]
      <4>1. CASE o = x
        <5>1. W[x] \in Nat /\ W2[x] = W[x] + 1
          BY <1>4, <1>9, <1>12
        <5> QED BY <4>1, <5>1, <1>6, <1>8, <3>1, <3>5, <3>6, <3>7
      <4>2. CASE o # x
        <5>1. W[o] \in Nat /\ W2[o] \in Nat /\ W[o] <= W2[o] /\ Count(G, o) = Count(F, o)
          BY <3>2, <4>2, <1>7, <1>9, <1>11
        <5> QED BY <5>1, <1>6, <3>1, <3>5, <3>6, <3>7
      <4> QED BY <4>1, <4>2
    <3> QED BY <2>1, <2>3, <3>8 DEF CopyBound, v
  <2>4. CASE h.pc = "files"
    <3>1. Count(F, o) + W[w] <= W[o] /\ rank[w] < rank[o]
      BY <2>1, <2>2, <2>4 DEF CopyBound
    <3>2. o \in PossibleOwners /\ w \in PossibleOwners
      BY <2>1, <2>4, OwnersDiffer DEF Ready
    <3>3. /\ W[o] \in Nat /\ W[w] \in Nat /\ rank[o] \in Nat /\ rank[w] \in Nat /\ rank[x] \in Nat
          /\ W2[o] = IF rank[o] >= rank[x] THEN W[o] + 1 ELSE W[o]
          /\ W2[w] = IF rank[w] >= rank[x] THEN W[w] + 1 ELSE W[w]
      BY <3>2, <1>4, <1>9, <1>10
    <3>4. Count(G, o) + W2[w] <= W2[o]
      <4>1. CASE o = x
        BY <4>1, <3>1, <3>3, <1>6, <1>8
      <4>2. CASE o # x
        <5>1. Count(G, o) = Count(F, o)
          BY <4>2, <1>7
        <5> QED BY <5>1, <3>1, <3>3, <1>6
      <4> QED BY <4>1, <4>2
    <3> QED BY <2>1, <2>4, <3>1, <3>4 DEF CopyBound
  <2>5. CASE h.pc \notin {"each", "files"}
    BY <2>1, <2>5 DEF CopyBound
  <2> QED BY <2>3, <2>4, <2>5
<1>17. Bounds(W2, rank, G, p, n)
  <2>1. CopyBound(W2, rank, G, k)
    BY DEF CopyBound
  <2>2. \A s \in Requests : CopyBound(W2, rank, G, p[s])
    BY <2>1, <1>1, <1>16
  <2>3. rank \in [PossibleOwners -> Nat]
    BY <1>3 DEF Bounds
  <2> QED BY <2>2, <2>3, <1>10, <1>14, <1>15 DEF Bounds, c
<1>18. \A s \in Requests : \A o : CopiesInto(p[s], o) <=> CopiesInto(q[s], o)
  BY <1>1 DEF CopiesInto
<1>19. q[r].listed = Held(F, x) => Used(G, x) = Used(F, x) + 1
  BY <1>8
<1>20. Overtaken(F, q, r) => Count(F, x) + b <= Used(F, x) + n
  BY <1>4 DEF Crowded, b
<1>21. Count(G, x) <= Used(G, x) + n
  <2>1. Count(F, x) <= Used(F, x) + n
    BY <1>4 DEF Crowded
  <2>2. CASE q[r].listed = Held(F, x)
    BY <2>1, <2>2, <1>0, <1>6, <1>8, <1>19
  <2>3. CASE Overtaken(F, q, r)
    BY <2>3, <1>0, <1>2, <1>6, <1>8, <1>20
  <2>4. CASE \E s \in Requests : CopiesInto(q[s], x)
    <3>1. PICK s \in Requests : CopiesInto(q[s], x)
      BY <2>4
    <3>2. s # r /\ q[s].pc \notin {"idle", "save"}
      BY <3>1 DEF CopiesInto
    <3>3. s \in Busy(p)
      BY <3>2, <1>1 DEF Busy
    <3>4. IsFiniteSet(Busy(p))
      <4>1. Busy(p) \in SUBSET Requests
        BY DEF Busy
      <4> QED BY <4>1, FS_Subset, DraftsAssumption
    <3>5. c # 0
      BY <3>3, <3>4, FS_EmptySet DEF c
    <3>6. W2[x] + c <= n + 1 /\ Count(G, x) <= Used(G, x) + W2[x] /\ W2[x] \in Nat
      BY <1>4, <1>11, <1>14, <1>15
    <3> QED BY <3>5, <3>6, <1>0, <1>2, <1>6
  <2> QED BY <2>2, <2>3, <2>4, <1>4 DEF Overtaken
<1>22. \A o \in PossibleOwners : Count(G, o) <= Used(G, o) + n
  <2>1. \A o \in PossibleOwners : Count(F, o) <= Used(F, o) + n
    BY DEF Crowded
  <2> QED BY <2>1, <1>7, <1>21
<1>23. ASSUME NEW s \in Requests, Overtaken(G, p, s)
       PROVE  Count(G, p[s].owner) + c <= Used(G, p[s].owner) + n
  <2>1. s # r /\ p[s] = q[s]
    BY <1>1, <1>23 DEF Overtaken
  <2>2. PICK o : o = q[s].owner
    OBVIOUS
  <2>3. CASE o # x
    <3>1. Overtaken(F, q, s)
      BY <1>7, <1>18, <1>23, <2>1, <2>2, <2>3 DEF Overtaken
    <3>2. Count(F, o) + b <= Used(F, o) + n
      BY <3>1, <2>2 DEF Crowded, b
    <3>3. Count(G, o) = Count(F, o) /\ Used(G, o) = Used(F, o)
      BY <2>3, <1>7
    <3>4. Count(G, o) + c <= Used(G, o) + n
      BY <3>2, <3>3, <1>0, <1>2, <1>6
    <3> QED BY <3>4, <2>1, <2>2
  <2>4. CASE o = x
    <3>1. \A t \in Requests : ~CopiesInto(q[t], x)
      BY <1>18, <1>23, <2>1, <2>2, <2>4 DEF Overtaken
    <3>2. Count(G, x) + c <= Used(G, x) + n
      <4>1. CASE q[r].listed = Held(F, x)
        <5>1. W[x] \in Nat /\ W[x] + b <= n + 1 /\ Count(F, x) <= Used(F, x) + W[x]
          BY <1>4, <1>9, <1>13
        <5>2. Used(G, x) = Used(F, x) + 1
          BY <4>1, <1>19
        <5> QED BY <5>1, <5>2, <1>0, <1>2, <1>6, <1>8
      <4>2. CASE q[r].listed # Held(F, x)
        <5>1. Count(F, x) + b <= Used(F, x) + n
          BY <3>1, <4>2, <1>4, <1>20 DEF Overtaken
        <5> QED BY <5>1, <1>0, <1>2, <1>6, <1>8
      <4> QED BY <4>1, <4>2
    <3> QED BY <3>2, <2>1, <2>2, <2>4
  <2> QED BY <2>3, <2>4
<1> QED BY <1>17, <1>22, <1>23 DEF Crowded, p, c, G

LiveCopies(L, w) == {[f EXCEPT !.owner = w, !.status = "LIVE"] : f \in L}

(* A publication gives the advert copies of the files it listed. *)
LEMMA CrowdPublishes ==
  ASSUME NEW F, NEW q, NEW n, Ready(F, q, n), Crowded(F, q, n),
         NEW r \in Requests, NEW k \in RequestRecords, NEW w \in PossibleOwners,
         q[r].pc = "publish", k.pc = "idle",
         Held(F, w) = {}, \A d \in Drafts : w # OfDraft(d),
         \A s \in Requests : q[s].pc # "idle" => q[s].owner # w
  PROVE  Crowded(F \cup LiveCopies(q[r].listed, w), [q EXCEPT ![r] = k], n)
<1> DEFINE p == [q EXCEPT ![r] = k]
           b == Cardinality(Busy(q))
           c == Cardinality(Busy(p))
           L == q[r].listed
           C == LiveCopies(L, w)
           G == F \cup C
<1>0. n \in Nat /\ IsFiniteSet(F) /\ q \in [Requests -> RequestRecords] /\ F \subseteq FileRecords
  BY DEF Ready
<1>1. p[r] = k /\ \A s \in Requests \ {r} : p[s] = q[s]
  BY <1>0
<1>2. b \in Nat /\ c \in Nat /\ c + 1 = b
  <2>1. b \in Nat /\ c \in Nat
    BY <1>0, BusyMoves
  <2>2. c + 1 = b
    BY <1>0, BusyMoves
  <2> QED BY <2>1, <2>2
<1>3. PICK W, rank : Bounds(W, rank, F, q, n)
  BY DEF Crowded
<1>4. PICK x : x = q[r].owner /\ x \in PossibleOwners /\ x # w /\ L \subseteq Held(F, x)
  BY DEF Ready
<1>5. IsFiniteSet(Held(F, x)) /\ L \in SUBSET Held(F, x)
  BY <1>0, <1>4, HeldFinite
<1>6. IsFiniteSet(L)
  BY <1>5, FS_Subset
<1>7. \A f \in L : /\ [f EXCEPT !.owner = w, !.status = "LIVE"].owner = w
                   /\ [f EXCEPT !.owner = w, !.status = "LIVE"].order = f.order
  <2>1. L \subseteq FileRecords
    BY <1>0, <1>4 DEF Held
  <2> QED BY <2>1 DEF FileRecords
<1>8. IsFiniteSet(C) /\ Cardinality(C) <= Cardinality(L) /\ OrdersOf(C) = OrdersOf(L)
  <2> DEFINE e == [f \in L |-> [f EXCEPT !.owner = w, !.status = "LIVE"]]
  <2>1. e \in Surjection(L, C)
    BY DEF Surjection, LiveCopies
  <2>2. OrdersOf(C) = OrdersOf(L)
    <3>1. \A h \in C : \E f \in L : h.order = f.order
      BY <1>7 DEF LiveCopies
    <3>2. \A f \in L : \E h \in C : h.order = f.order
      BY <1>7 DEF LiveCopies
    <3> HIDE DEF C
    <3> QED BY <3>1, <3>2 DEF OrdersOf
  <2> HIDE DEF e, C, L
  <2>3. IsFiniteSet(C) /\ Cardinality(C) <= Cardinality(L)
    BY <2>1, <1>6, FS_Surjection
  <2> QED BY <2>2, <2>3
<1>9. Held(G, w) = C /\ \A o : o # w => Held(G, o) = Held(F, o)
  <2>1. \A h \in C : h.owner = w
    BY <1>7 DEF LiveCopies
  <2> HIDE DEF C
  <2> QED BY <2>1 DEF Held
<1>10. IsFiniteSet(G)
  BY <1>0, <1>8, FS_Union
<1> HIDE DEF p, b, c, C, G, L
<1>11. \A o : /\ Count(F, o) \in Nat /\ Used(F, o) \in Nat
              /\ Count(G, o) \in Nat /\ Used(G, o) \in Nat
  BY <1>0, <1>10, HeldFinite
<1>12. \A o : o # w => Count(G, o) = Count(F, o) /\ Used(G, o) = Used(F, o)
  BY <1>9 DEF Count, Used
<1>13. Count(G, w) + Used(F, x) <= Count(F, x) + Used(G, w)
  <2>1. Cardinality(L) + Used(F, x) <= Count(F, x) + Cardinality(OrdersOf(L))
    BY <1>5, PartOfFiles DEF Count, Used
  <2>2. Count(G, w) <= Cardinality(L) /\ Used(G, w) = Cardinality(OrdersOf(L))
    BY <1>8, <1>9 DEF Count, Used
  <2>3. Cardinality(L) \in Nat /\ Cardinality(OrdersOf(L)) \in Nat
    BY <1>6, OrdersFinite
  <2> QED BY <2>1, <2>2, <2>3, <1>11
<1> DEFINE W2 == [W EXCEPT ![w] = W[x]]
<1>14. /\ W2 \in [PossibleOwners -> Nat] /\ W2[w] = W[x] /\ W[x] \in Nat
       /\ \A o \in PossibleOwners \ {w} : W2[o] = W[o] /\ W[o] \in Nat
  BY <1>3, <1>4 DEF Bounds
<1> HIDE DEF W2
<1>15. \A o \in PossibleOwners : W[o] + b <= n + 1 /\ Count(F, o) <= Used(F, o) + W[o]
  BY <1>3 DEF Bounds, b
<1>16. \A o \in PossibleOwners : W2[o] + c <= n + 1 /\ Count(G, o) <= Used(G, o) + W2[o]
  <2>1. W2[w] + c <= n + 1 /\ Count(G, w) <= Used(G, w) + W2[w]
    <3>1. W[x] + b <= n + 1 /\ Count(F, x) <= Used(F, x) + W[x]
      BY <1>4, <1>15
    <3> QED BY <3>1, <1>0, <1>2, <1>11, <1>13, <1>14
  <2>2. \A o \in PossibleOwners \ {w} : W2[o] + c <= n + 1 /\ Count(G, o) <= Used(G, o) + W2[o]
    BY <1>0, <1>2, <1>12, <1>14, <1>15
  <2> QED BY <2>1, <2>2
<1>17. ASSUME NEW s \in Requests \ {r} PROVE CopyBound(W2, rank, G, q[s])
  <2>1. CopyBound(W, rank, F, q[s])
    BY <1>3 DEF Bounds
  <2>2. CASE q[s].pc \in {"files", "each"}
    <3>1. PICK o, v : o = OfDraft(q[s].version) /\ v = q[s].owner
      OBVIOUS
    <3>2. o \in PossibleOwners \ {w} /\ v \in PossibleOwners \ {w}
      BY <2>2, <3>1, OwnersDiffer DEF Ready
    <3>3. /\ W2[o] = W[o] /\ W2[v] = W[v] /\ Count(G, o) = Count(F, o)
          /\ Held(G, o) = Held(F, o)
      BY <3>2, <1>9, <1>12, <1>14
    <3> QED BY <2>1, <3>1, <3>3 DEF CopyBound
  <2>3. CASE q[s].pc \notin {"files", "each"}
    BY <2>3 DEF CopyBound
  <2> QED BY <2>2, <2>3
<1>18. Bounds(W2, rank, G, p, n)
  <2>1. CopyBound(W2, rank, G, k)
    BY DEF CopyBound
  <2>2. \A s \in Requests : CopyBound(W2, rank, G, p[s])
    BY <2>1, <1>1, <1>17
  <2>3. rank \in [PossibleOwners -> Nat]
    BY <1>3 DEF Bounds
  <2> QED BY <2>2, <2>3, <1>14, <1>16 DEF Bounds, c
<1>19. \A o \in PossibleOwners : Count(G, o) <= Used(G, o) + n
  <2>1. \A o \in PossibleOwners : Count(F, o) <= Used(F, o) + n
    BY DEF Crowded
  <2>2. Count(G, w) <= Used(G, w) + n
    <3>1. Count(F, x) <= Used(F, x) + n
      BY <2>1, <1>4
    <3> QED BY <3>1, <1>0, <1>11, <1>13
  <2> QED BY <2>1, <2>2, <1>12
<1>20. \A s \in Requests : \A o : CopiesInto(q[s], o) <=> CopiesInto(p[s], o)
  BY <1>1 DEF CopiesInto
<1>21. ASSUME NEW s \in Requests, Overtaken(G, p, s)
       PROVE  Count(G, p[s].owner) + c <= Used(G, p[s].owner) + n
  <2>1. s # r /\ p[s] = q[s]
    BY <1>1, <1>21 DEF Overtaken
  <2>2. PICK o : o = q[s].owner /\ o # w
    BY <1>21, <2>1 DEF Overtaken
  <2>3. Overtaken(F, q, s)
    BY <1>9, <1>20, <1>21, <2>1, <2>2 DEF Overtaken
  <2>4. Count(F, o) + b <= Used(F, o) + n
    BY <2>2, <2>3 DEF Crowded, b
  <2>5. Count(G, o) + c <= Used(G, o) + n
    <3>1. Count(G, o) = Count(F, o) /\ Used(G, o) = Used(F, o)
      BY <2>2, <1>12
    <3> QED BY <2>4, <3>1, <1>0, <1>2, <1>11
  <2> QED BY <2>1, <2>2, <2>5
<1> QED BY <1>18, <1>19, <1>21 DEF Crowded, p, c, C, G, L

(* A duplication copies one of the files it has listed. *)
LEMMA CrowdCopies ==
  ASSUME NEW F, NEW q, NEW n, Ready(F, q, n), Crowded(F, q, n),
         NEW r \in Requests, NEW k \in RequestRecords, NEW f \in q[r].listed, NEW g,
         q[r].pc = "each", k.pc = "each", k.owner = q[r].owner, k.version = q[r].version,
         k.listed = q[r].listed \ {f}, g.owner = OfDraft(k.version), g.order = f.order
  PROVE  Crowded(F \cup {g}, [q EXCEPT ![r] = k], n)
<1> DEFINE p == [q EXCEPT ![r] = k]
           b == Cardinality(Busy(q))
           c == Cardinality(Busy(p))
           G == F \cup {g}
           L == q[r].listed
           M == k.listed
<1>0. n \in Nat /\ IsFiniteSet(F) /\ q \in [Requests -> RequestRecords]
  BY DEF Ready
<1>1. p[r] = k /\ \A s \in Requests \ {r} : p[s] = q[s]
  BY <1>0
<1>2. b \in Nat /\ c = b
  <2>1. b \in Nat
    BY <1>0, BusyMoves
  <2>2. c = b
    BY <1>0, BusyMoves
  <2> QED BY <2>1, <2>2
<1>3. PICK W, rank : Bounds(W, rank, F, q, n)
  BY DEF Crowded
<1>4. PICK x : x = OfDraft(k.version) /\ x \in PossibleOwners
  BY OwnersDiffer DEF Ready
<1>5. IsFiniteSet(G)
  BY <1>0, FS_AddElement
<1>6. \A o : /\ Count(F, o) \in Nat /\ Used(F, o) \in Nat
             /\ Count(G, o) \in Nat /\ Used(G, o) \in Nat
  BY <1>0, <1>5, HeldFinite
<1>7. \A o : o # x => Held(G, o) = Held(F, o) /\ Count(G, o) = Count(F, o) /\ Used(G, o) = Used(F, o)
  BY <1>4 DEF Held, Count, Used
<1>8. /\ OrdersOf(Held(G, x)) = OrdersOf(Held(F, x)) \cup {f.order}
      /\ Count(G, x) <= Count(F, x) + 1
  <2>1. /\ OrdersOf(Held(G, g.owner)) = OrdersOf(Held(F, g.owner)) \cup {g.order}
        /\ Count(G, g.owner) <= Count(F, g.owner) + 1
    BY <1>0, FileAdded
  <2> QED BY <2>1, <1>4
<1>9. IsFiniteSet(L) /\ IsFiniteSet(M) /\ Cardinality(L) \in Nat /\ Cardinality(M) \in Nat
      /\ Cardinality(M) + 1 = Cardinality(L)
  <2>1. L \in SUBSET Held(F, q[r].owner) /\ IsFiniteSet(Held(F, q[r].owner))
    BY <1>0, HeldFinite DEF Ready
  <2>2. IsFiniteSet(L)
    BY <2>1, FS_Subset
  <2>3. IsFiniteSet(M) /\ Cardinality(M) = Cardinality(L) - 1
    BY <2>2, FS_RemoveElement
  <2>4. Cardinality(L) \in Nat /\ Cardinality(M) \in Nat
    BY <2>2, <2>3, FS_CardinalityType
  <2> QED BY <2>2, <2>3, <2>4
<1>10. OrdersOf(Held(F, x)) \cup OrdersOf(L) = OrdersOf(Held(G, x)) \cup OrdersOf(M)
  <2>1. OrdersOf(L) = OrdersOf(M) \cup {f.order}
    BY DEF OrdersOf
  <2> QED BY <2>1, <1>8
<1>11. q[r].version = k.version /\ q[r].pc = "each" /\ k.pc = "each"
  OBVIOUS
<1> HIDE DEF p, b, c, G, L, M
<1> DEFINE u == Cardinality(OrdersOf(Held(G, x)) \cup OrdersOf(M))
<1>12. u \in Nat /\ u <= Used(G, x) + Cardinality(M)
  <2>1. IsFiniteSet(OrdersOf(Held(G, x))) /\ IsFiniteSet(OrdersOf(M))
        /\ Cardinality(OrdersOf(M)) \in Nat /\ Cardinality(OrdersOf(M)) <= Cardinality(M)
    BY <1>5, <1>9, HeldFinite, OrdersFinite
  <2>2. u \in Nat /\ u <= Used(G, x) + Cardinality(OrdersOf(M))
    BY <2>1, TogetherAtMost DEF Used
  <2> QED BY <2>1, <2>2, <1>6, <1>9
<1>13. Count(F, x) + Cardinality(L) <= u + W[x]
  <2>1. CopyBound(W, rank, F, q[r])
    BY <1>3 DEF Bounds
  <2> QED BY <2>1, <1>4, <1>10, <1>11 DEF CopyBound, L
<1> HIDE DEF u
<1>14. W[x] \in Nat
  BY <1>3, <1>4 DEF Bounds
<1>15. Count(G, x) + Cardinality(M) <= u + W[x]
  BY <1>6, <1>8, <1>9, <1>12, <1>13, <1>14
<1>16. Count(G, x) <= Used(G, x) + W[x]
  BY <1>6, <1>9, <1>12, <1>14, <1>15
<1>17. CopyBound(W, rank, G, k)
  BY <1>4, <1>11, <1>15 DEF CopyBound, u, M
<1>18. ASSUME NEW s \in Requests \ {r} PROVE CopyBound(W, rank, G, q[s])
  <2>1. CopyBound(W, rank, F, q[s])
    BY <1>3 DEF Bounds
  <2>2. CASE q[s].pc \in {"files", "each"}
    <3>1. PICK o : o = OfDraft(q[s].version)
      OBVIOUS
    <3>2. o # x
      BY <2>2, <3>1, <1>4, <1>11, OwnersDiffer DEF Ready
    <3>3. Count(G, o) = Count(F, o) /\ Held(G, o) = Held(F, o)
      BY <3>2, <1>7
    <3> QED BY <2>1, <3>1, <3>3 DEF CopyBound
  <2>3. CASE q[s].pc \notin {"files", "each"}
    BY <2>3 DEF CopyBound
  <2> QED BY <2>2, <2>3
<1>19. \A o \in PossibleOwners : W[o] + c <= n + 1 /\ Count(G, o) <= Used(G, o) + W[o]
  <2>1. \A o \in PossibleOwners : W[o] + b <= n + 1 /\ Count(F, o) <= Used(F, o) + W[o]
    BY <1>3 DEF Bounds, b
  <2> QED BY <2>1, <1>2, <1>7, <1>16
<1>20. Bounds(W, rank, G, p, n)
  <2>1. \A s \in Requests : CopyBound(W, rank, G, p[s])
    BY <1>1, <1>17, <1>18
  <2> QED BY <2>1, <1>3, <1>19 DEF Bounds, c
<1>21. Count(G, x) <= Used(G, x) + n
  <2>1. r \in Busy(p)
    BY <1>1, <1>11 DEF Busy
  <2>2. IsFiniteSet(Busy(p))
    <3>1. Busy(p) \in SUBSET Requests
      BY DEF Busy
    <3> QED BY <3>1, FS_Subset, DraftsAssumption
  <2>3. c # 0
    BY <2>1, <2>2, FS_EmptySet DEF c
  <2>4. W[x] + c <= n + 1
    BY <1>4, <1>19
  <2> QED BY <2>3, <2>4, <1>0, <1>2, <1>6, <1>14, <1>16
<1>22. \A o \in PossibleOwners : Count(G, o) <= Used(G, o) + n
  <2>1. \A o \in PossibleOwners : Count(F, o) <= Used(F, o) + n
    BY DEF Crowded
  <2> QED BY <2>1, <1>7, <1>21
<1>23. \A s \in Requests : \A o : CopiesInto(q[s], o) <=> CopiesInto(p[s], o)
  BY <1>1, <1>11 DEF CopiesInto
<1>24. ASSUME NEW s \in Requests, Overtaken(G, p, s)
       PROVE  Count(G, p[s].owner) + c <= Used(G, p[s].owner) + n
  <2>1. s # r /\ p[s] = q[s]
    BY <1>1, <1>11, <1>24 DEF Overtaken
  <2>2. CopiesInto(p[r], x)
    BY <1>1, <1>4, <1>11 DEF CopiesInto
  <2>3. PICK o : o = q[s].owner /\ o # x
    BY <1>24, <2>1, <2>2 DEF Overtaken
  <2>4. Overtaken(F, q, s)
    BY <1>7, <1>23, <1>24, <2>1, <2>3 DEF Overtaken
  <2>5. Count(F, o) + b <= Used(F, o) + n
    BY <2>3, <2>4 DEF Crowded, b
  <2>6. Count(G, o) + c <= Used(G, o) + n
    BY <2>3, <2>5, <1>2, <1>7
  <2> QED BY <2>1, <2>3, <2>6
<1> QED BY <1>20, <1>22, <1>24 DEF Crowded, p, c, G

-----------------------------------------------------------------------------
(* Drafts: the inductive invariant.                                        *)

PostRecords == [source : Drafts, version : Nat, content : Contents \cup {"none"}]
Editing == {"save", "list", "attach", "version", "publish"}
Copying == {"files", "each"}

(* What a file, or a request, may belong to. *)
Stands(o) == \/ \E d \in Drafts : o = OfDraft(d) /\ draft[d].status # "NONE"
             \/ \E n \in DOMAIN posts : o = OfPost(n)

DraftsTyped ==
    /\ draft \in [Drafts -> DraftRows] /\ posts \in Seq(PostRecords)
    /\ files \subseteq FileRecords /\ IsFiniteSet(files)
    /\ request \in [Requests -> RequestRecords] /\ overlaps \in Nat
    /\ \E m \in Nat : \A n \in DOMAIN posts : posts[n].version <= m

(* What a request at its place has read, and may go by. *)
RequestSound(k) ==
    /\ k.pc # "idle" => Stands(k.owner)
    /\ k.pc \in {"create", "read"} \cup Editing => \E d \in Drafts : k.owner = OfDraft(d)
    /\ k.pc \in Editing => k.row.status = "DRAFT"
    /\ k.pc \in {"attach", "version", "publish", "each"} => k.listed \subseteq listMediaAssets(k.owner)
    /\ k.pc = "publish" => k.version \in Nat
    /\ k.pc \in Copying => k.version \in Drafts /\ draft[k.version].status # "NONE"
RequestsSound ==
    /\ \A n \in DOMAIN posts : draft[posts[n].source].status # "NONE"
    /\ \A f \in files : Stands(f.owner)
    /\ \A r \in Requests : RequestSound(request[r])
    /\ \A r, s \in Requests :
          request[r].pc \in Copying /\ request[s].pc \in Copying
             /\ request[r].version = request[s].version => r = s

(* The adverts a draft may still become: one for each request in progress, *)
(* while it is a draft or was read as one.                                 *)
Active == {r \in Requests : request[r].pc # "idle"}
Open(d) == \/ draft[d].status = "DRAFT"
           \/ \E r \in Requests : request[r].pc \in Editing /\ request[r].owner = OfDraft(d)
PostsCounted(d) ==
    /\ Cardinality(PostsOf(d)) <= 1 + overlaps
    /\ draft[d].status = "DRAFT" => Cardinality(PostsOf(d)) <= overlaps
    /\ Open(d) => Cardinality(PostsOf(d)) + Cardinality(Active) <= 1 + overlaps
    /\ draft[d].status = "PUBLISHED" => PostsOf(d) # {}
AdvertsCounted == Cardinality(Active) <= 1 + overlaps /\ \A d \in Drafts : PostsCounted(d)

(* Requests that come one at a time act on what they read. *)
Shown(o) == {<<f.order, f.upload>> : f \in listMediaAssets(o)}
PostMatches(n) ==
    /\ draft[posts[n].source] = [status |-> "PUBLISHED", content |-> posts[n].content]
    /\ Shown(OfPost(n)) = Shown(OfDraft(posts[n].source))
    /\ posts[n].version = n
RequestMatches(k) ==
    /\ k.pc \in Editing => \E d \in Drafts : k.owner = OfDraft(d) /\ k.row = draft[d]
    /\ k.pc \in {"attach", "version", "publish"} => k.listed = listMediaAssets(k.owner)
    /\ k.pc = "publish" => k.version = Len(posts) + 1
    /\ k.pc \in Copying => draft[k.version].status = "DRAFT"
Matched ==
    overlaps = 0 => /\ \A n \in DOMAIN posts : PostMatches(n)
                    /\ \A r \in Requests : RequestMatches(request[r])

FilesCrowded == Crowded(files, request, overlaps)
DraftsInv == DraftsTyped /\ RequestsSound /\ AdvertsCounted /\ FilesCrowded /\ Matched

-----------------------------------------------------------------------------
(* The adverts there are.                                                  *)
LEMMA PostsTyped ==
  ASSUME DraftsTyped, NEW n \in DOMAIN posts
  PROVE  /\ n \in 1..Len(posts) /\ Len(posts) \in Nat
         /\ posts[n] \in PostRecords /\ posts[n].source \in Drafts
         /\ posts[n].version \in Nat /\ posts[n].content \in Contents \cup {"none"}
<1>1. n \in 1..Len(posts) /\ Len(posts) \in Nat /\ posts[n] \in PostRecords
  BY DEF DraftsTyped
<1> QED BY <1>1 DEF PostRecords

LEMMA OwnersStand ==
  ASSUME DraftsTyped, NEW o, Stands(o)
  PROVE  o \in PossibleOwners
<1>1. \A n \in DOMAIN posts : n \in Nat \ {0}
  BY DEF DraftsTyped
<1> QED BY <1>1, OwnersDiffer DEF Stands

(* What holds of requests is what the lemmas on crowding ask for.          *)
LEMMA FilesReady ==
  ASSUME DraftsTyped, RequestsSound
  PROVE  Ready(files, request, overlaps)
<1>1. \A r \in Requests :
          /\ request[r].pc # "idle" => request[r].owner \in PossibleOwners
          /\ request[r].pc \in {"files", "each"} => request[r].version \in Drafts
          /\ request[r].pc \in {"attach", "publish", "each"} =>
                request[r].listed \subseteq Held(files, request[r].owner)
  BY OwnersStand DEF RequestsSound, RequestSound, Held, listMediaAssets, Copying
<1>2. \A r, s \in Requests : request[r].pc \in {"files", "each"} /\ request[s].pc \in {"files", "each"}
          /\ request[r].version = request[s].version => r = s
  BY DEF RequestsSound, Copying
<1> QED BY <1>1, <1>2 DEF Ready, DraftsTyped

(* Requests in progress, and the adverts of a draft, can be counted.       *)
LEMMA ActiveFinite ==
  ASSUME DraftsTyped
  PROVE  /\ IsFiniteSet(Active) /\ Cardinality(Active) \in Nat
         /\ \A d : IsFiniteSet(PostsOf(d)) /\ Cardinality(PostsOf(d)) \in Nat
<1>1. IsFiniteSet(Active)
  <2>1. Active \in SUBSET Requests
    BY DEF Active
  <2> QED BY <2>1, FS_Subset, DraftsAssumption
<1>2. ASSUME NEW d PROVE IsFiniteSet(PostsOf(d))
  <2>1. PostsOf(d) \in SUBSET (1..Len(posts)) /\ Len(posts) \in Nat
    BY DEF PostsOf, DraftsTyped
  <2>2. IsFiniteSet(1..Len(posts))
    BY <2>1, FS_Interval
  <2> QED BY <2>1, <2>2, FS_Subset
<1> QED BY <1>1, <1>2, FS_CardinalityType

(* One of the requests in progress stops being so, or goes on. *)
LEMMA ActiveMoves ==
  ASSUME DraftsTyped, NEW r \in Requests, NEW k, Go(r, k), request[r].pc # "idle"
  PROVE  /\ Cardinality(Active)' \in Nat /\ Cardinality(Active)' <= Cardinality(Active)
         /\ k.pc = "idle" => Cardinality(Active)' + 1 = Cardinality(Active)
<1>1. IsFiniteSet(Active) /\ Cardinality(Active) \in Nat /\ r \in Active
  BY ActiveFinite DEF Active
<1>2. PICK a : a = Cardinality(Active)'
  OBVIOUS
<1>3. request' = [request EXCEPT ![r] = k] /\ request \in [Requests -> RequestRecords]
  BY DEF Go, DraftsTyped
<1>4. CASE k.pc = "idle"
  <2>1. Active' = Active \ {r}
    BY <1>3, <1>4 DEF Active
  <2>2. Cardinality(Active \ {r}) \in Nat /\ Cardinality(Active \ {r}) = Cardinality(Active) - 1
    BY <1>1, FS_RemoveElement, FS_CardinalityType
  <2> QED BY <1>1, <1>4, <2>1, <2>2
<1>5. CASE k.pc # "idle"
  <2>1. Active' = Active
    BY <1>1, <1>3, <1>5 DEF Active
  <2> QED BY <1>1, <1>5, <2>1
<1> QED BY <1>4, <1>5

(* At most, drafts are made. *)
DraftsGrow ==
    /\ draft' \in [Drafts -> DraftRows]
    /\ \A d \in Drafts : \/ draft'[d] = draft[d]
                         \/ draft[d].status = "NONE" /\ draft'[d].status = "DRAFT"
    /\ UNCHANGED posts

(* Drafts, adverts and files stay, and so does what requests go by. *)
LEMMA SoundMoves ==
  ASSUME DraftsTyped, RequestsSound, NEW r \in Requests, NEW k \in RequestRecords, Go(r, k),
         files \subseteq files', DOMAIN posts \subseteq DOMAIN posts',
         \A d \in Drafts : draft[d].status # "NONE" => draft'[d].status # "NONE",
         \A f \in files' \ files : Stands(f.owner)',
         (\A n \in DOMAIN posts : draft[posts[n].source].status # "NONE")',
         RequestSound(k)',
         k.pc \in Copying => \A s \in Requests \ {r} :
                                request[s].pc \in Copying => request[s].version # k.version
  PROVE  RequestsSound'
<1>1. request'[r] = k /\ \A s \in Requests \ {r} : request'[s] = request[s]
  BY DEF Go, DraftsTyped
<1>2. \A o : Stands(o) => Stands(o)'
  BY DEF Stands
<1>3. \A o : listMediaAssets(o) \subseteq listMediaAssets(o)'
  BY DEF listMediaAssets
<1>4. \A h : RequestSound(h) => RequestSound(h)'
  <2> SUFFICES ASSUME NEW h, RequestSound(h) PROVE RequestSound(h)'
    OBVIOUS
  <2>1. h.pc \in Copying => h.version \in Drafts /\ draft'[h.version].status # "NONE"
    BY DEF RequestSound
  <2>2. h.listed \subseteq listMediaAssets(h.owner) => h.listed \subseteq listMediaAssets(h.owner)'
    BY <1>3
  <2> QED BY <2>1, <2>2, <1>2 DEF RequestSound
<1>5. \A s \in Requests : RequestSound(request[s])'
  BY <1>1, <1>4 DEF RequestsSound
<1>6. \A s, t \in Requests : request'[s].pc \in Copying /\ request'[t].pc \in Copying
           /\ request'[s].version = request'[t].version => s = t
  BY <1>1 DEF RequestsSound
<1>7. (\A f \in files : Stands(f.owner))'
  BY <1>2 DEF RequestsSound
<1> QED BY <1>5, <1>6, <1>7 DEF RequestsSound

(* Making a draft takes none away.                                         *)
LEMMA DraftsStay ==
  ASSUME DraftsTyped, RequestsSound, DraftsGrow
  PROVE  /\ \A d \in Drafts : draft[d].status # "NONE" => draft'[d].status # "NONE"
         /\ (\A n \in DOMAIN posts : draft[posts[n].source].status # "NONE")'
         /\ DOMAIN posts \subseteq DOMAIN posts'
<1>1. \A n \in DOMAIN posts : posts[n].source \in Drafts
  BY PostsTyped
<1> QED BY <1>1 DEF DraftsGrow, RequestsSound

(* A request that goes on by what it reads disturbs no other.              *)
LEMMA MatchedMoves ==
  ASSUME DraftsTyped, RequestsSound, Matched, NEW r \in Requests, NEW k \in RequestRecords, Go(r, k),
         DraftsGrow, UNCHANGED files, overlaps' = 0 => overlaps = 0 /\ RequestMatches(k)'
  PROVE  Matched'
<1>1. request'[r] = k /\ \A s \in Requests \ {r} : request'[s] = request[s]
  BY DEF Go, DraftsTyped
<1>2. \A o : listMediaAssets(o)' = listMediaAssets(o)
  BY DEF listMediaAssets, DraftsGrow
<1>3. \A o : Shown(o)' = Shown(o)
  BY <1>2 DEF Shown
<1>4. ASSUME overlaps' = 0, NEW n \in DOMAIN posts PROVE PostMatches(n)'
  <2>1. posts[n].source \in Drafts /\ draft[posts[n].source].status # "NONE"
    BY PostsTyped DEF RequestsSound
  <2>2. draft'[posts[n].source] = draft[posts[n].source] /\ posts' = posts
    BY <2>1 DEF DraftsGrow
  <2>3. PostMatches(n)
    BY <1>4 DEF Matched
  <2> QED BY <2>2, <2>3, <1>3 DEF PostMatches
<1>5. ASSUME overlaps' = 0, NEW s \in Requests \ {r} PROVE RequestMatches(request[s])'
  <2>1. PICK h : h = request[s]
    OBVIOUS
  <2>2. RequestMatches(h) /\ RequestSound(h)
    BY <1>5, <2>1 DEF Matched, RequestsSound
  <2>3. h.pc \in Editing => \E d \in Drafts : h.owner = OfDraft(d) /\ h.row = draft'[d]
    <3>1. SUFFICES ASSUME h.pc \in Editing PROVE \E d \in Drafts : h.owner = OfDraft(d) /\ h.row = draft'[d]
      OBVIOUS
    <3>2. PICK d \in Drafts : h.owner = OfDraft(d) /\ h.row = draft[d]
      BY <2>2, <3>1 DEF RequestMatches
    <3>3. draft[d].status = "DRAFT"
      BY <2>2, <3>1, <3>2 DEF RequestSound
    <3> QED BY <3>2, <3>3 DEF DraftsGrow
  <2>4. h.pc \in Copying => draft'[h.version].status = "DRAFT"
    BY <2>2 DEF RequestMatches, RequestSound, DraftsGrow
  <2>5. RequestMatches(h)'
    BY <2>2, <2>3, <2>4, <1>2 DEF RequestMatches, DraftsGrow
  <2> QED BY <2>1, <2>5, <1>1
<1>6. overlaps' = 0 => \A s \in Requests : RequestMatches(request[s])'
  BY <1>1, <1>5
<1> QED BY <1>4, <1>6 DEF Matched, DraftsGrow

(* A draft that has just been made has become no advert. *)
LEMMA CountsGrow ==
  ASSUME DraftsTyped, RequestsSound, DraftsGrow, NEW d \in Drafts
  PROVE  /\ PostsOf(d)' = PostsOf(d)
         /\ draft'[d] = draft[d] \/ (Cardinality(PostsOf(d)) = 0 /\ draft'[d].status = "DRAFT")
<1>1. PostsOf(d)' = PostsOf(d)
  BY DEF PostsOf, DraftsGrow
<1>2. CASE draft'[d] = draft[d]
  BY <1>1, <1>2
<1>3. CASE draft[d].status = "NONE" /\ draft'[d].status = "DRAFT"
  <2>1. PostsOf(d) = {}
    BY <1>3 DEF PostsOf, RequestsSound
  <2> QED BY <1>1, <1>3, <2>1, FS_EmptySet
<1> QED BY <1>2, <1>3 DEF DraftsGrow

(* A request that goes on makes no draft more likely to become an advert.  *)
LEMMA CountedMoves ==
  ASSUME DraftsTyped, RequestsSound, AdvertsCounted, NEW r \in Requests, NEW k \in RequestRecords, Go(r, k),
         DraftsGrow, UNCHANGED overlaps, request[r].pc # "idle",
         k.pc \in Editing => /\ k.owner = request[r].owner
                             /\ \/ request[r].pc \in Editing
                                \/ \A d \in Drafts : k.owner = OfDraft(d) => draft[d].status = "DRAFT"
  PROVE  AdvertsCounted'
<1>0. request'[r] = k /\ \A s \in Requests \ {r} : request'[s] = request[s]
  BY DEF Go, DraftsTyped
<1>1. PICK a, b \in Nat : a = Cardinality(Active) /\ b = Cardinality(Active)' /\ b <= a
  BY ActiveFinite, ActiveMoves
<1>2. a <= 1 + overlaps /\ overlaps \in Nat
  BY <1>1 DEF AdvertsCounted, DraftsTyped
<1>3. ASSUME NEW d \in Drafts PROVE PostsCounted(d)'
  <2>1. PostsOf(d)' = PostsOf(d)
    BY CountsGrow
  <2>2. PICK c \in Nat : c = Cardinality(PostsOf(d))
    BY ActiveFinite
  <2>3. draft'[d] = draft[d] \/ (c = 0 /\ draft'[d].status = "DRAFT")
    BY <2>2, CountsGrow
  <2>4. PostsCounted(d)
    BY DEF AdvertsCounted
  <2>5. Open(d)' => Open(d) \/ c = 0
    BY <1>0, <2>3 DEF Open
  <2>6. Open(d)' => c + b <= 1 + overlaps
    BY <1>1, <1>2, <2>2, <2>4, <2>5 DEF PostsCounted
  <2>7. /\ c <= 1 + overlaps /\ (draft'[d].status = "DRAFT" => c <= overlaps)
        /\ (draft'[d].status = "PUBLISHED" => PostsOf(d) # {})
    BY <1>2, <2>2, <2>3, <2>4 DEF PostsCounted
  <2> QED BY <1>1, <2>1, <2>2, <2>6, <2>7 DEF PostsCounted
<1> QED BY <1>1, <1>2, <1>3 DEF AdvertsCounted

(* A request goes on; at most it makes a draft. *)
LEMMA RequestMoves ==
  ASSUME DraftsInv, NEW r \in Requests, NEW k \in RequestRecords, Go(r, k),
         DraftsGrow, UNCHANGED <<files, overlaps>>, request[r].pc # "idle", RequestSound(k)',
         k.pc \in Copying => \A s \in Requests \ {r} :
                                request[s].pc \in Copying => request[s].version # k.version,
         k.pc \in Editing => /\ k.owner = request[r].owner
                             /\ \/ request[r].pc \in Editing
                                \/ \A d \in Drafts : k.owner = OfDraft(d) => draft[d].status = "DRAFT",
         Crowded(files, [request EXCEPT ![r] = k], overlaps),
         overlaps = 0 => RequestMatches(k)'
  PROVE  DraftsInv'
<1>1. /\ request' = [request EXCEPT ![r] = k] /\ request \in [Requests -> RequestRecords]
      /\ request'[r] = k /\ \A s \in Requests \ {r} : request'[s] = request[s]
  BY DEF Go, DraftsInv, DraftsTyped
<1>2. DraftsTyped'
  BY <1>1 DEF DraftsInv, DraftsTyped, DraftsGrow
<1>3. RequestsSound'
  BY SoundMoves, DraftsStay DEF DraftsInv
<1>4. AdvertsCounted'
  BY CountedMoves DEF DraftsInv
<1>5. FilesCrowded'
  BY <1>1 DEF FilesCrowded, DraftsGrow
<1>6. Matched'
  BY MatchedMoves DEF DraftsInv
<1> QED BY <1>2, <1>3, <1>4, <1>5, <1>6 DEF DraftsInv

(* A request begins; at most it makes a draft. *)
LEMMA RequestBegins ==
  ASSUME DraftsInv, NEW r \in Requests, NEW k \in RequestRecords, Go(r, k), Arrive,
         DraftsGrow, UNCHANGED files, request[r].pc = "idle", RequestSound(k)', k.pc \in {"create", "read", "copy"}
  PROVE  DraftsInv'
<1>1. /\ request' = [request EXCEPT ![r] = k] /\ request \in [Requests -> RequestRecords]
      /\ request'[r] = k /\ \A s \in Requests \ {r} : request'[s] = request[s]
  BY DEF Go, DraftsInv, DraftsTyped
<1>2. /\ overlaps \in Nat /\ overlaps' \in Nat
      /\ overlaps' = IF NoRequest THEN overlaps ELSE overlaps + 1
  BY DEF Arrive, DraftsInv, DraftsTyped
<1>3. DraftsTyped'
  BY <1>1, <1>2 DEF DraftsInv, DraftsTyped, DraftsGrow
<1>4. RequestsSound'
  BY SoundMoves, DraftsStay DEF DraftsInv, Copying
<1>5. AdvertsCounted'
  <2>1. PICK a \in Nat : a = Cardinality(Active) /\ (NoRequest => a = 0)
    <3>1. NoRequest => Active = {}
      BY DEF NoRequest, Active
    <3> QED BY <3>1, ActiveFinite, FS_EmptySet DEF DraftsInv
  <2>2. Cardinality(Active)' = a + 1
    <3>1. Active' = Active \cup {r} /\ r \notin Active
      BY <1>1 DEF Active
    <3> QED BY <2>1, <3>1, ActiveFinite, FS_AddElement DEF DraftsInv
  <2>3. a <= 1 + overlaps
    BY <2>1 DEF DraftsInv, AdvertsCounted
  <2>4. ASSUME NEW d \in Drafts PROVE PostsCounted(d)'
    <3>1. PostsOf(d)' = PostsOf(d)
      BY CountsGrow DEF DraftsInv
    <3>2. PICK c \in Nat : c = Cardinality(PostsOf(d))
      BY ActiveFinite DEF DraftsInv
    <3>3. draft'[d] = draft[d] \/ (c = 0 /\ draft'[d].status = "DRAFT")
      BY <3>2, CountsGrow DEF DraftsInv
    <3>4. PostsCounted(d)
      BY DEF DraftsInv, AdvertsCounted
    <3>5. Open(d)' => Open(d) \/ c = 0
      BY <1>1, <3>3 DEF Open, Editing
    <3>6. /\ c <= 1 + overlaps /\ (draft'[d].status = "DRAFT" => c <= overlaps)
          /\ (draft'[d].status = "PUBLISHED" => PostsOf(d) # {})
      BY <1>2, <3>2, <3>3, <3>4 DEF PostsCounted
    <3>7. Open(d)' => c + (a + 1) <= 1 + overlaps'
      <4>1. CASE NoRequest
        <5>1. Open(d)' => draft'[d].status = "DRAFT"
          BY <4>1, <1>1 DEF Open, NoRequest, Editing
        <5> QED BY <4>1, <5>1, <1>2, <2>1, <3>6
      <4>2. CASE ~NoRequest
        <5>1. Open(d) => c + a <= 1 + overlaps
          BY <2>1, <3>2, <3>4 DEF PostsCounted
        <5> QED BY <4>2, <5>1, <1>2, <2>3, <3>5
      <4> QED BY <4>1, <4>2
    <3>8. /\ c <= 1 + overlaps' /\ (draft'[d].status = "DRAFT" => c <= overlaps')
      BY <1>2, <3>6
    <3> QED BY <2>2, <3>1, <3>2, <3>6, <3>7, <3>8 DEF PostsCounted
  <2>5. a + 1 <= 1 + overlaps'
    BY <1>2, <2>1, <2>3
  <2> QED BY <2>2, <2>4, <2>5 DEF AdvertsCounted
<1>6. FilesCrowded'
  <2>1. Crowded(files, [request EXCEPT ![r] = k], overlaps')
    BY <1>2, FilesReady, CrowdBegins DEF DraftsInv, FilesCrowded, NoRequest
  <2> QED BY <2>1, <1>1 DEF FilesCrowded, DraftsGrow
<1>7. Matched'
  <2>1. RequestMatches(k)'
    BY DEF RequestMatches, Editing, Copying
  <2>2. overlaps' = 0 => overlaps = 0
    BY <1>2
  <2> QED BY <2>1, <2>2, MatchedMoves DEF DraftsInv
<1> QED BY <1>3, <1>4, <1>5, <1>6, <1>7 DEF DraftsInv

-----------------------------------------------------------------------------
LEMMA IdleTyped ==
    /\ Idle \in RequestRecords /\ Idle.pc = "idle" /\ NoDraft \in DraftRows
    /\ RequestSound(Idle)'
    /\ RequestMatches(Idle)'
<1>1. NoDraft \in DraftRows
  BY DEF NoDraft, DraftRows
<1>2. Idle \in RequestRecords /\ Idle.pc = "idle"
  BY <1>1 DEF Idle, RequestRecords
<1> QED BY <1>1, <1>2 DEF RequestSound, RequestMatches, Editing, Copying

(* The greatest version, and the least position, are found.                *)
LEMMA GreatestVersion ==
  ASSUME NEW S \in SUBSET Nat, S # {}, NEW m \in Nat, \A v \in S : v <= m
  PROVE  Max(S) \in S /\ \A v \in S : v <= Max(S)
<1> DEFINE B == {n \in Nat : \A v \in S : v <= n}
<1>1. B \subseteq Nat /\ m \in B
  OBVIOUS
<1>2. PICK n \in B : \A i \in B : ~(<<i, n>> \in OpToRel(<, Nat))
  BY <1>1, WFMin, NatLessThanWellFounded
<1>3. \A i \in B : n <= i
  <2>1. ASSUME NEW i \in B PROVE n <= i
    <3>1. ~(i < n) /\ i \in Nat /\ n \in Nat
      BY <1>1, <1>2 DEF OpToRel
    <3> QED BY <3>1
  <2> QED BY <2>1
<1>4. n \in S
  <2> SUFFICES ASSUME n \notin S PROVE FALSE
    OBVIOUS
  <2>1. PICK v \in S : v \in Nat /\ v <= n /\ v # n
    BY <1>2
  <2>2. n \in Nat /\ n - 1 \in Nat
    BY <1>1, <2>1
  <2>3. \A w \in S : w <= n - 1
    <3>1. ASSUME NEW w \in S PROVE w <= n - 1
      <4>1. w \in Nat /\ w <= n /\ w # n
        BY <1>2
      <4> QED BY <4>1, <2>2
    <3> QED BY <3>1
  <2>4. n - 1 \in B
    BY <2>2, <2>3
  <2>5. n <= n - 1
    BY <1>3, <2>4
  <2> QED BY <2>2, <2>5
<1>5. \E x \in S : \A y \in S : x >= y
  BY <1>2, <1>4
<1> HIDE DEF B
<1>6. Max(S) \in S /\ \A y \in S : Max(S) >= y
  BY <1>5 DEF Max
<1> QED BY <1>6

LEMMA LeastPosition ==
  ASSUME NEW S \in SUBSET Nat, S # {}
  PROVE  Min(S) \in S /\ \A v \in S : Min(S) <= v
<1>1. PICK n \in S : \A i \in S : ~(<<i, n>> \in OpToRel(<, Nat))
  BY WFMin, NatLessThanWellFounded
<1>2. \A i \in S : n <= i
  <2>1. ASSUME NEW i \in S PROVE n <= i
    <3>1. ~(i < n) /\ i \in Nat /\ n \in Nat
      BY <1>1 DEF OpToRel
    <3> QED BY <3>1
  <2> QED BY <2>1
<1>3. Min(S) \in S /\ \A y \in S : Min(S) <= y
  BY <1>2 DEF Min
<1> QED BY <1>3

(* A new draft's id belonged to nothing. *)
LEMMA DraftMade ==
  ASSUME DraftsTyped, RequestsSound, NEW d \in Drafts, NEW content \in Contents \cup {"none"}, Fresh(d),
         NewDraft(d, content), UNCHANGED <<posts, files>>
  PROVE  /\ DraftsGrow /\ draft'[d].status = "DRAFT" /\ Stands(OfDraft(d))'
         /\ Held(files, OfDraft(d)) = {}
         /\ \A s \in Requests : /\ request[s].owner # OfDraft(d)
                                /\ request[s].pc \in Copying => request[s].version # d
<1>1. draft'[d] = [status |-> "DRAFT", content |-> content] /\ draft'[d] \in DraftRows
      /\ \A e \in Drafts \ {d} : draft'[e] = draft[e]
  BY DEF NewDraft, DraftsTyped, DraftRows
<1>2. DraftsGrow
  <2>1. draft' \in [Drafts -> DraftRows]
    BY <1>1 DEF NewDraft, DraftsTyped
  <2> QED BY <1>1, <2>1 DEF DraftsGrow, Fresh
<1>3. ~Stands(OfDraft(d))
  BY OwnersDiffer DEF Stands, Fresh
<1>4. Held(files, OfDraft(d)) = {}
  BY <1>3 DEF Held, RequestsSound
<1>5. \A s \in Requests : /\ request[s].owner # OfDraft(d)
                          /\ request[s].pc \in Copying => request[s].version # d
  BY DEF Fresh, RequestsSound, RequestSound
<1>6. Stands(OfDraft(d))'
  BY <1>1 DEF Stands
<1>7. draft'[d].status = "DRAFT"
  BY <1>1
<1> QED BY <1>2, <1>4, <1>5, <1>6, <1>7

LEMMA DraftsSame ==
  ASSUME DraftsTyped, UNCHANGED <<draft, posts>>
  PROVE  DraftsGrow
BY DEF DraftsTyped, DraftsGrow

-----------------------------------------------------------------------------
(* Each operation keeps the invariant.                                     *)
LEMMA createDraftKept ==
  ASSUME DraftsInv, NEW r \in Requests, createDraft(r)
  PROVE  DraftsInv'
<1>1. PICK d \in Drafts, content \in Contents :
         /\ Fresh(d) /\ NewDraft(d, content)
         /\ Go(r, [Idle EXCEPT !.pc = "create", !.owner = OfDraft(d)])
  BY DEF createDraft
<1>2. PICK k : k = [Idle EXCEPT !.pc = "create", !.owner = OfDraft(d)]
  OBVIOUS
<1>3. k \in RequestRecords /\ k.pc = "create" /\ k.owner = OfDraft(d)
  BY <1>2, IdleTyped, OwnersDiffer DEF RequestRecords
<1>4. DraftsGrow /\ Stands(OfDraft(d))'
  BY <1>1, DraftMade DEF createDraft, DraftsInv
<1>5. RequestSound(k)'
  BY <1>3, <1>4 DEF RequestSound, Editing, Copying
<1> QED BY <1>1, <1>2, <1>3, <1>4, <1>5, RequestBegins DEF createDraft, At

LEMMA beginDraftKept ==
  ASSUME DraftsInv, NEW r \in Requests, beginDraft(r)
  PROVE  DraftsInv'
<1>1. PICK d \in Drafts, op \in {"update", "media", "publish", "duplicate"} :
         /\ draft[d].status # "NONE"
         /\ Go(r, [Idle EXCEPT !.pc = "read", !.op = op, !.owner = OfDraft(d)])
  BY DEF beginDraft
<1>2. PICK k : k = [Idle EXCEPT !.pc = "read", !.op = op, !.owner = OfDraft(d)]
  OBVIOUS
<1>3. k \in RequestRecords /\ k.pc = "read" /\ k.owner = OfDraft(d)
  BY <1>2, IdleTyped, OwnersDiffer DEF RequestRecords
<1>4. DraftsGrow
  BY DraftsSame DEF beginDraft, DraftsInv
<1>5. RequestSound(k)'
  BY <1>1, <1>3 DEF RequestSound, Editing, Copying, Stands, beginDraft
<1> QED BY <1>1, <1>2, <1>3, <1>4, <1>5, RequestBegins DEF beginDraft, At

LEMMA duplicateAdvertKept ==
  ASSUME DraftsInv, NEW r \in Requests, duplicateAdvert(r)
  PROVE  DraftsInv'
<1>1. PICK n \in DOMAIN posts :
         Go(r, [Idle EXCEPT !.pc = "copy", !.op = "duplicate", !.owner = OfPost(n),
                            !.row = [status |-> "DRAFT", content |-> posts[n].content]])
  BY DEF duplicateAdvert
<1>2. PICK k : k = [Idle EXCEPT !.pc = "copy", !.op = "duplicate", !.owner = OfPost(n),
                                !.row = [status |-> "DRAFT", content |-> posts[n].content]]
  OBVIOUS
<1>3. k \in RequestRecords /\ k.pc = "copy" /\ k.owner = OfPost(n)
  <2>1. OfPost(n) \in PossibleOwners
    BY PostsTyped, OwnersDiffer DEF DraftsInv
  <2>2. [status |-> "DRAFT", content |-> posts[n].content] \in DraftRows
    BY PostsTyped DEF DraftRows, DraftsInv
  <2> QED BY <1>2, <2>1, <2>2, IdleTyped DEF RequestRecords
<1>4. DraftsGrow
  BY DraftsSame DEF duplicateAdvert, DraftsInv
<1>5. RequestSound(k)'
  BY <1>3 DEF RequestSound, Editing, Copying, Stands, duplicateAdvert
<1> QED BY <1>1, <1>2, <1>3, <1>4, <1>5, RequestBegins DEF duplicateAdvert, At

(* A request that ends, or dies, with nothing changed. *)
LEMMA RequestEnds ==
  ASSUME DraftsInv, NEW r \in Requests, Go(r, Idle), request[r].pc # "idle",
         UNCHANGED <<draft, posts, files, overlaps>>
  PROVE  DraftsInv'
<1>1. PICK k : k = Idle
  OBVIOUS
<1>2. k \in RequestRecords /\ k.pc = "idle" /\ RequestSound(k)' /\ RequestMatches(k)'
  BY <1>1, IdleTyped
<1>3. DraftsGrow
  BY DraftsSame DEF DraftsInv
<1>4. Crowded(files, [request EXCEPT ![r] = k], overlaps)
  BY <1>2, FilesReady, CrowdSettles DEF DraftsInv, FilesCrowded
<1> QED BY <1>1, <1>2, <1>3, <1>4, RequestMoves DEF Editing, Copying

LEMMA createAdvertKept ==
  ASSUME DraftsInv, NEW r \in Requests, createAdvert(r)
  PROVE  DraftsInv'
<1>1. request[r].pc = "create" /\ request[r] \in RequestRecords /\ RequestSound(request[r])
  BY DEF createAdvert, At, DraftsInv, DraftsTyped, RequestsSound
<1>2. CASE Go(r, Idle)
  BY <1>1, <1>2, RequestEnds DEF createAdvert
<1>3. CASE Go(r, [request[r] EXCEPT !.pc = "read", !.op = "publish"])
  <2>1. PICK k : k = [request[r] EXCEPT !.pc = "read", !.op = "publish"]
    OBVIOUS
  <2>2. k \in RequestRecords /\ k.pc = "read" /\ k.owner = request[r].owner
    BY <1>1, <2>1 DEF RequestRecords
  <2>3. DraftsGrow
    BY DraftsSame DEF createAdvert, DraftsInv
  <2>4. RequestSound(k)' /\ RequestMatches(k)'
    BY <1>1, <2>2 DEF RequestSound, RequestMatches, Editing, Copying, Stands, createAdvert
  <2>5. Crowded(files, [request EXCEPT ![r] = k], overlaps)
    BY <1>1, <2>2, FilesReady, CrowdSettles DEF DraftsInv, FilesCrowded
  <2> QED BY <1>1, <1>3, <2>1, <2>2, <2>3, <2>4, <2>5, RequestMoves DEF createAdvert, Editing, Copying
<1> QED BY <1>2, <1>3 DEF createAdvert

LEMMA getDraftKept ==
  ASSUME DraftsInv, NEW r \in Requests, getDraft(r)
  PROVE  DraftsInv'
<1>1. request[r].pc = "read" /\ request[r] \in RequestRecords /\ RequestSound(request[r])
  BY DEF getDraft, At, DraftsInv, DraftsTyped, RequestsSound
<1>2. PICK d \in Drafts : request[r].owner = OfDraft(d) /\ request[r].owner[2] = d
  BY <1>1 DEF RequestSound, OfDraft
<1>3. draft[d] \in DraftRows
  BY DEF DraftsInv, DraftsTyped
<1>4. CASE draft[d].status # "DRAFT" /\ request[r].op # "duplicate"
  <2>1. Go(r, Idle)
    BY <1>2, <1>4 DEF getDraft
  <2> QED BY <1>1, <2>1, RequestEnds DEF getDraft
<1>5. CASE ~(draft[d].status # "DRAFT" /\ request[r].op # "duplicate")
  <2>1. PICK pc : pc = CASE request[r].op = "update" -> "save"
                         [] request[r].op = "duplicate" -> "copy" [] OTHER -> "list"
    OBVIOUS
  <2>2. /\ pc \in {"save", "copy", "list"}
        /\ pc # "copy" => draft[d].status = "DRAFT"
    BY <2>1, <1>5
  <2>3. PICK k : k = [request[r] EXCEPT !.row = draft[d], !.pc = pc]
    OBVIOUS
  <2>4. k \in RequestRecords /\ k.pc = pc /\ k.owner = request[r].owner /\ k.row = draft[d]
    BY <1>1, <1>3, <2>2, <2>3 DEF RequestRecords
  <2>5. Go(r, k)
    BY <1>2, <1>5, <2>1, <2>3 DEF getDraft
  <2>6. DraftsGrow
    BY DraftsSame DEF getDraft, DraftsInv
  <2>7. RequestSound(k)' /\ RequestMatches(k)'
    BY <1>1, <1>2, <2>2, <2>4 DEF RequestSound, RequestMatches, Editing, Copying, Stands, getDraft
  <2>8. Crowded(files, [request EXCEPT ![r] = k], overlaps)
    BY <1>1, <2>2, <2>4, FilesReady, CrowdSettles DEF DraftsInv, FilesCrowded
  <2>9. k.pc \in Editing => k.owner = request[r].owner
            /\ \A e \in Drafts : k.owner = OfDraft(e) => draft[e].status = "DRAFT"
    BY <1>2, <2>2, <2>4, OwnersDiffer DEF Editing
  <2> QED BY <1>1, <2>2, <2>4, <2>5, <2>6, <2>7, <2>8, <2>9, RequestMoves DEF getDraft, Copying
<1> QED BY <1>4, <1>5

LEMMA listDraftMediaKept ==
  ASSUME DraftsInv, NEW r \in Requests, listDraftMedia(r)
  PROVE  DraftsInv'
<1>1. request[r].pc = "list" /\ request[r] \in RequestRecords /\ RequestSound(request[r])
  BY DEF listDraftMedia, At, DraftsInv, DraftsTyped, RequestsSound
<1>2. PICK pc : pc = IF request[r].op = "media" THEN "attach" ELSE "version"
  OBVIOUS
<1>3. PICK k : k = [request[r] EXCEPT !.listed = listMediaAssets(request[r].owner), !.pc = pc]
  OBVIOUS
<1>4. Go(r, k)
  BY <1>2, <1>3 DEF listDraftMedia
<1>5. /\ k \in RequestRecords /\ k.pc \in {"attach", "version"} /\ k.owner = request[r].owner
      /\ k.row = request[r].row /\ k.listed = listMediaAssets(k.owner)
  <2>1. listMediaAssets(request[r].owner) \in SUBSET FileRecords
    BY DEF listMediaAssets, DraftsInv, DraftsTyped
  <2> QED BY <1>1, <1>2, <1>3, <2>1 DEF RequestRecords
<1>6. DraftsGrow
  BY DraftsSame DEF listDraftMedia, DraftsInv
<1>7. listMediaAssets(k.owner)' = listMediaAssets(k.owner)
  BY DEF listMediaAssets, listDraftMedia
<1>8. RequestSound(k)'
  BY <1>1, <1>5, <1>7 DEF RequestSound, Editing, Copying, Stands, listDraftMedia
<1>9. overlaps = 0 => RequestMatches(k)'
  <2>1. overlaps = 0 => RequestMatches(request[r])
    BY DEF DraftsInv, Matched
  <2> QED BY <1>1, <1>5, <1>7, <2>1 DEF RequestMatches, Editing, Copying, listDraftMedia
<1>10. Crowded(files, [request EXCEPT ![r] = k], overlaps)
  <2>1. k.listed = Held(files, k.owner)
    BY <1>5 DEF Held, listMediaAssets
  <2> QED BY <1>1, <1>5, <2>1, FilesReady, CrowdSettles DEF DraftsInv, FilesCrowded
<1> QED BY <1>1, <1>4, <1>5, <1>6, <1>8, <1>9, <1>10, RequestMoves DEF listDraftMedia, Editing, Copying

LEMMA nextVersionKept ==
  ASSUME DraftsInv, NEW r \in Requests, nextVersion(r)
  PROVE  DraftsInv'
<1>1. request[r].pc = "version" /\ request[r] \in RequestRecords /\ RequestSound(request[r])
  BY DEF nextVersion, At, DraftsInv, DraftsTyped, RequestsSound
<1> DEFINE S == {posts[n].version : n \in DOMAIN posts}
<1>2. PICK v : v = IF posts = <<>> THEN 1 ELSE Max(S) + 1
  OBVIOUS
<1>3. /\ DOMAIN posts = 1..Len(posts) /\ Len(posts) \in Nat
      /\ posts = <<>> => Len(posts) = 0
      /\ posts # <<>> => Len(posts) >= 1
  BY DEF DraftsInv, DraftsTyped
<1>4. posts # <<>> => Max(S) \in S /\ \A x \in S : x <= Max(S)
  <2> SUFFICES ASSUME posts # <<>> PROVE Max(S) \in S /\ \A x \in S : x <= Max(S)
    OBVIOUS
  <2>1. PICK m \in Nat : \A n \in DOMAIN posts : posts[n].version <= m
    BY DEF DraftsInv, DraftsTyped
  <2>2. S \in SUBSET Nat
    BY PostsTyped DEF DraftsInv
  <2>3. posts[1].version \in S
    BY <1>3
  <2>4. \A x \in S : x <= m
    BY <2>1
  <2> HIDE DEF S
  <2> QED BY <2>2, <2>3, <2>4, GreatestVersion
<1>5. v \in Nat
  <2>1. S \subseteq Nat
    BY PostsTyped DEF DraftsInv
  <2> HIDE DEF S
  <2>2. CASE posts = <<>>
    BY <1>2, <2>2
  <2>3. CASE posts # <<>>
    <3>1. PICK m : m = Max(S)
      OBVIOUS
    <3>2. m \in Nat /\ v = m + 1
      BY <1>2, <1>4, <2>1, <2>3, <3>1
    <3> QED BY <3>2
  <2> QED BY <2>2, <2>3
<1>6. overlaps = 0 => v = Len(posts) + 1
  <2> SUFFICES ASSUME overlaps = 0 PROVE v = Len(posts) + 1
    OBVIOUS
  <2>1. \A n \in DOMAIN posts : posts[n].version = n
    BY DEF DraftsInv, Matched, PostMatches
  <2>2. CASE posts = <<>>
    BY <1>2, <1>3, <2>2
  <2>3. CASE posts # <<>>
    <3>1. S = 1..Len(posts)
      BY <1>3, <2>1
    <3> HIDE DEF S
    <3>2. PICK l \in Nat : l = Len(posts) /\ l >= 1
      BY <1>3, <2>3
    <3>3. PICK m : m = Max(S)
      OBVIOUS
    <3>4. m \in 1..l /\ \A x \in 1..l : x <= m
      BY <1>4, <2>3, <3>1, <3>2, <3>3
    <3>5. m = l
      BY <3>2, <3>4
    <3> QED BY <1>2, <2>3, <3>2, <3>3, <3>5
  <2> QED BY <2>2, <2>3
<1>7. PICK k : k = [request[r] EXCEPT !.pc = "publish", !.version = v]
  OBVIOUS
<1>8. Go(r, k)
  BY <1>2, <1>7 DEF nextVersion
<1>9. /\ k \in RequestRecords /\ k.pc = "publish" /\ k.owner = request[r].owner
      /\ k.row = request[r].row /\ k.listed = request[r].listed /\ k.version = v
  <2> HIDE DEF S
  <2> QED BY <1>1, <1>5, <1>7 DEF RequestRecords
<1>10. DraftsGrow
  BY DraftsSame DEF nextVersion, DraftsInv
<1>11. \A o : listMediaAssets(o)' = listMediaAssets(o)
  BY DEF listMediaAssets, nextVersion
<1>12. RequestSound(k)'
  BY <1>1, <1>5, <1>9, <1>11 DEF RequestSound, Editing, Copying, Stands, nextVersion
<1>13. overlaps = 0 => RequestMatches(k)'
  <2>1. overlaps = 0 => RequestMatches(request[r])
    BY DEF DraftsInv, Matched
  <2>2. posts' = posts /\ draft' = draft
    BY DEF nextVersion
  <2> HIDE DEF S
  <2> QED BY <1>1, <1>6, <1>9, <1>11, <2>1, <2>2 DEF RequestMatches, Editing, Copying
<1>14. Crowded(files, [request EXCEPT ![r] = k], overlaps)
  BY <1>1, <1>9, FilesReady, CrowdSettles DEF DraftsInv, FilesCrowded
<1> HIDE DEF S
<1> QED BY <1>1, <1>8, <1>9, <1>10, <1>12, <1>13, <1>14, RequestMoves DEF nextVersion, Editing, Copying

LEMMA createDuplicateDraftKept ==
  ASSUME DraftsInv, NEW r \in Requests, createDuplicateDraft(r)
  PROVE  DraftsInv'
<1>1. request[r].pc = "copy" /\ request[r] \in RequestRecords /\ RequestSound(request[r])
  BY DEF createDuplicateDraft, At, DraftsInv, DraftsTyped, RequestsSound
<1>2. PICK d \in Drafts : /\ Fresh(d) /\ NewDraft(d, request[r].row.content)
                          /\ Go(r, [request[r] EXCEPT !.pc = "files", !.version = d])
  BY DEF createDuplicateDraft
<1>3. PICK k : k = [request[r] EXCEPT !.pc = "files", !.version = d]
  OBVIOUS
<1>4. k \in RequestRecords /\ k.pc = "files" /\ k.owner = request[r].owner /\ k.version = d
  BY <1>1, <1>3 DEF RequestRecords
<1>5. request[r].row.content \in Contents \cup {"none"}
  BY <1>1 DEF RequestRecords, DraftRows
<1>6. /\ DraftsGrow /\ draft'[d].status = "DRAFT" /\ Held(files, OfDraft(d)) = {}
      /\ \A s \in Requests : /\ request[s].owner # OfDraft(d)
                             /\ request[s].pc \in Copying => request[s].version # d
  BY <1>2, <1>5, DraftMade DEF createDuplicateDraft, DraftsInv
<1>7. RequestSound(k)' /\ RequestMatches(k)'
  <2>1. Stands(k.owner)'
    BY <1>1, <1>4, <1>6 DEF RequestSound, Stands, DraftsGrow
  <2> QED BY <1>4, <1>6, <2>1 DEF RequestSound, RequestMatches, Editing, Copying
<1>8. Crowded(files, [request EXCEPT ![r] = k], overlaps)
  <2>1. \A s \in Requests : ~CopiesInto(request[s], OfDraft(d))
    BY <1>6, OwnersDiffer DEF CopiesInto, Copying
  <2> QED BY <1>1, <1>4, <1>6, <2>1, FilesReady, CrowdDuplicates DEF DraftsInv, FilesCrowded
<1> QED BY <1>1, <1>2, <1>3, <1>4, <1>6, <1>7, <1>8, RequestMoves DEF createDuplicateDraft, Editing, Copying

LEMMA copyAdvertMediaKept ==
  ASSUME DraftsInv, NEW r \in Requests, copyAdvertMedia(r)
  PROVE  DraftsInv'
<1>1. request[r].pc = "files" /\ request[r] \in RequestRecords /\ RequestSound(request[r])
  BY DEF copyAdvertMedia, At, DraftsInv, DraftsTyped, RequestsSound
<1>2. PICK k : k = [request[r] EXCEPT !.pc = "each", !.listed = listMediaAssets(request[r].owner)]
  OBVIOUS
<1>3. /\ k \in RequestRecords /\ k.pc = "each" /\ k.owner = request[r].owner
      /\ k.version = request[r].version /\ k.listed = listMediaAssets(k.owner)
  <2>1. listMediaAssets(request[r].owner) \in SUBSET FileRecords
    BY DEF listMediaAssets, DraftsInv, DraftsTyped
  <2> QED BY <1>1, <1>2, <2>1 DEF RequestRecords
<1>4. DraftsGrow
  BY DraftsSame DEF copyAdvertMedia, DraftsInv
<1>5. listMediaAssets(k.owner)' = listMediaAssets(k.owner)
  BY DEF listMediaAssets, copyAdvertMedia
<1>6. RequestSound(k)'
  BY <1>1, <1>3, <1>5 DEF RequestSound, Editing, Copying, Stands, copyAdvertMedia
<1>7. overlaps = 0 => RequestMatches(k)'
  <2>1. overlaps = 0 => RequestMatches(request[r])
    BY DEF DraftsInv, Matched
  <2> QED BY <1>1, <1>3, <2>1 DEF RequestMatches, Editing, Copying, copyAdvertMedia
<1>8. Crowded(files, [request EXCEPT ![r] = k], overlaps)
  <2>1. k.listed = Held(files, k.owner)
    BY <1>3 DEF Held, listMediaAssets
  <2> QED BY <1>1, <1>3, <2>1, FilesReady, CrowdLists DEF DraftsInv, FilesCrowded
<1>9. \A s \in Requests \ {r} : request[s].pc \in Copying => request[s].version # k.version
  BY <1>1, <1>3 DEF DraftsInv, RequestsSound, Copying
<1> QED BY <1>1, <1>2, <1>3, <1>4, <1>6, <1>7, <1>8, <1>9, RequestMoves DEF copyAdvertMedia, Editing

LEMMA AbandonKept ==
  ASSUME DraftsInv, NEW r \in Requests, Abandon(r)
  PROVE  DraftsInv'
BY RequestEnds DEF Abandon, At

(* While requests come one at a time, no two are in progress. *)
LEMMA OneAtATime ==
  ASSUME DraftsTyped, AdvertsCounted, overlaps = 0, NEW r \in Requests, NEW s \in Requests,
         request[r].pc # "idle", request[s].pc # "idle"
  PROVE  r = s
<1>1. IsFiniteSet(Active) /\ Cardinality(Active) \in Nat /\ Cardinality(Active) <= 1
  BY ActiveFinite DEF AdvertsCounted
<1>2. r \in Active /\ s \in Active
  BY DEF Active
<1>3. Cardinality(Active) # 0
  BY <1>1, <1>2, FS_EmptySet
<1>4. Cardinality(Active) = 1
  BY <1>1, <1>3
<1>5. \E x : Active = {x}
  BY <1>1, <1>4, FS_Singleton
<1> QED BY <1>2, <1>5

LEMMA updateDraftKept ==
  ASSUME DraftsInv, NEW r \in Requests, updateDraft(r)
  PROVE  DraftsInv'
<1>1. request[r].pc = "save" /\ request[r] \in RequestRecords /\ RequestSound(request[r])
  BY DEF updateDraft, At, DraftsInv, DraftsTyped, RequestsSound
<1>2. PICK d \in Drafts : request[r].owner = OfDraft(d) /\ request[r].owner[2] = d
  BY <1>1 DEF RequestSound, OfDraft, Editing
<1>3. PICK content \in Contents \cup {"none"} :
          draft' = [draft EXCEPT ![request[r].owner[2]] = [request[r].row EXCEPT !.content = content]]
  <2>1. request[r].row.content \in Contents \cup {"none"}
    BY <1>1 DEF RequestRecords, DraftRows
  <2> QED BY <2>1 DEF updateDraft
<1>4. PICK row : row = [request[r].row EXCEPT !.content = content]
  OBVIOUS
<1>5. row \in DraftRows /\ row.status = "DRAFT"
  <2>1. request[r].row \in DraftRows /\ request[r].row.status = "DRAFT"
    BY <1>1 DEF RequestRecords, RequestSound, Editing
  <2> QED BY <1>4, <2>1 DEF DraftRows
<1>6. /\ draft' = [draft EXCEPT ![d] = row] /\ draft'[d] = row
      /\ \A e \in Drafts \ {d} : draft'[e] = draft[e]
  BY <1>2, <1>3, <1>4 DEF DraftsInv, DraftsTyped
<1>7. PICK k : k = Idle
  OBVIOUS
<1>8. k \in RequestRecords /\ k.pc = "idle" /\ RequestSound(k)' /\ Go(r, k)
  BY <1>7, IdleTyped DEF updateDraft
<1>9. /\ request' = [request EXCEPT ![r] = k] /\ request'[r] = k
      /\ \A s \in Requests \ {r} : request'[s] = request[s]
  BY <1>8 DEF Go, DraftsInv, DraftsTyped
<1>10. UNCHANGED <<posts, files, overlaps>>
  BY DEF updateDraft
<1>11. DraftsTyped'
  BY <1>5, <1>6, <1>8, <1>9, <1>10 DEF DraftsInv, DraftsTyped
<1>12. RequestsSound'
  <2>1. \A e \in Drafts : draft[e].status # "NONE" => draft'[e].status # "NONE"
    BY <1>5, <1>6
  <2>2. (\A n \in DOMAIN posts : draft[posts[n].source].status # "NONE")'
    BY <1>10, <2>1, PostsTyped DEF DraftsInv, RequestsSound
  <2> QED BY <1>8, <1>10, <2>1, <2>2, SoundMoves DEF DraftsInv, Copying
<1>13. AdvertsCounted'
  <2>1. PICK a, b \in Nat : a = Cardinality(Active) /\ b = Cardinality(Active)' /\ b + 1 = a
    BY <1>1, <1>8, ActiveFinite, ActiveMoves DEF DraftsInv
  <2>2. a <= 1 + overlaps /\ overlaps \in Nat
    BY <2>1 DEF DraftsInv, AdvertsCounted, DraftsTyped
  <2>3. ASSUME NEW e \in Drafts PROVE PostsCounted(e)'
    <3>1. PostsOf(e)' = PostsOf(e)
      BY <1>10 DEF PostsOf
    <3>2. PICK c \in Nat : c = Cardinality(PostsOf(e))
      BY ActiveFinite DEF DraftsInv
    <3>3. PostsCounted(e)
      BY DEF DraftsInv, AdvertsCounted
    <3>4. Open(e)' => Open(e)
      <4>1. CASE e = d
        BY <4>1, <1>1, <1>2 DEF Open, Editing
      <4>2. CASE e # d
        BY <4>2, <1>6, <1>8, <1>9 DEF Open, Editing
      <4> QED BY <4>1, <4>2
    <3>5. Open(e)' => c + b <= 1 + overlaps
      BY <2>1, <2>2, <3>2, <3>3, <3>4 DEF PostsCounted
    <3>6. draft'[e].status = "DRAFT" => c <= overlaps
      <4>1. CASE e = d
        <5>1. Open(d)
          BY <1>1, <1>2 DEF Open, Editing
        <5> QED BY <4>1, <5>1, <2>1, <2>2, <3>2, <3>3 DEF PostsCounted
      <4>2. CASE e # d
        BY <4>2, <1>6, <3>2, <3>3 DEF PostsCounted
      <4> QED BY <4>1, <4>2
    <3>7. draft'[e].status = "PUBLISHED" => PostsOf(e) # {}
      BY <1>5, <1>6, <3>3 DEF PostsCounted
    <3>8. c <= 1 + overlaps
      BY <3>2, <3>3 DEF PostsCounted
    <3> QED BY <1>10, <2>1, <3>1, <3>2, <3>5, <3>6, <3>7, <3>8 DEF PostsCounted
  <2> QED BY <1>10, <2>1, <2>2, <2>3 DEF AdvertsCounted
<1>14. FilesCrowded'
  <2>1. Crowded(files, [request EXCEPT ![r] = k], overlaps)
    BY <1>1, <1>8, FilesReady, CrowdSettles DEF DraftsInv, FilesCrowded
  <2> QED BY <2>1, <1>9, <1>10 DEF FilesCrowded
<1>15. Matched'
  <2>1. ASSUME overlaps = 0, NEW s \in Requests PROVE RequestMatches(request[s])'
    <3>1. s # r => request[s].pc = "idle"
      BY <1>1, <2>1, OneAtATime DEF DraftsInv
    <3>2. request'[s].pc = "idle"
      BY <1>8, <1>9, <3>1
    <3> QED BY <3>2 DEF RequestMatches, Editing, Copying
  <2>2. ASSUME overlaps = 0, NEW n \in DOMAIN posts PROVE PostMatches(n)'
    <3>1. PostMatches(n) /\ posts[n].source \in Drafts
      BY <2>2, PostsTyped DEF DraftsInv, Matched
    <3>2. draft[d].status = "DRAFT"
      <4>1. RequestMatches(request[r])
        BY <2>2 DEF DraftsInv, Matched
      <4>2. draft[d] = request[r].row
        BY <4>1, <1>1, <1>2, OwnersDiffer DEF RequestMatches, Editing
      <4> QED BY <4>2, <1>1 DEF RequestSound, Editing
    <3>3. posts[n].source # d
      BY <3>1, <3>2 DEF PostMatches
    <3>4. \A o : Shown(o)' = Shown(o)
      BY <1>10 DEF Shown, listMediaAssets
    <3> QED BY <3>1, <3>3, <3>4, <1>6, <1>10 DEF PostMatches
  <2> QED BY <2>1, <2>2, <1>10 DEF Matched
<1> QED BY <1>11, <1>12, <1>13, <1>14, <1>15 DEF DraftsInv

(* A request adds one file to a draft. *)
LEMMA FileMade ==
  ASSUME DraftsInv, NEW r \in Requests, NEW k \in RequestRecords, Go(r, k),
         UNCHANGED <<draft, posts, overlaps>>, request[r].pc # "idle",
         NEW d \in Drafts, draft[d].status # "NONE",
         NEW g \in FileRecords, g.owner = OfDraft(d), files' = files \cup {g},
         RequestSound(k)',
         k.pc \in Copying => \A s \in Requests \ {r} :
                                request[s].pc \in Copying => request[s].version # k.version,
         k.pc \in Editing => k.owner = request[r].owner /\ request[r].pc \in Editing,
         Crowded(files \cup {g}, [request EXCEPT ![r] = k], overlaps),
         overlaps = 0 => draft[d].status = "DRAFT" /\ RequestMatches(k)'
  PROVE  DraftsInv'
<1>1. /\ request' = [request EXCEPT ![r] = k] /\ request \in [Requests -> RequestRecords]
      /\ request'[r] = k /\ \A s \in Requests \ {r} : request'[s] = request[s]
  BY DEF Go, DraftsInv, DraftsTyped
<1>2. DraftsTyped'
  <2>1. IsFiniteSet(files')
    BY FS_AddElement DEF DraftsInv, DraftsTyped
  <2> QED BY <1>1, <2>1 DEF DraftsInv, DraftsTyped
<1>3. DraftsGrow
  BY DraftsSame DEF DraftsInv
<1>4. RequestsSound'
  <2>1. \A f \in files' \ files : Stands(f.owner)'
    BY DEF Stands
  <2>2. files \subseteq files'
    OBVIOUS
  <2> QED BY <2>1, <2>2, <1>3, SoundMoves, DraftsStay DEF DraftsInv
<1>5. AdvertsCounted'
  BY <1>3, CountedMoves DEF DraftsInv
<1>6. FilesCrowded'
  BY <1>1 DEF FilesCrowded
<1>7. Matched'
  <2>1. ASSUME overlaps = 0, NEW s \in Requests PROVE RequestMatches(request[s])'
    <3>1. CASE s = r
      BY <3>1, <1>1, <2>1
    <3>2. CASE s # r
      <4>1. request[s].pc = "idle"
        BY <3>2, <2>1, OneAtATime DEF DraftsInv
      <4>2. request'[s].pc = "idle"
        BY <1>1, <3>2, <4>1
      <4> QED BY <4>2 DEF RequestMatches, Editing, Copying
    <3> QED BY <3>1, <3>2
  <2>2. ASSUME overlaps = 0, NEW n \in DOMAIN posts PROVE PostMatches(n)'
    <3>1. PostMatches(n) /\ posts[n].source \in Drafts
      BY <2>2, PostsTyped DEF DraftsInv, Matched
    <3>2. posts[n].source # d
      BY <3>1, <2>2 DEF PostMatches
    <3>3. Shown(OfPost(n))' = Shown(OfPost(n)) /\ Shown(OfDraft(posts[n].source))' = Shown(OfDraft(posts[n].source))
      <4>1. \A o : o # OfDraft(d) => listMediaAssets(o)' = listMediaAssets(o)
        BY DEF listMediaAssets
      <4>2. \A o : o # OfDraft(d) => Shown(o)' = Shown(o)
        BY <4>1 DEF Shown
      <4>3. OfPost(n) # OfDraft(d) /\ OfDraft(posts[n].source) # OfDraft(d)
        BY <3>2, OwnersDiffer
      <4> QED BY <4>2, <4>3
    <3> QED BY <3>1, <3>3 DEF PostMatches
  <2> QED BY <2>1, <2>2 DEF Matched
<1> QED BY <1>2, <1>4, <1>5, <1>6, <1>7 DEF DraftsInv

(* The position the service finds is one there is. *)
LEMMA PositionFound ==
  ASSUME NEW L, IsFiniteSet(L), Cardinality(L) < MaxItems
  PROVE  nextMediaDisplayOrder(L) \in 0..(MaxItems - 1)
<1> DEFINE free == 0..(MaxItems - 1) \ OrdersOf(L)
<1>1. CASE free = {}
  <2>1. nextMediaDisplayOrder(L) = Cardinality(L)
    BY <1>1 DEF nextMediaDisplayOrder
  <2>2. Cardinality(L) \in Nat
    BY FS_CardinalityType
  <2> QED BY <2>1, <2>2, DraftsAssumption
<1>2. CASE free # {}
  <2>1. nextMediaDisplayOrder(L) = Min(free)
    BY <1>2 DEF nextMediaDisplayOrder
  <2>2. free \in SUBSET Nat
    OBVIOUS
  <2>3. Min(free) \in free
    <3> HIDE DEF free
    <3> QED BY <1>2, <2>2, LeastPosition
  <2> QED BY <2>1, <2>3
<1> QED BY <1>1, <1>2

LEMMA addMediaKept ==
  ASSUME DraftsInv, NEW r \in Requests, addMedia(r)
  PROVE  DraftsInv'
<1>1. request[r].pc = "attach" /\ request[r] \in RequestRecords /\ RequestSound(request[r])
  BY DEF addMedia, At, DraftsInv, DraftsTyped, RequestsSound
<1>2. UNCHANGED <<draft, posts, overlaps>>
  BY DEF addMedia
<1>3. CASE Go(r, Idle) /\ UNCHANGED files
  BY <1>1, <1>2, <1>3, RequestEnds
<1>4. CASE ~(Go(r, Idle) /\ UNCHANGED files)
  <2> DEFINE L == request[r].listed
  <2>1. ~(Cardinality(L) >= MaxItems)
    BY <1>4 DEF addMedia
  <2>2. PICK order \in {nextMediaDisplayOrder(L)} \cup 0..(MaxItems - 1) :
           /\ order \notin OrdersOf(L)
           /\ files' = files \cup {[owner |-> request[r].owner, order |-> order,
                                    upload |-> Cardinality(Uploads) + 1,
                                    status |-> "READY_FOR_PREVIEW"]}
           /\ Go(r, [request[r] EXCEPT !.pc = "save"])
    BY <1>4, <2>1 DEF addMedia
  <2>3. PICK d \in Drafts : request[r].owner = OfDraft(d)
    BY <1>1 DEF RequestSound, Editing
  <2>4. draft[d].status # "NONE"
    BY <1>1, <2>3, OwnersDiffer DEF RequestSound, Stands
  <2>5. IsFiniteSet(L)
    <3>1. L \in SUBSET files /\ IsFiniteSet(files)
      BY <1>1 DEF RequestSound, listMediaAssets, DraftsInv, DraftsTyped
    <3> QED BY <3>1, FS_Subset
  <2>6. order \in 0..(MaxItems - 1)
    <3>1. Cardinality(L) < MaxItems
      BY <2>1, <2>5, FS_CardinalityType, DraftsAssumption
    <3>2. nextMediaDisplayOrder(L) \in 0..(MaxItems - 1)
      BY <2>5, <3>1, PositionFound
    <3> QED BY <2>2, <3>2
  <2>7. Cardinality(Uploads) + 1 \in Nat
    <3> DEFINE u == [f \in files |-> f.upload]
    <3>1. u \in Surjection(files, Uploads) /\ IsFiniteSet(files)
      BY DEF Surjection, Uploads, DraftsInv, DraftsTyped
    <3> HIDE DEF u
    <3>2. IsFiniteSet(Uploads)
      BY <3>1, FS_Surjection
    <3>3. Cardinality(Uploads) \in Nat
      BY <3>2, FS_CardinalityType
    <3> QED BY <3>3
  <2>8. PICK g : g = [owner |-> request[r].owner, order |-> order, upload |-> Cardinality(Uploads) + 1,
                      status |-> "READY_FOR_PREVIEW"]
    OBVIOUS
  <2>9. g \in FileRecords /\ g.owner = OfDraft(d) /\ g.order = order /\ g.owner = request[r].owner
    BY <2>3, <2>6, <2>7, <2>8, OwnersDiffer DEF FileRecords
  <2>10. PICK k : k = [request[r] EXCEPT !.pc = "save"]
    OBVIOUS
  <2>11. k \in RequestRecords /\ k.pc = "save" /\ k.owner = request[r].owner /\ k.row = request[r].row
    BY <1>1, <2>10 DEF RequestRecords
  <2>12. RequestSound(k)'
    BY <1>1, <1>2, <2>11 DEF RequestSound, Editing, Copying, Stands
  <2>13. overlaps = 0 => draft[d].status = "DRAFT" /\ RequestMatches(k)'
    <3> SUFFICES ASSUME overlaps = 0 PROVE draft[d].status = "DRAFT" /\ RequestMatches(k)'
      OBVIOUS
    <3>1. RequestMatches(request[r])
      BY DEF DraftsInv, Matched
    <3>2. request[r].row = draft[d] /\ request[r].row.status = "DRAFT"
      BY <1>1, <2>3, <3>1, OwnersDiffer DEF RequestMatches, RequestSound, Editing
    <3>3. RequestMatches(k)'
      BY <1>2, <2>3, <2>11, <3>2 DEF RequestMatches, Editing, Copying
    <3> QED BY <3>2, <3>3
  <2>14. Crowded(files \cup {g}, [request EXCEPT ![r] = k], overlaps)
    <3>1. g.order \notin OrdersOf(request[r].listed)
      BY <2>2, <2>9
    <3> QED BY <3>1, <1>1, <2>9, <2>11, FilesReady, CrowdUploads DEF DraftsInv, FilesCrowded
  <2>15. files' = files \cup {g} /\ Go(r, k)
    BY <2>2, <2>8, <2>10
  <2> QED BY <1>1, <1>2, <2>4, <2>9, <2>11, <2>12, <2>13, <2>14, <2>15, FileMade DEF Editing, Copying
<1> QED BY <1>3, <1>4

LEMMA createMediaAssetKept ==
  ASSUME DraftsInv, NEW r \in Requests, createMediaAsset(r)
  PROVE  DraftsInv'
<1>1. request[r].pc = "each" /\ request[r] \in RequestRecords /\ RequestSound(request[r])
  BY DEF createMediaAsset, At, DraftsInv, DraftsTyped, RequestsSound
<1>2. UNCHANGED <<draft, posts, overlaps>>
  BY DEF createMediaAsset
<1>3. CASE request[r].listed = {}
  BY <1>1, <1>2, <1>3, RequestEnds DEF createMediaAsset
<1>4. CASE request[r].listed # {}
  <2> DEFINE L == request[r].listed
  <2>1. PICK f : f = CHOOSE h \in L : \A j \in L : h.order <= j.order
    OBVIOUS
  <2>2. /\ files' = files \cup {[f EXCEPT !.owner = OfDraft(request[r].version), !.status = "READY_FOR_PREVIEW"]}
        /\ Go(r, [request[r] EXCEPT !.listed = @ \ {f}])
    BY <1>4, <2>1 DEF createMediaAsset
  <2>3. PICK d \in Drafts : d = request[r].version /\ draft[d].status # "NONE"
    BY <1>1 DEF RequestSound, Copying
  <2>4. L \subseteq files /\ L \subseteq FileRecords /\ L \subseteq listMediaAssets(request[r].owner)
    BY <1>1 DEF RequestSound, listMediaAssets, DraftsInv, DraftsTyped
  <2>5. f \in L
    <3>1. OrdersOf(L) \in SUBSET Nat /\ OrdersOf(L) # {}
      BY <1>4, <2>4 DEF OrdersOf, FileRecords
    <3>2. PICK m \in OrdersOf(L) : \A v \in OrdersOf(L) : m <= v
      BY <3>1, LeastPosition
    <3>3. \E h \in L : \A j \in L : h.order <= j.order
      BY <3>2 DEF OrdersOf
    <3> QED BY <2>1, <3>3
  <2>6. PICK g : g = [f EXCEPT !.owner = OfDraft(d), !.status = "READY_FOR_PREVIEW"]
    OBVIOUS
  <2>7. g \in FileRecords /\ g.owner = OfDraft(d) /\ g.order = f.order
    <3>1. f \in FileRecords
      BY <2>4, <2>5
    <3> QED BY <2>6, <3>1, OwnersDiffer DEF FileRecords
  <2>8. PICK k : k = [request[r] EXCEPT !.listed = L \ {f}]
    OBVIOUS
  <2>9. /\ k \in RequestRecords /\ k.pc = "each" /\ k.owner = request[r].owner /\ k.version = d
        /\ k.listed = request[r].listed \ {f}
    <3>1. L \ {f} \in SUBSET FileRecords
      BY <2>4
    <3> QED BY <1>1, <2>3, <2>8, <3>1 DEF RequestRecords
  <2>10. files' = files \cup {g} /\ Go(r, k)
    BY <2>2, <2>3, <2>6, <2>8
  <2>11. RequestSound(k)'
    <3>1. k.listed \subseteq listMediaAssets(k.owner)'
      BY <2>4, <2>9, <2>10 DEF listMediaAssets
    <3>2. Stands(k.owner)'
      BY <1>1, <1>2, <2>9 DEF RequestSound, Stands
    <3> QED BY <1>2, <2>3, <2>9, <3>1, <3>2 DEF RequestSound, Editing, Copying
  <2>12. overlaps = 0 => draft[d].status = "DRAFT" /\ RequestMatches(k)'
    <3> SUFFICES ASSUME overlaps = 0 PROVE draft[d].status = "DRAFT" /\ RequestMatches(k)'
      OBVIOUS
    <3>1. RequestMatches(request[r])
      BY DEF DraftsInv, Matched
    <3>2. draft[d].status = "DRAFT"
      BY <1>1, <2>3, <3>1 DEF RequestMatches, Copying
    <3>3. RequestMatches(k)'
      BY <1>2, <2>9, <3>2 DEF RequestMatches, Editing, Copying
    <3> QED BY <3>2, <3>3
  <2>13. Crowded(files \cup {g}, [request EXCEPT ![r] = k], overlaps)
    BY <1>1, <2>3, <2>5, <2>7, <2>9, FilesReady, CrowdCopies DEF DraftsInv, FilesCrowded
  <2>14. \A s \in Requests \ {r} : request[s].pc \in Copying => request[s].version # k.version
    BY <1>1, <2>3, <2>9 DEF DraftsInv, RequestsSound, Copying
  <2> QED BY <1>1, <1>2, <2>3, <2>7, <2>9, <2>10, <2>11, <2>12, <2>13, <2>14, FileMade DEF Editing, Copying
<1> QED BY <1>3, <1>4

LEMMA publishAdvertKept ==
  ASSUME DraftsInv, NEW r \in Requests, publishAdvert(r)
  PROVE  DraftsInv'
<1> DEFINE L == request[r].listed
<1>1. request[r].pc = "publish" /\ request[r] \in RequestRecords /\ RequestSound(request[r])
  BY DEF publishAdvert, At, DraftsInv, DraftsTyped, RequestsSound
<1>2. PICK d \in Drafts : request[r].owner = OfDraft(d) /\ request[r].owner[2] = d
  BY <1>1 DEF RequestSound, OfDraft, Editing
<1>3. PICK row : row = draft[d] /\ row \in DraftRows /\ row.status # "NONE"
  <2>1. draft[d] \in DraftRows
    BY DEF DraftsInv, DraftsTyped
  <2>2. draft[d].status # "NONE"
    BY <1>1, <1>2, OwnersDiffer DEF RequestSound, Stands
  <2> QED BY <2>1, <2>2
<1>31. PICK row2 : row2 = [row EXCEPT !.status = "PUBLISHED"]
  OBVIOUS
<1>4. /\ row2 = [row EXCEPT !.status = "PUBLISHED"] /\ row2 \in DraftRows
      /\ row2 = [status |-> "PUBLISHED", content |-> row.content]
  BY <1>3, <1>31 DEF DraftRows
<1>5. /\ draft' = [draft EXCEPT ![d] = row2] /\ draft'[d] = row2
      /\ \A e \in Drafts \ {d} : draft'[e] = draft[e]
  <2>1. draft' = [draft EXCEPT ![d].status = "PUBLISHED"]
    BY <1>2 DEF publishAdvert
  <2>2. draft \in [Drafts -> DraftRows]
    BY DEF DraftsInv, DraftsTyped
  <2> QED BY <1>3, <1>4, <2>1, <2>2
<1>6. PICK p : p = [source |-> d, version |-> request[r].version, content |-> request[r].row.content]
  OBVIOUS
<1>7. /\ p \in PostRecords /\ p.source = d /\ p.version = request[r].version
      /\ p.content = request[r].row.content /\ p.version \in Nat
  <2>1. request[r].version \in Nat /\ request[r].row.content \in Contents \cup {"none"}
    BY <1>1 DEF RequestSound, RequestRecords, DraftRows
  <2> QED BY <1>6, <2>1 DEF PostRecords
<1>8. PICK m \in Nat : m = Len(posts) + 1
  BY DEF DraftsInv, DraftsTyped
<1>9. /\ posts' = Append(posts, p) /\ DOMAIN posts = 1..(m - 1) /\ DOMAIN posts' = 1..m /\ posts'[m] = p
      /\ m \in 1..m /\ m \notin 1..(m - 1) /\ 1..m = 1..(m - 1) \cup {m}
      /\ \A n \in 1..(m - 1) : posts'[n] = posts[n]
      /\ posts' \in Seq(PostRecords)
  <2>1. posts' = Append(posts, p)
    BY <1>2, <1>6 DEF publishAdvert
  <2>2. posts \in Seq(PostRecords) /\ m = Len(posts) + 1
    BY <1>8 DEF DraftsInv, DraftsTyped
  <2> QED BY <1>7, <2>1, <2>2
<1>10. PICK w : w = OfPost(m)
  OBVIOUS
<1>11. w \in PossibleOwners /\ \A e : w # OfDraft(e)
  BY <1>8, <1>10, OwnersDiffer DEF DraftsInv, DraftsTyped
<1>12. \A o : Stands(o) => o # w
  <2>1. \A n \in DOMAIN posts : OfPost(n) # w
    BY <1>9, <1>10 DEF OfPost
  <2> QED BY <1>11, <2>1 DEF Stands
<1>13. files' = files \cup LiveCopies(L, w)
  BY <1>8, <1>10 DEF publishAdvert, LiveCopies
<1>14. L \subseteq files /\ L \subseteq FileRecords /\ L \subseteq listMediaAssets(OfDraft(d)) /\ IsFiniteSet(L)
  <2>1. L \in SUBSET files /\ IsFiniteSet(files) /\ files \subseteq FileRecords
    BY <1>1 DEF RequestSound, listMediaAssets, DraftsInv, DraftsTyped
  <2>2. L \subseteq listMediaAssets(OfDraft(d))
    BY <1>1, <1>2 DEF RequestSound
  <2>3. IsFiniteSet(L)
    BY <2>1, FS_Subset
  <2> QED BY <2>1, <2>2, <2>3
<1>15. \A f \in L : LET g == [f EXCEPT !.owner = w, !.status = "LIVE"] IN
          g \in FileRecords /\ g.owner = w /\ g.order = f.order /\ g.upload = f.upload
  <2> SUFFICES ASSUME NEW f \in L
               PROVE  LET g == [f EXCEPT !.owner = w, !.status = "LIVE"] IN
                         g \in FileRecords /\ g.owner = w /\ g.order = f.order /\ g.upload = f.upload
    OBVIOUS
  <2>1. f \in FileRecords
    BY <1>14
  <2> QED BY <2>1, <1>11 DEF FileRecords
<1>16. LiveCopies(L, w) \subseteq FileRecords /\ IsFiniteSet(LiveCopies(L, w))
       /\ \A g \in LiveCopies(L, w) : g.owner = w
  <2> DEFINE e == [f \in L |-> [f EXCEPT !.owner = w, !.status = "LIVE"]]
  <2>1. e \in Surjection(L, LiveCopies(L, w))
    BY DEF Surjection, LiveCopies
  <2>2. IsFiniteSet(LiveCopies(L, w))
    <3> HIDE DEF e
    <3> QED BY <1>14, <2>1, FS_Surjection
  <2>3. LiveCopies(L, w) \subseteq FileRecords /\ \A g \in LiveCopies(L, w) : g.owner = w
    BY <1>15 DEF LiveCopies
  <2> QED BY <2>2, <2>3
<1> HIDE DEF L
<1>17. PICK k : k = Idle
  OBVIOUS
<1>18. k \in RequestRecords /\ k.pc = "idle" /\ RequestSound(k)' /\ Go(r, k)
  BY <1>17, IdleTyped DEF publishAdvert
<1>19. /\ request' = [request EXCEPT ![r] = k] /\ request'[r] = k
       /\ \A s \in Requests \ {r} : request'[s] = request[s]
  BY <1>18 DEF Go, DraftsInv, DraftsTyped
<1>20. UNCHANGED overlaps
  BY DEF publishAdvert
<1>21. DraftsTyped'
  <2>1. draft' \in [Drafts -> DraftRows]
    BY <1>4, <1>5 DEF DraftsInv, DraftsTyped
  <2>2. files' \subseteq FileRecords /\ IsFiniteSet(files')
    BY <1>13, <1>16, FS_Union DEF DraftsInv, DraftsTyped
  <2>3. \E b \in Nat : \A n \in DOMAIN posts' : posts'[n].version <= b
    <3>1. PICK b \in Nat : \A n \in DOMAIN posts : posts[n].version <= b
      BY DEF DraftsInv, DraftsTyped
    <3>2. PICK v \in Nat : v = p.version
      BY <1>7
    <3>3. ASSUME NEW n \in DOMAIN posts' PROVE posts'[n].version <= b + v
      <4>1. CASE n = m
        BY <4>1, <1>9, <3>2
      <4>2. CASE n # m
        <5>1. n \in DOMAIN posts /\ posts'[n] = posts[n]
          BY <4>2, <1>9
        <5>2. PICK u : u = posts[n].version /\ u \in Nat /\ u <= b
          BY <5>1, <3>1, PostsTyped DEF DraftsInv
        <5>3. u <= b + v
          BY <5>2
        <5> QED BY <5>1, <5>2, <5>3
      <4> QED BY <4>1, <4>2
    <3>4. b + v \in Nat
      OBVIOUS
    <3> QED BY <3>3, <3>4
  <2>4. request' \in [Requests -> RequestRecords]
    BY <1>18, <1>19 DEF DraftsInv, DraftsTyped
  <2> QED BY <1>9, <1>20, <2>1, <2>2, <2>3, <2>4 DEF DraftsInv, DraftsTyped
<1>22. RequestsSound'
  <2>1. \A e \in Drafts : draft[e].status # "NONE" => draft'[e].status # "NONE"
    BY <1>4, <1>5
  <2>2. \A n \in DOMAIN posts' : draft'[posts'[n].source].status # "NONE"
    <3> SUFFICES ASSUME NEW n \in DOMAIN posts' PROVE draft'[posts'[n].source].status # "NONE"
      OBVIOUS
    <3>1. CASE n = m
      BY <3>1, <1>4, <1>5, <1>7, <1>9
    <3>2. CASE n # m
      <4>1. n \in DOMAIN posts /\ posts'[n] = posts[n]
        BY <3>2, <1>9
      <4> QED BY <4>1, <2>1, PostsTyped DEF DraftsInv, RequestsSound
    <3> QED BY <3>1, <3>2
  <2>3. \A f \in files' \ files : Stands(f.owner)'
    <3>1. Stands(w)'
      BY <1>9, <1>10 DEF Stands
    <3>2. \A f \in files' \ files : f.owner = w
      BY <1>13, <1>16
    <3> QED BY <3>1, <3>2
  <2>4. files \subseteq files' /\ DOMAIN posts \subseteq DOMAIN posts'
    BY <1>9, <1>13
  <2> QED BY <1>18, <2>1, <2>2, <2>3, <2>4, SoundMoves DEF DraftsInv, Copying
<1>23. AdvertsCounted'
  <2>1. PICK a, b \in Nat : a = Cardinality(Active) /\ b = Cardinality(Active)' /\ b + 1 = a
    BY <1>1, <1>18, ActiveFinite, ActiveMoves DEF DraftsInv
  <2>2. a <= 1 + overlaps /\ overlaps \in Nat
    BY <2>1 DEF DraftsInv, AdvertsCounted, DraftsTyped
  <2>3. ASSUME NEW e \in Drafts PROVE PostsCounted(e)'
    <3>1. PICK c \in Nat : c = Cardinality(PostsOf(e))
      BY ActiveFinite DEF DraftsInv
    <3>2. PostsCounted(e)
      BY DEF DraftsInv, AdvertsCounted
    <3>3. CASE e = d
      <4>1. Open(d)
        BY <1>1, <1>2 DEF Open, Editing
      <4>2. c + a <= 1 + overlaps
        BY <3>1, <3>2, <3>3, <4>1, <2>1 DEF PostsCounted
      <4>3. PostsOf(d)' = PostsOf(d) \cup {m} /\ m \notin PostsOf(d)
        BY <1>7, <1>9 DEF PostsOf
      <4>4. Cardinality(PostsOf(d)') = c + 1
        BY <3>1, <3>3, <4>3, ActiveFinite, FS_AddElement DEF DraftsInv
      <4>5. draft'[d].status = "PUBLISHED"
        BY <1>4, <1>5
      <4>6. c + 1 <= 1 + overlaps /\ c + 1 + b <= 1 + overlaps
        BY <2>1, <2>2, <4>2
      <4> QED BY <1>20, <2>1, <3>3, <4>3, <4>4, <4>5, <4>6 DEF PostsCounted
    <3>4. CASE e # d
      <4>1. PostsOf(e)' = PostsOf(e)
        BY <1>7, <1>9, <3>4 DEF PostsOf
      <4>2. draft'[e] = draft[e]
        BY <1>5, <3>4
      <4>3. Open(e)' => Open(e)
        BY <1>18, <1>19, <4>2 DEF Open, Editing
      <4>4. Open(e)' => c + b <= 1 + overlaps
        BY <2>1, <2>2, <3>1, <3>2, <4>3 DEF PostsCounted
      <4> QED BY <1>20, <2>1, <3>1, <3>2, <4>1, <4>2, <4>4 DEF PostsCounted
    <3> QED BY <3>3, <3>4
  <2>4. b <= 1 + overlaps
    BY <2>1, <2>2
  <2> QED BY <1>20, <2>1, <2>3, <2>4 DEF AdvertsCounted
<1>24. FilesCrowded'
  <2>1. Held(files, w) = {}
    BY <1>12 DEF Held, DraftsInv, RequestsSound
  <2>2. \A s \in Requests : request[s].pc # "idle" => request[s].owner # w
    BY <1>12 DEF DraftsInv, RequestsSound, RequestSound
  <2>3. Crowded(files \cup LiveCopies(request[r].listed, w), [request EXCEPT ![r] = k], overlaps)
    BY <1>1, <1>11, <1>18, <2>1, <2>2, FilesReady, CrowdPublishes DEF DraftsInv, FilesCrowded
  <2> QED BY <2>3, <1>13, <1>19, <1>20 DEF FilesCrowded, L
<1>25. Matched'
  <2>1. ASSUME overlaps = 0, NEW s \in Requests PROVE RequestMatches(request[s])'
    <3>1. s # r => request[s].pc = "idle"
      BY <1>1, <2>1, OneAtATime DEF DraftsInv
    <3>2. request'[s].pc = "idle"
      BY <1>18, <1>19, <3>1
    <3> QED BY <3>2 DEF RequestMatches, Editing, Copying
  <2>2. ASSUME overlaps = 0, NEW n \in DOMAIN posts' PROVE PostMatches(n)'
    <3>1. RequestMatches(request[r])
      BY <2>2 DEF DraftsInv, Matched
    <3>2. request[r].row = row /\ row.status = "DRAFT"
      BY <1>1, <1>2, <1>3, <3>1, OwnersDiffer DEF RequestMatches, RequestSound, Editing
    <3>3. \A o : o # w => Shown(o)' = Shown(o)
      <4>1. \A o : o # w => listMediaAssets(o)' = listMediaAssets(o)
        BY <1>13, <1>16 DEF listMediaAssets
      <4> QED BY <4>1 DEF Shown
    <3>4. CASE n = m
      <4>1. draft'[d] = [status |-> "PUBLISHED", content |-> p.content]
        BY <1>4, <1>5, <1>7, <3>2
      <4>2. p.version = m
        BY <1>1, <1>7, <1>8, <3>1 DEF RequestMatches
      <4>3. L = listMediaAssets(OfDraft(d))
        BY <1>1, <1>2, <3>1 DEF RequestMatches, L
      <4>4. Shown(OfDraft(d))' = {<<f.order, f.upload>> : f \in L}
        BY <1>11, <3>3, <4>3 DEF Shown
      <4>5. Shown(w)' = {<<f.order, f.upload>> : f \in L}
        <5>1. listMediaAssets(w)' = LiveCopies(L, w)
          BY <1>12, <1>13, <1>16 DEF listMediaAssets, DraftsInv, RequestsSound
        <5>2. \A g \in LiveCopies(L, w) : \E f \in L : g.order = f.order /\ g.upload = f.upload
          BY <1>15 DEF LiveCopies, L
        <5>3. \A f \in L : \E g \in LiveCopies(L, w) : g.order = f.order /\ g.upload = f.upload
          BY <1>15 DEF LiveCopies, L
        <5> QED BY <5>1, <5>2, <5>3 DEF Shown
      <4> QED BY <1>7, <1>9, <1>10, <3>4, <4>1, <4>2, <4>4, <4>5 DEF PostMatches
    <3>5. CASE n # m
      <4>1. n \in DOMAIN posts /\ posts'[n] = posts[n]
        BY <1>9, <3>5
      <4>2. PostMatches(n) /\ posts[n].source \in Drafts
        BY <2>2, <4>1, PostsTyped DEF DraftsInv, Matched
      <4>3. posts[n].source # d
        BY <1>3, <3>2, <4>2 DEF PostMatches
      <4>4. OfPost(n) # w /\ OfDraft(posts[n].source) # w
        BY <1>10, <1>11, <3>5 DEF OfPost
      <4>5. draft'[posts[n].source] = draft[posts[n].source]
        BY <1>5, <4>2, <4>3
      <4>6. PICK o1, o2 : o1 = OfPost(n) /\ o2 = OfDraft(posts[n].source)
        OBVIOUS
      <4>7. Shown(o1)' = Shown(o1) /\ Shown(o2)' = Shown(o2)
        BY <3>3, <4>4, <4>6
      <4>8. Shown(o1)' = Shown(o2)'
        BY <4>2, <4>6, <4>7 DEF PostMatches
      <4>9. OfPost(n)' = o1 /\ OfDraft(posts[n].source)' = o2
        BY <4>1, <4>6 DEF OfPost, OfDraft
      <4>10. /\ draft'[posts[n].source] = [status |-> "PUBLISHED", content |-> posts[n].content]
             /\ posts[n].version = n
        BY <4>2, <4>5 DEF PostMatches
      <4> QED BY <4>1, <4>6, <4>8, <4>10 DEF PostMatches
    <3> QED BY <3>4, <3>5
  <2> QED BY <2>1, <2>2, <1>20 DEF Matched
<1> QED BY <1>21, <1>22, <1>23, <1>24, <1>25 DEF DraftsInv

-----------------------------------------------------------------------------
LEMMA DraftsBegin ==
  ASSUME DraftsInit
  PROVE  DraftsInv
<1>1. DOMAIN posts = {} /\ posts \in Seq(PostRecords)
  BY DEF DraftsInit
<1>2. \A r \in Requests : request[r] = Idle
  BY DEF DraftsInit
<1>3. Idle \in RequestRecords /\ Idle.pc = "idle"
  BY IdleTyped
<1>4. \A d \in Drafts : draft[d] = NoDraft
  BY DEF DraftsInit
<1>5. NoDraft \in DraftRows /\ NoDraft.status = "NONE"
  BY DEF NoDraft, DraftRows
<1>6. overlaps = 0 /\ files = {}
  BY DEF DraftsInit
<1>7. Active = {} /\ Cardinality(Active) = 0
  BY <1>2, <1>3, FS_EmptySet DEF Active
<1>8. DraftsTyped
  <2>1. draft \in [Drafts -> DraftRows] /\ request \in [Requests -> RequestRecords]
    BY <1>3, <1>5 DEF DraftsInit
  <2> QED BY <1>1, <1>6, <2>1, FS_EmptySet DEF DraftsTyped
<1>9. RequestsSound
  BY <1>1, <1>2, <1>3, <1>6 DEF RequestsSound, RequestSound, Editing, Copying
<1>10. AdvertsCounted
  <2>1. ASSUME NEW d \in Drafts PROVE PostsCounted(d)
    <3>1. PostsOf(d) = {} /\ Cardinality(PostsOf(d)) = 0
      BY <1>1, FS_EmptySet DEF PostsOf
    <3>2. draft[d].status = "NONE"
      BY <1>4, <1>5
    <3>3. ~Open(d)
      BY <1>2, <1>3, <3>2 DEF Open, Editing
    <3> QED BY <1>6, <3>1, <3>2, <3>3 DEF PostsCounted
  <2> QED BY <1>6, <1>7, <2>1 DEF AdvertsCounted
<1>11. FilesCrowded
  <2>1. \A o \in PossibleOwners : Count(files, o) = 0 /\ Used(files, o) = 0
    <3>1. \A o : Held(files, o) = {} /\ OrdersOf(Held(files, o)) = {}
      BY <1>6 DEF Held, OrdersOf
    <3> QED BY <3>1, FS_EmptySet DEF Count, Used
  <2>2. Busy(request) = {} /\ Cardinality(Busy(request)) = 0
    BY <1>2, <1>3, FS_EmptySet DEF Busy
  <2> DEFINE none == [o \in PossibleOwners |-> 0]
  <2>3. none \in [PossibleOwners -> Nat] /\ \A o \in PossibleOwners : none[o] = 0
    OBVIOUS
  <2> HIDE DEF none
  <2>4. \A r \in Requests : CopyBound(none, none, files, request[r])
    BY <1>2, <1>3 DEF CopyBound
  <2>5. Bounds(none, none, files, request, overlaps)
    BY <1>6, <2>1, <2>2, <2>3, <2>4 DEF Bounds
  <2>6. \A r \in Requests : ~Overtaken(files, request, r)
    BY <1>2, <1>3 DEF Overtaken
  <2>7. \A o \in PossibleOwners : Count(files, o) <= Used(files, o) + overlaps
    BY <1>6, <2>1
  <2> QED BY <2>5, <2>6, <2>7 DEF FilesCrowded, Crowded
<1>12. Matched
  BY <1>1, <1>2, <1>3 DEF Matched, RequestMatches, Editing, Copying
<1> QED BY <1>8, <1>9, <1>10, <1>11, <1>12 DEF DraftsInv

LEMMA DraftsStep ==
  ASSUME DraftsInv, [DraftsNext]_draftsVars
  PROVE  DraftsInv'
<1>1. CASE DraftsNext
  <2>1. PICK r \in Requests :
           \/ createDraft(r) \/ createAdvert(r) \/ beginDraft(r) \/ getDraft(r) \/ updateDraft(r)
           \/ listDraftMedia(r) \/ addMedia(r) \/ nextVersion(r) \/ publishAdvert(r)
           \/ duplicateAdvert(r) \/ createDuplicateDraft(r) \/ copyAdvertMedia(r)
           \/ createMediaAsset(r) \/ Abandon(r)
    BY <1>1 DEF DraftsNext
  <2>2. CASE createDraft(r)
    BY <2>2, createDraftKept
  <2>3. CASE createAdvert(r)
    BY <2>3, createAdvertKept
  <2>4. CASE beginDraft(r)
    BY <2>4, beginDraftKept
  <2>5. CASE getDraft(r)
    BY <2>5, getDraftKept
  <2>6. CASE updateDraft(r)
    BY <2>6, updateDraftKept
  <2>7. CASE listDraftMedia(r)
    BY <2>7, listDraftMediaKept
  <2>8. CASE addMedia(r)
    BY <2>8, addMediaKept
  <2>9. CASE nextVersion(r)
    BY <2>9, nextVersionKept
  <2>10. CASE publishAdvert(r)
    BY <2>10, publishAdvertKept
  <2>11. CASE duplicateAdvert(r)
    BY <2>11, duplicateAdvertKept
  <2>12. CASE createDuplicateDraft(r)
    BY <2>12, createDuplicateDraftKept
  <2>13. CASE copyAdvertMedia(r)
    BY <2>13, copyAdvertMediaKept
  <2>14. CASE createMediaAsset(r)
    BY <2>14, createMediaAssetKept
  <2>15. CASE Abandon(r)
    BY <2>15, AbandonKept
  <2> QED BY <2>1, <2>2, <2>3, <2>4, <2>5, <2>6, <2>7, <2>8, <2>9, <2>10, <2>11, <2>12,
             <2>13, <2>14, <2>15
<1>2. CASE UNCHANGED draftsVars
  <2>1. UNCHANGED <<draft, posts, files, request, overlaps>>
    BY <1>2 DEF draftsVars
  <2>2. DraftsTyped'
    BY <2>1 DEF DraftsInv, DraftsTyped
  <2>3. RequestsSound'
    BY <2>1 DEF DraftsInv, RequestsSound, RequestSound, Stands, listMediaAssets
  <2>4. AdvertsCounted'
    BY <2>1 DEF DraftsInv, AdvertsCounted, PostsCounted, PostsOf, Active, Open
  <2>5. FilesCrowded'
    BY <2>1 DEF DraftsInv, FilesCrowded
  <2>6. Matched'
    BY <2>1 DEF DraftsInv, Matched, PostMatches, RequestMatches, Shown, listMediaAssets
  <2> QED BY <2>2, <2>3, <2>4, <2>5, <2>6 DEF DraftsInv
<1> QED BY <1>1, <1>2

LEMMA DraftsAgree ==
  ASSUME DraftsInv
  PROVE  DraftsHold
<1>1. OneAdvertPerDraft
  BY DEF OneAdvertPerDraft, DraftsInv, AdvertsCounted, PostsCounted
<1>2. FilesInPlace
  <2> SUFFICES ASSUME NEW o \in Owners
               PROVE  /\ Cardinality(listMediaAssets(o)) <= MaxItems + overlaps
                      /\ Cardinality(listMediaAssets(o)) <= Cardinality(OrdersOf(listMediaAssets(o))) + overlaps
    BY DEF FilesInPlace
  <2>1. o \in PossibleOwners
    <3>1. \A n \in DOMAIN posts : n \in Nat \ {0}
      BY DEF DraftsInv, DraftsTyped
    <3> QED BY <3>1, OwnersDiffer DEF Owners
  <2>2. Count(files, o) <= Used(files, o) + overlaps
    BY <2>1 DEF DraftsInv, FilesCrowded, Crowded
  <2>3. listMediaAssets(o) = Held(files, o)
    BY DEF listMediaAssets, Held
  <2>4. Count(files, o) \in Nat /\ Used(files, o) \in Nat /\ overlaps \in Nat
    BY HeldFinite DEF DraftsInv, DraftsTyped
  <2>5. Used(files, o) <= MaxItems
    <3>1. OrdersOf(Held(files, o)) \in SUBSET (0..(MaxItems - 1))
      BY DEF OrdersOf, Held, DraftsInv, DraftsTyped, FileRecords
    <3>2. IsFiniteSet(0..(MaxItems - 1)) /\ Cardinality(0..(MaxItems - 1)) = MaxItems
      <4>1. MaxItems \in Nat
        BY DraftsAssumption
      <4>2. 0 \in Int /\ MaxItems - 1 \in Int
        BY <4>1
      <4>3. /\ IsFiniteSet(0..(MaxItems - 1))
            /\ Cardinality(0..(MaxItems - 1)) = IF 0 > MaxItems - 1 THEN 0 ELSE MaxItems - 1 - 0 + 1
        BY <4>2, FS_Interval
      <4> QED BY <4>1, <4>3
    <3>3. Cardinality(OrdersOf(Held(files, o))) <= Cardinality(0..(MaxItems - 1))
      BY <3>1, <3>2, FS_Subset
    <3> QED BY <3>2, <3>3 DEF Used
  <2>6. MaxItems \in Nat
    BY DraftsAssumption
  <2>7. Count(files, o) <= MaxItems + overlaps
    BY <2>2, <2>4, <2>5, <2>6
  <2> QED BY <2>2, <2>3, <2>7 DEF Count, Used
<1>3. AdvertsMatchDrafts
  BY DEF AdvertsMatchDrafts, DraftsInv, Matched, PostMatches, Shown
<1> QED BY <1>1, <1>2, <1>3 DEF DraftsHold

(* DraftsInv is an invariant of drafts, for any drafts, requests and texts. *)
THEOREM DraftsInvariant == DraftsSpec => []DraftsInv
<1>1. DraftsInit => DraftsInv
  BY DraftsBegin
<1>2. DraftsInv /\ [DraftsNext]_draftsVars => DraftsInv'
  BY DraftsStep
<1> QED BY <1>1, <1>2, PTL DEF DraftsSpec

(* However requests of one tenant interleave and die: a draft becomes one  *)
(* advert and one more at most for each request that overlapped, and is not *)
(* marked PUBLISHED without one; an owner has at most MaxItems files, each *)
(* in a position of its own, but for one per overlap; and the adverts of   *)
(* requests that come one at a time have the text and the files of their   *)
(* drafts, and the next version (publishDraft, addDraftMedia, copyAdvertMedia). *)
THEOREM DraftsSound == DraftsSpec => []DraftsHold
<1>1. DraftsInv => DraftsHold
  BY DraftsAgree
<1> QED BY <1>1, DraftsInvariant, PTL
=============================================================================
