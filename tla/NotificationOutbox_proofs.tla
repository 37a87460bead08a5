----------------------- MODULE NotificationOutbox_proofs -----------------------
(***************************************************************************)
(* Theorems about the notification outbox, for any records, channels,      *)
(* number of operations and faults: the types of rows, copies and counts;  *)
(* a keyed channel delivers a record at most once, as every dispatch gives *)
(* the key of the record again; and while operations come one at a time,   *)
(* the record accounts for what went out.  Then those about conversations, *)
(* whose sweep sends notifications of its own, for any requests and sweeps *)
(* and any response time.                                                  *)
(***************************************************************************)
EXTENDS NotificationOutbox, Conversations, WellFoundedInduction, TLAPS

Counted == delivered \in [Records -> [Channels -> Nat]]

Remembered == \A r \in Records, c \in Keyed :
    /\ delivered[r][c] <= 1
    /\ delivered[r][c] > 0 => <<r, c>> \in keys

ProviderInv == Counted /\ Remembered

(* Nothing has been delivered when the program starts. *)
LEMMA InitProviders == Init => ProviderInv
<1> SUFFICES ASSUME Init PROVE ProviderInv
  OBVIOUS
<1>1. delivered = [r \in Records |-> [c \in Channels |-> 0]]
  BY DEF Init
<1>2. Counted
  BY <1>1 DEF Counted
<1>3. \A r \in Records, c \in Keyed : delivered[r][c] = 0
  BY <1>1, ChannelsAssumption
<1>4. Remembered
  BY <1>3 DEF Remembered
<1> QED
  BY <1>2, <1>4 DEF ProviderInv

(* Only a provider that sends changes what the providers know. *)
LEMMA OnlySent ==
    ASSUME NEW w \in Workers,
           Plan(w) \/ Find(w) \/ List(w) \/ Step(w) \/ Crash(w), ~Sent(w)
    PROVE  UNCHANGED <<delivered, keys>>
<1>1. ASSUME Plan(w) \/ Find(w) \/ List(w) PROVE UNCHANGED <<delivered, keys>>
  BY <1>1 DEF Plan, Find, List, Begin, providers
<1>2. ASSUME Crash(w) PROVE UNCHANGED <<delivered, keys>>
  BY <1>2 DEF Crash, providers
<1>3. ASSUME Save(w) PROVE UNCHANGED <<delivered, keys>>
  BY <1>3 DEF Save, providers
<1>4. ASSUME Skip(w) \/ Refused(w) \/ Update(w) PROVE UNCHANGED <<delivered, keys>>
  BY <1>4 DEF Skip, Refused, Update, providers
<1> QED
  BY <1>1, <1>2, <1>3, <1>4 DEF Step

(* A provider that sends counts one delivery of a record it has not seen   *)
(* the key of, or of a channel that has no key.                            *)
LEMMA SentCounts ==
    ASSUME ProviderInv, NEW w \in Workers, Sent(w)
    PROVE  ProviderInv'
<1> DEFINE q == worker[w].record
<1>1. PICK d \in Due(w) \cap worker[w].row.reachable :
        IF d \in Keyed /\ <<q, d>> \in keys THEN UNCHANGED <<delivered, keys>>
        ELSE /\ delivered' = [delivered EXCEPT ![q][d] = @ + 1]
             /\ keys' = IF d \in Keyed THEN keys \cup {<<q, d>>} ELSE keys
  BY Zenon DEF Sent, notificationDispatchIdempotencyKey, providers
<1>2. CASE UNCHANGED <<delivered, keys>>
  BY <1>2 DEF ProviderInv, Counted, Remembered
<1>3. CASE /\ ~(d \in Keyed /\ <<q, d>> \in keys)
           /\ delivered' = [delivered EXCEPT ![q][d] = @ + 1]
           /\ keys' = IF d \in Keyed THEN keys \cup {<<q, d>>} ELSE keys
  <2> DEFINE row == [delivered[q] EXCEPT ![d] = delivered[q][d] + 1]
  <2>0. /\ delivered \in [Records -> [Channels -> Nat]]
        /\ delivered' = [delivered EXCEPT ![q] = row]
    BY <1>3 DEF ProviderInv, Counted
  <2>1. Counted'
    <3>1. ASSUME q \in Records PROVE row \in [Channels -> Nat]
      <4>1. delivered[q] \in [Channels -> Nat]
        BY <2>0, <3>1
      <4>2. d \in Channels => delivered[q][d] + 1 \in Nat
        BY <4>1
      <4> QED
        BY <4>1, <4>2
    <3> HIDE DEF row
    <3> QED
      BY <2>0, <3>1 DEF Counted
  <2>2. ASSUME NEW r \in Records, NEW c \in Keyed
        PROVE  delivered'[r][c] <= 1 /\ (delivered'[r][c] > 0 => <<r, c>> \in keys')
    <3>1. /\ c \in Channels /\ delivered[r][c] \in Nat
          /\ delivered[r][c] <= 1
          /\ delivered[r][c] > 0 => <<r, c>> \in keys
      BY <2>0, ChannelsAssumption DEF ProviderInv, Remembered
    <3>2. CASE r = q /\ c = d
      <4>1. delivered'[r][c] = delivered[r][c] + 1
        BY <2>0, <3>1, <3>2
      <4> QED
        BY <4>1, <1>3, <3>1, <3>2
    <3>3. CASE ~(r = q /\ c = d)
      <4>1. delivered'[r][c] = delivered[r][c]
        BY <2>0, <3>1, <3>3
      <4> QED
        BY <4>1, <1>3, <3>1
    <3> QED
      BY <3>2, <3>3
  <2>3. Remembered'
    BY <2>2 DEF Remembered
  <2> QED
    BY <2>1, <2>3 DEF ProviderInv
<1> QED
  BY <1>1, <1>2, <1>3

(* However operations overlap, die and repeat each other, a record goes    *)
(* out at most once by a channel whose provider is given the key.          *)
THEOREM MailedOnce == Spec => []KeyedOnce
<1>1. Init => ProviderInv
  BY InitProviders
<1>2. ProviderInv /\ [Next]_vars => ProviderInv'
  <2> SUFFICES ASSUME ProviderInv, [Next]_vars PROVE ProviderInv'
    OBVIOUS
  <2>1. CASE UNCHANGED <<delivered, keys>>
    BY <2>1 DEF ProviderInv, Counted, Remembered
  <2>2. CASE Next
    <3>1. PICK w \in Workers : Plan(w) \/ Find(w) \/ List(w) \/ Step(w) \/ Crash(w)
      BY <2>2 DEF Next
    <3>2. CASE Sent(w)
      BY <3>2, SentCounts
    <3>3. CASE ~Sent(w)
      BY <3>1, <3>3, <2>1, OnlySent
    <3> QED
      BY <3>2, <3>3
  <2> QED
    BY <2>1, <2>2 DEF vars
<1>3. ProviderInv => KeyedOnce
  BY DEF ProviderInv, Remembered, KeyedOnce
<1> QED
  BY <1>1, <1>2, <1>3, PTL DEF Spec
-----------------------------------------------------------------------------
(* Types of the rows and of what the operations hold.                      *)
Local == [pc : {"idle", "save", "dispatch"}, record : Records \cup {0}, row : Rows,
          left : SUBSET Channels, todo : SUBSET Records, copies : [Records -> Rows]]

Typed ==
    /\ Counted
    /\ outbox \in [Records -> Rows]
    /\ worker \in [Workers -> Local]
    /\ overlaps \in Nat /\ faults \in Nat
    /\ \A w \in Workers : worker[w].pc # "idle" => worker[w].record \in Records

(* A sweep starts with the oldest record it listed. *)
LEMMA Oldest == ASSUME NEW T \in SUBSET Records, T # {} PROVE Min(T) \in T
<1>1. T \subseteq Nat
  BY RecordsAssumption
<1> DEFINE R == {ss \in Nat \X Nat : ss[1] < ss[2]}
<1>2. IsWellFoundedOn(R, Nat)
  BY NatLessThanWellFounded DEF OpToRel
<1>a. ASSUME NEW a \in Nat, NEW b \in Nat, a < b PROVE <<a, b>> \in R
  <2>1. <<a, b>> \in Nat \X Nat /\ <<a, b>>[1] = a /\ <<a, b>>[2] = b
    OBVIOUS
  <2> QED BY <1>a, <2>1
<1> HIDE DEF R
<1>3. PICK x \in T : \A y \in T : ~(<<y, x>> \in R)
  BY <1>1, <1>2, WFMin
<1>4. ASSUME NEW y \in T PROVE x <= y
  <2>1. x \in Nat /\ y \in Nat
    BY <1>1
  <2>2. ~(y < x)
    BY <1>3, <1>a, <2>1, Zenon
  <2> QED BY <2>1, <2>2
<1> QED BY <1>4 DEF Min

LEMMA NoRowTyped ==
    /\ NoRow \in Rows
    /\ \A c \in Channels : NoRow.status[c] = "NONE" /\ NoRow.attempts[c] = {}
  BY DEF NoRow, Rows, Statuses

LEMMA IdleTyped ==
    /\ Idle \in Local /\ Idle.pc = "idle"
    /\ Idle.copies \in [Records -> Rows]
    /\ \A r \in Records : [Idle EXCEPT !.pc = "save", !.record = r] \in Local
    /\ \A r \in Records : [Idle EXCEPT !.pc = "save", !.record = r].pc = "save"
    /\ \A r \in Records : [Idle EXCEPT !.pc = "save", !.record = r].record = r
  BY NoRowTyped DEF Idle, Local

(* The row m is `row` with the status s of channel c noted. *)
Notes(m, row, c, s) ==
    /\ m.status[c] = s /\ m.attempts[c] = row.attempts[c] \cup {s}
    /\ \A d \in Channels \ {c} : m.status[d] = row.status[d] /\ m.attempts[d] = row.attempts[d]

LEMMA Marks ==
    ASSUME NEW row \in Rows, NEW c \in Channels, NEW s \in {"SENT", "FAILED"},
           NEW m, m = Marked(row, c, s)
    PROVE  m \in Rows /\ Notes(m, row, c, s)
<1> DEFINE st == [row.status EXCEPT ![c] = s]
           at == [row.attempts EXCEPT ![c] = row.attempts[c] \cup {s}]
<1>1. row.status \in [Channels -> Statuses] /\ row.attempts \in [Channels -> SUBSET {"SENT", "FAILED"}]
  BY DEF Rows
<1>2. st \in [Channels -> Statuses] /\ st[c] = s /\ \A d \in Channels \ {c} : st[d] = row.status[d]
  BY <1>1 DEF Statuses
<1>3. /\ at \in [Channels -> SUBSET {"SENT", "FAILED"}] /\ at[c] = row.attempts[c] \cup {s}
      /\ \A d \in Channels \ {c} : at[d] = row.attempts[d]
  BY <1>1
<1>4. m = [row EXCEPT !.status = st, !.attempts = at]
  BY DEF Marked, Rows
<1> HIDE DEF st, at
<1>5. m \in Rows /\ m.status = st /\ m.attempts = at
  BY <1>2, <1>3, <1>4 DEF Rows
<1> QED BY <1>2, <1>3, <1>5 DEF Notes

LEMMA Dispatches ==
    ASSUME NEW r \in Records, NEW row \in Rows, NEW todo \in SUBSET Records, NEW copies \in [Records -> Rows],
           NEW k, k = Dispatching(r, row, todo, copies)
    PROVE  /\ k \in Local /\ k.pc = "dispatch" /\ k.record = r /\ k.row = row
           /\ k.todo = todo /\ k.copies = copies
  BY DEF Dispatching, Local

(* What an operation goes on with leaves the others where they are. *)
LEMMA Goes ==
    ASSUME Typed, NEW w \in Workers, NEW k, Set(w, k)
    PROVE  /\ worker'[w] = k /\ \A v \in Workers \ {w} : worker'[v] = worker[v]
           /\ k \in Local => worker' \in [Workers -> Local]
  BY DEF Typed, Set

LEMMA Continues ==
    ASSUME Typed, NEW w \in Workers, NEW T \in SUBSET Records, NEW copies \in [Records -> Rows],
           Continue(w, T, copies)
    PROVE  \/ T = {} /\ Set(w, Idle)
           \/ \E r \in T : \E k \in Local :
                 /\ Set(w, k) /\ k.pc = "dispatch" /\ k.record = r /\ k.row = copies[r]
                 /\ k.todo = T \ {r} /\ \A q \in T \ {r} : k.copies[q] = copies[q]
<1>1. CASE T = {}
  BY <1>1 DEF Continue
<1>2. CASE T # {}
  <2>1. PICK r \in T : Set(w, Dispatching(r, copies[r], T \ {r}, [copies EXCEPT ![r] = NoRow]))
    BY <1>2, Oldest DEF Continue
  <2> DEFINE others == [copies EXCEPT ![r] = NoRow]
             k == Dispatching(r, copies[r], T \ {r}, others)
  <2>2. others \in [Records -> Rows] /\ copies[r] \in Rows /\ r \in Records
        /\ T \ {r} \in SUBSET Records
        /\ \A q \in T \ {r} : others[q] = copies[q]
    BY NoRowTyped
  <2> HIDE DEF others
  <2>3. /\ k \in Local /\ k.pc = "dispatch" /\ k.record = r /\ k.row = copies[r]
        /\ k.todo = T \ {r} /\ \A q \in T \ {r} : k.copies[q] = copies[q]
    BY <2>2, Dispatches
  <2>4. Set(w, k)
    BY <2>1 DEF others
  <2> HIDE DEF k
  <2> QED BY <2>3, <2>4
<1> QED BY <1>1, <1>2

(* What an operation knows that has just begun: the rows as they are.      *)
Fresh(k) ==
    /\ k \in Local /\ k.record \in Records
    /\ \/ k.pc = "save" /\ outbox[k.record] = NoRow
       \/ /\ k.pc = "dispatch" /\ k.row = outbox[k.record]
          /\ k.record \notin k.todo /\ \A q \in k.todo : k.copies[q] = outbox[q]

LEMMA Beginning ==
    ASSUME Typed, NEW w \in Workers, Plan(w) \/ Find(w) \/ List(w)
    PROVE  /\ Begin(w) /\ UNCHANGED <<outbox, delivered, keys, faults>>
           /\ \E k : Set(w, k) /\ Fresh(k)
<1>1. Begin(w) /\ UNCHANGED <<outbox, delivered, keys, faults>>
  BY DEF Plan, Find, List, Begin, providers
<1>2. CASE Plan(w)
  <2>1. PICK r \in Records :
           /\ \A q \in Records : q < r <=> Planned(q) \/ \E v \in Workers : worker[v].record = q
           /\ Set(w, [Idle EXCEPT !.pc = "save", !.record = r])
    BY <1>2 DEF Plan
  <2>2. ~(r < r)
    BY RecordsAssumption
  <2>3. outbox[r] = NoRow
    BY <2>1, <2>2 DEF Planned
  <2> DEFINE k == [Idle EXCEPT !.pc = "save", !.record = r]
  <2>4. k \in Local /\ k.pc = "save" /\ k.record = r
    BY IdleTyped
  <2>5. Set(w, k)
    BY <2>1
  <2> HIDE DEF k
  <2>6. Fresh(k)
    BY <2>3, <2>4 DEF Fresh
  <2> QED BY <1>1, <2>5, <2>6
<1>3. CASE Find(w)
  <2>1. PICK r \in Records : Set(w, Dispatching(r, outbox[r], {}, Idle.copies))
    BY <1>3 DEF Find
  <2> DEFINE k == Dispatching(r, outbox[r], {}, Idle.copies)
  <2>2. outbox[r] \in Rows /\ Idle.copies \in [Records -> Rows]
    BY IdleTyped DEF Typed
  <2>3. k \in Local /\ k.pc = "dispatch" /\ k.record = r /\ k.row = outbox[r] /\ k.todo = {}
    BY <2>2, Dispatches
  <2>4. Set(w, k)
    BY <2>1
  <2> HIDE DEF k
  <2>5. Fresh(k)
    BY <2>3 DEF Fresh
  <2> QED BY <1>1, <2>4, <2>5
<1>4. CASE List(w)
  <2> DEFINE copies == [r \in Records |-> IF r \in Listed THEN outbox[r] ELSE NoRow]
  <2>1. Listed # {} /\ Continue(w, Listed, copies)
    BY <1>4 DEF List
  <2>2. Listed \in SUBSET Records
    BY DEF Listed
  <2>3. copies \in [Records -> Rows] /\ \A r \in Listed : copies[r] = outbox[r]
    BY <2>2, NoRowTyped DEF Typed
  <2> HIDE DEF copies
  <2>4. PICK r \in Listed : \E k \in Local :
                 /\ Set(w, k) /\ k.pc = "dispatch" /\ k.record = r /\ k.row = copies[r]
                 /\ k.todo = Listed \ {r} /\ \A q \in Listed \ {r} : k.copies[q] = copies[q]
    BY <2>1, <2>2, <2>3, Continues
  <2>5. PICK k \in Local :
                 /\ Set(w, k) /\ k.pc = "dispatch" /\ k.record = r /\ k.row = copies[r]
                 /\ k.todo = Listed \ {r} /\ \A q \in Listed \ {r} : k.copies[q] = copies[q]
    BY <2>4
  <2>6. Fresh(k)
    BY <2>2, <2>3, <2>5 DEF Fresh
  <2> QED BY <1>1, <2>5, <2>6
<1> QED BY <1>2, <1>3, <1>4

(* The row that planAndQueue stores: nothing was attempted yet. *)
LEMMA Saving ==
    ASSUME Typed, NEW w \in Workers, Save(w)
    PROVE  /\ UNCHANGED <<delivered, keys, overlaps, faults>> /\ worker[w].pc = "save"
           /\ \E row \in Rows, k \in Local :
                 /\ \A c \in Channels : row.status[c] # "SENT" /\ row.attempts[c] = {}
                 /\ outbox' = [outbox EXCEPT ![worker[w].record] = row]
                 /\ Set(w, k) /\ k.pc = "dispatch" /\ k.record = worker[w].record /\ k.row = row
                 /\ k.todo = {}
<1>1. UNCHANGED <<delivered, keys, overlaps, faults>> /\ worker[w].pc = "save"
  BY DEF Save, At, providers
<1>2. worker[w].record \in Records
  BY <1>1 DEF Typed
<1> DEFINE Planning(selected, reached) ==
             [NoRow EXCEPT !.reachable = reached,
                           !.status = [c \in Channels |-> IF c \in selected THEN "QUEUED" ELSE "SUPPRESSED"]]
<1>3. PICK selected, reached \in SUBSET Channels :
        /\ outbox' = [outbox EXCEPT ![worker[w].record] = Planning(selected, reached)]
        /\ Set(w, Dispatching(worker[w].record, Planning(selected, reached), {}, Idle.copies))
  <2>1. PICK allowed, destinations \in SUBSET Channels :
        /\ outbox' = [outbox EXCEPT ![worker[w].record] =
                         Planning(allowed \cup {"IN_APP"}, destinations \cup {"IN_APP"})]
        /\ Set(w, Dispatching(worker[w].record,
                         Planning(allowed \cup {"IN_APP"}, destinations \cup {"IN_APP"}), {}, Idle.copies))
    BY DEF Save
  <2>2. allowed \cup {"IN_APP"} \in SUBSET Channels /\ destinations \cup {"IN_APP"} \in SUBSET Channels
    BY ChannelsAssumption
  <2> QED BY <2>1, <2>2
<1> DEFINE row == Planning(selected, reached)
           k == Dispatching(worker[w].record, row, {}, Idle.copies)
<1>4. row \in Rows /\ \A c \in Channels : row.status[c] # "SENT" /\ row.attempts[c] = {}
  <2> DEFINE st == [c \in Channels |-> IF c \in selected THEN "QUEUED" ELSE "SUPPRESSED"]
  <2>1. st \in [Channels -> Statuses] /\ \A c \in Channels : st[c] # "SENT"
    BY DEF Statuses
  <2>2. row = [NoRow EXCEPT !.reachable = reached, !.status = st]
    OBVIOUS
  <2> HIDE DEF st, row
  <2>3. row \in Rows /\ row.status = st /\ row.attempts = NoRow.attempts
    BY <2>1, <2>2, NoRowTyped DEF Rows
  <2> QED BY <2>1, <2>3, NoRowTyped
<1>5. outbox' = [outbox EXCEPT ![worker[w].record] = row] /\ Set(w, k)
  BY <1>3
<1> HIDE DEF row
<1>6. k \in Local /\ k.pc = "dispatch" /\ k.record = worker[w].record /\ k.row = row /\ k.todo = {}
  <2>1. {} \in SUBSET Records /\ Idle.copies \in [Records -> Rows] /\ row \in Rows
    BY <1>4, IdleTyped
  <2>2. PICK r \in Records : r = worker[w].record
    BY <1>2
  <2>3. k = Dispatching(r, row, {}, Idle.copies)
    BY <2>2
  <2> HIDE DEF k
  <2>4. /\ k \in Local /\ k.pc = "dispatch" /\ k.record = r /\ k.row = row /\ k.todo = {}
    BY <2>1, <2>3, Dispatches
  <2> QED BY <2>2, <2>4
<1> HIDE DEF k
<1> QED BY <1>1, <1>4, <1>5, <1>6

(* One channel is done with. *)
LEMMA Noting ==
    ASSUME Typed, NEW w \in Workers, worker[w].pc = "dispatch", NEW c \in Channels,
           NEW s \in {"SENT", "FAILED"}, Note(w, c, s)
    PROVE  \E k \in Local :
              /\ Set(w, k) /\ k.pc = "dispatch" /\ k.record = worker[w].record
              /\ Notes(k.row, worker[w].row, c, s)
              /\ k.todo = worker[w].todo /\ k.copies = worker[w].copies
<1> DEFINE o == worker[w]
           row == Marked(o.row, c, s)
           k == [o EXCEPT !.left = o.left \ {c}, !.row = row]
<1>1. o \in Local
  BY DEF Typed
<1>2. o.row \in Rows
  BY <1>1 DEF Local
<1>3. PICK m : m = row
  OBVIOUS
<1>6. m \in Rows /\ Notes(m, o.row, c, s)
  <2>1. PICK r0 \in Rows : r0 = o.row
    BY <1>2
  <2>2. m = Marked(r0, c, s)
    BY <1>3, <2>1
  <2>3. m \in Rows /\ Notes(m, r0, c, s)
    BY <2>2, Marks
  <2> QED BY <2>1, <2>3
<1>4. Set(w, k)
  BY DEF Note
<1> HIDE DEF row, o
<1>5. k \in Local /\ k.pc = o.pc /\ k.record = o.record /\ k.row = row /\ k.todo = o.todo /\ k.copies = o.copies
  BY <1>1, <1>3, <1>6 DEF Local
<1> HIDE DEF k
<1> QED BY <1>3, <1>4, <1>5, <1>6 DEF o

(* The row of a record is stored, and the operation goes on.               *)
LEMMA StoredRow ==
    ASSUME Typed, NEW r \in Records, NEW row \in Rows, outbox' = [outbox EXCEPT ![r] = row]
    PROVE  /\ outbox' \in [Records -> Rows] /\ outbox'[r] = row
           /\ \A q \in Records \ {r} : outbox'[q] = outbox[q]
  BY DEF Typed

(* A step of one operation, of rows and providers that keep their types.   *)
LEMMA StepTyped ==
    ASSUME Typed, Counted', NEW w \in Workers, NEW k \in Local, Set(w, k),
           k.pc # "idle" => k.record \in Records,
           outbox' \in [Records -> Rows], overlaps' \in Nat, faults' \in Nat
    PROVE  Typed'
<1>1. worker'[w] = k /\ (\A v \in Workers \ {w} : worker'[v] = worker[v]) /\ worker' \in [Workers -> Local]
  BY Goes
<1> QED BY <1>1 DEF Typed

LEMMA NextTyped ==
    ASSUME Typed, Counted', NEW w \in Workers, Plan(w) \/ Find(w) \/ List(w) \/ Step(w) \/ Crash(w)
    PROVE  Typed'
<1> DEFINE o == worker[w]
<1>0. /\ o \in Local /\ (o.pc # "idle" => o.record \in Records) /\ outbox \in [Records -> Rows]
      /\ overlaps \in Nat /\ faults \in Nat
  BY DEF Typed
<1>1. CASE Plan(w) \/ Find(w) \/ List(w)
  <2>1. PICK k : Set(w, k) /\ Fresh(k)
    BY <1>1, Beginning
  <2>2. UNCHANGED <<outbox, faults>> /\ overlaps' \in Nat
    BY <1>0, <1>1, Beginning DEF Begin
  <2> QED BY <1>0, <2>1, <2>2, StepTyped DEF Fresh
<1>2. CASE Save(w)
  <2>1. PICK row \in Rows, k \in Local :
           /\ outbox' = [outbox EXCEPT ![o.record] = row]
           /\ Set(w, k) /\ k.pc = "dispatch" /\ k.record = o.record
    BY <1>2, Saving
  <2>2. UNCHANGED <<overlaps, faults>> /\ o.record \in Records
    BY <1>0, <1>2, Saving
  <2>3. outbox' \in [Records -> Rows]
    BY <2>1, <2>2, StoredRow
  <2> QED BY <1>0, <2>1, <2>2, <2>3, StepTyped
<1>3. CASE Skip(w) \/ Refused(w) \/ Sent(w)
  <2>1. o.pc = "dispatch" /\ UNCHANGED <<outbox, overlaps>>
    BY <1>3 DEF Skip, Refused, Sent, At
  <2>2. faults' \in Nat
    <3>1. CASE Skip(w) \/ Refused(w)
      BY <1>0, <3>1 DEF Skip, Refused
    <3>2. CASE Sent(w)
      <4>1. faults' = faults \/ faults' = faults + 1
        BY <3>2 DEF Sent
      <4> QED BY <1>0, <4>1
    <3> QED BY <1>3, <3>1, <3>2
  <2>3. Due(w) \subseteq Channels
    BY <1>0 DEF Due, Local
  <2>4. PICK c \in Channels, s \in {"SENT", "FAILED"} : Note(w, c, s)
    BY <1>3, <2>3 DEF Skip, Refused, Sent
  <2>5. PICK k \in Local : Set(w, k) /\ k.record = o.record
    BY <2>1, <2>4, Noting
  <2> QED BY <1>0, <2>1, <2>2, <2>5, StepTyped
<1>4. CASE Update(w)
  <2>1. /\ o.pc = "dispatch" /\ outbox' = [outbox EXCEPT ![o.record] = o.row]
        /\ Continue(w, o.todo, o.copies) /\ UNCHANGED <<overlaps, faults>>
    BY <1>4 DEF Update, At
  <2>2. o.row \in Rows /\ o.todo \in SUBSET Records /\ o.copies \in [Records -> Rows] /\ o.record \in Records
    BY <1>0, <2>1 DEF Local
  <2>3. outbox' \in [Records -> Rows]
    BY <2>1, <2>2, StoredRow
  <2>4. CASE Set(w, Idle)
    BY <1>0, <2>1, <2>3, <2>4, IdleTyped, StepTyped
  <2>5. CASE \E r \in o.todo : \E k \in Local : Set(w, k) /\ k.record = r
    BY <1>0, <2>1, <2>2, <2>3, <2>5, StepTyped
  <2>a. PICK T \in SUBSET Records, copies \in [Records -> Rows] :
           T = o.todo /\ copies = o.copies /\ Continue(w, T, copies)
    BY <2>1, <2>2
  <2>6. \/ Set(w, Idle)
        \/ \E r \in T : \E k \in Local : Set(w, k) /\ k.record = r
    BY <2>a, Continues
  <2> QED BY <2>4, <2>5, <2>6, <2>a
<1>5. CASE Crash(w)
  <2>1. Set(w, Idle) /\ UNCHANGED <<outbox, overlaps>> /\ faults' \in Nat
    BY <1>0, <1>5 DEF Crash
  <2> QED BY <1>0, <2>1, IdleTyped, StepTyped
<1> QED BY <1>1, <1>2, <1>3, <1>4, <1>5 DEF Step

LEMMA NextCases ==
    ASSUME [Next]_vars
    PROVE  UNCHANGED vars \/ \E w \in Workers : Plan(w) \/ Find(w) \/ List(w) \/ Step(w) \/ Crash(w)
  BY DEF Next

LEMMA ProvidersStep == ProviderInv /\ [Next]_vars => ProviderInv'
<1> SUFFICES ASSUME ProviderInv, [Next]_vars PROVE ProviderInv'
  OBVIOUS
<1>1. CASE UNCHANGED <<delivered, keys>>
  BY <1>1 DEF ProviderInv, Counted, Remembered
<1>2. ASSUME NEW w \in Workers, Plan(w) \/ Find(w) \/ List(w) \/ Step(w) \/ Crash(w) PROVE ProviderInv'
  BY <1>1, <1>2, SentCounts, OnlySent
<1> QED BY <1>1, <1>2, NextCases DEF vars

LEMMA TypedInvariant == Spec => [](Typed /\ ProviderInv)
<1>1. Init => Typed /\ ProviderInv
  <2> SUFFICES ASSUME Init PROVE Typed
    BY InitProviders
  <2>1. outbox \in [Records -> Rows] /\ overlaps \in Nat /\ faults \in Nat
    BY NoRowTyped DEF Init
  <2>2. worker \in [Workers -> Local] /\ \A w \in Workers : worker[w].pc = "idle"
    BY IdleTyped DEF Init
  <2> QED BY <2>1, <2>2, InitProviders DEF Typed, ProviderInv
<1>2. Typed /\ ProviderInv /\ [Next]_vars => Typed' /\ ProviderInv'
  <2> SUFFICES ASSUME Typed, ProviderInv, [Next]_vars PROVE Typed' /\ ProviderInv'
    OBVIOUS
  <2>1. ProviderInv' /\ Counted'
    BY ProvidersStep DEF ProviderInv
  <2>2. CASE UNCHANGED vars
    BY <2>1, <2>2 DEF Typed, vars
  <2> QED BY <2>1, <2>2, NextTyped, NextCases
<1> QED BY <1>1, <1>2, PTL DEF Spec

(* Rows, copies and what the providers delivered keep their types.         *)
THEOREM TypeCorrect == Spec => []TypeOK
<1>1. Typed => TypeOK
  BY DEF Typed, TypeOK, Local, Counted
<1> QED BY <1>1, TypedInvariant, PTL
-----------------------------------------------------------------------------
(* A row accounts for what went out: its SENT stands for an attempt that   *)
(* says so and a delivery; exactly, if no answer was lost and none died.   *)
Accounts(row, out) ==
    \A c \in Channels :
        /\ row.status[c] = "SENT" <=> "SENT" \in row.attempts[c]
        /\ row.status[c] = "SENT" => out[c] > 0

Exact(row, out) ==
    \A c \in Channels : out[c] = IF row.status[c] = "SENT" THEN 1 ELSE 0

(* A provider that has the key has delivered.                              *)
KeysDelivered == \A r \in Records, c \in Channels : <<r, c>> \in keys => delivered[r][c] > 0

Single == \A v, w \in Workers : worker[v].pc # "idle" /\ worker[w].pc # "idle" => v = w

(* The row an operation works on may be ahead of the stored one; the       *)
(* copies it has yet to come to are not behind.                            *)
Knows(k) ==
    /\ k.pc = "save" => outbox[k.record] = NoRow
    /\ k.pc = "dispatch" =>
          /\ Accounts(k.row, delivered[k.record])
          /\ faults = 0 => Exact(k.row, delivered[k.record])
          /\ k.record \notin k.todo
          /\ \A q \in k.todo : k.copies[q] = outbox[q]

Settled(r) ==
    \/ Exact(outbox[r], delivered[r])
    \/ \E w \in Workers : worker[w].pc = "dispatch" /\ worker[w].record = r

Alone ==
    /\ KeysDelivered
    /\ overlaps = 0 =>
          /\ Single
          /\ \A r \in Records : Accounts(outbox[r], delivered[r])
          /\ \A w \in Workers : Knows(worker[w])
          /\ faults = 0 => \A r \in Records : Settled(r)

(* While nothing overlaps, the operation that takes a step is the only one. *)
Steps(w) ==
    \/ worker[w].pc = "idle" /\ (Quiet \/ overlaps' = overlaps + 1)
    \/ worker[w].pc # "idle" /\ overlaps' = overlaps

LEMMA Solo ==
    ASSUME Typed, Alone, NEW w \in Workers, Steps(w), overlaps' = 0, Quiet => overlaps' = overlaps
    PROVE  /\ overlaps = 0 /\ \A v \in Workers \ {w} : worker[v].pc = "idle"
           /\ faults = 0 => \A r \in Records :
                 Exact(outbox[r], delivered[r]) \/ (worker[w].pc = "dispatch" /\ worker[w].record = r)
<1>1. overlaps \in Nat
  BY DEF Typed
<1>2. overlaps = 0 /\ (Quiet \/ worker[w].pc # "idle")
  BY <1>1 DEF Steps
<1>3. \A v \in Workers \ {w} : worker[v].pc = "idle"
  BY <1>2 DEF Alone, Single, Quiet, At
<1>4. ASSUME faults = 0, NEW r \in Records
      PROVE  Exact(outbox[r], delivered[r]) \/ (worker[w].pc = "dispatch" /\ worker[w].record = r)
  <2>1. Settled(r)
    BY <1>2, <1>4 DEF Alone
  <2> QED BY <1>3, <2>1 DEF Settled
<1> QED BY <1>2, <1>3, <1>4

LEMMA AloneStep ==
    ASSUME Typed, Alone, NEW w \in Workers, NEW k, Set(w, k), KeysDelivered', Steps(w),
           Quiet => overlaps' = overlaps,
           overlaps' = 0 =>
              /\ \A r \in Records : Accounts(outbox[r], delivered[r])'
              /\ Knows(k)'
              /\ faults' = 0 => \A r \in Records :
                    Exact(outbox[r], delivered[r])' \/ (k.pc = "dispatch" /\ k.record = r)
    PROVE  Alone'
<1> SUFFICES ASSUME overlaps' = 0
             PROVE  /\ Single' /\ \A v \in Workers : Knows(worker[v])'
                    /\ faults' = 0 => \A r \in Records : Settled(r)'
  BY DEF Alone
<1>1. worker'[w] = k /\ \A v \in Workers \ {w} : worker'[v] = worker[v]
  BY Goes
<1>2. \A v \in Workers \ {w} : worker'[v].pc = "idle"
  BY <1>1, Solo
<1>3. Single'
  BY <1>2 DEF Single
<1>4. ASSUME NEW v \in Workers PROVE Knows(worker[v])'
  BY <1>1, <1>2 DEF Knows
<1>5. faults' = 0 => \A r \in Records : Settled(r)'
  BY <1>1 DEF Settled
<1> QED BY <1>3, <1>4, <1>5

LEMMA BeginAlone ==
    ASSUME Typed, Alone, NEW w \in Workers, Plan(w) \/ Find(w) \/ List(w)
    PROVE  Alone'
<1>1. /\ UNCHANGED <<outbox, delivered, keys, faults>> /\ Steps(w) /\ worker[w].pc = "idle"
      /\ Quiet => overlaps' = overlaps
  BY Beginning DEF Begin, At, Steps
<1>2. PICK k : Set(w, k) /\ Fresh(k)
  BY Beginning
<1>3. KeysDelivered'
  BY <1>1 DEF Alone, KeysDelivered
<1>4. ASSUME overlaps' = 0
      PROVE  /\ \A r \in Records : Accounts(outbox[r], delivered[r])'
             /\ Knows(k)'
             /\ faults' = 0 => \A r \in Records :
                   Exact(outbox[r], delivered[r])' \/ (k.pc = "dispatch" /\ k.record = r)
  <2>1. /\ \A r \in Records : Accounts(outbox[r], delivered[r])
        /\ faults = 0 => \A r \in Records : Exact(outbox[r], delivered[r])
    BY <1>1, <1>4, Solo DEF Alone
  <2>2. \A r \in Records : Accounts(outbox[r], delivered[r])'
    BY <1>1, <2>1 DEF Accounts
  <2>3. faults' = 0 => \A r \in Records : Exact(outbox[r], delivered[r])'
    BY <1>1, <2>1 DEF Exact
  <2>4. k.pc = "save" => outbox'[k.record] = NoRow
    BY <1>1, <1>2 DEF Fresh
  <2>5. k.pc = "dispatch" =>
          /\ k.row = outbox'[k.record] /\ k.record \in Records
          /\ k.record \notin k.todo /\ \A q \in k.todo : k.copies[q] = outbox'[q]
    BY <1>1, <1>2 DEF Fresh
  <2>6. k.pc = "dispatch" =>
          /\ Accounts(k.row, delivered[k.record])' /\ (faults' = 0 => Exact(k.row, delivered[k.record])')
    BY <2>2, <2>3, <2>5 DEF Accounts, Exact
  <2>7. Knows(k)'
    BY <2>4, <2>5, <2>6 DEF Knows
  <2> QED BY <2>2, <2>3, <2>7
<1> QED BY <1>1, <1>2, <1>3, <1>4, AloneStep

LEMMA SaveAlone ==
    ASSUME Typed, Alone, NEW w \in Workers, Save(w)
    PROVE  Alone'
<1>1. /\ UNCHANGED <<delivered, keys, overlaps, faults>> /\ worker[w].pc = "save" /\ Steps(w)
      /\ worker[w].record \in Records
  BY Saving DEF Steps, Typed
<1>q. PICK q \in Records : q = worker[w].record
  BY <1>1
<1>2. PICK row \in Rows, k \in Local :
         /\ \A c \in Channels : row.status[c] # "SENT" /\ row.attempts[c] = {}
         /\ outbox' = [outbox EXCEPT ![q] = row]
         /\ Set(w, k) /\ k.pc = "dispatch" /\ k.record = q /\ k.row = row
         /\ k.todo = {}
  BY <1>q, Saving
<1>3. outbox'[q] = row /\ \A r \in Records \ {q} : outbox'[r] = outbox[r]
  BY <1>1, <1>2, StoredRow
<1>4. KeysDelivered'
  BY <1>1 DEF Alone, KeysDelivered
<1>5. ASSUME overlaps' = 0
      PROVE  /\ \A r \in Records : Accounts(outbox[r], delivered[r])'
             /\ Knows(k)'
             /\ faults' = 0 => \A r \in Records :
                   Exact(outbox[r], delivered[r])' \/ (k.pc = "dispatch" /\ k.record = r)
  <2>1. /\ \A r \in Records : Accounts(outbox[r], delivered[r])
        /\ faults = 0 => \A r \in Records : Exact(outbox[r], delivered[r])
        /\ outbox[q] = NoRow
    BY <1>1, <1>q, <1>5, Solo DEF Alone, Knows
  <2>2. Accounts(row, delivered[q])'
    BY <1>2 DEF Accounts
  <2>3. ASSUME faults' = 0 PROVE Exact(row, delivered[q])'
    <3>1. Exact(NoRow, delivered[q])
      BY <1>1, <2>1, <2>3
    <3> QED BY <1>1, <1>2, <3>1, NoRowTyped DEF Exact
  <2>4. \A r \in Records : Accounts(outbox[r], delivered[r])'
    <3>1. \A r \in Records \ {q} : Accounts(outbox[r], delivered[r])'
      BY <1>1, <1>3, <2>1 DEF Accounts
    <3>2. Accounts(outbox[q], delivered[q])'
      BY <1>1, <1>3, <2>2 DEF Accounts
    <3> QED BY <1>1, <3>1, <3>2 DEF Accounts
  <2>5. Knows(k)'
    BY <1>1, <1>2, <2>2, <2>3 DEF Knows, Accounts, Exact
  <2>6. faults' = 0 => \A r \in Records :
           Exact(outbox[r], delivered[r])' \/ (k.pc = "dispatch" /\ k.record = r)
    BY <1>1, <1>2, <1>3, <2>1 DEF Exact
  <2> QED BY <1>2, <2>4, <2>5, <2>6
<1> QED BY <1>1, <1>2, <1>4, <1>5, AloneStep

(* A channel is done with: the row says what was heard, and the provider   *)
(* delivered at most once.  An answer that is lost is a fault.             *)
LEMMA NoteAlone ==
    ASSUME Typed, Typed', Alone, NEW w \in Workers, worker[w].pc = "dispatch",
           NEW q \in Records, q = worker[w].record, NEW c \in Due(w), NEW s \in {"SENT", "FAILED"},
           Note(w, c, s), UNCHANGED <<outbox, overlaps>>, KeysDelivered',
           \A r \in Records, d \in Channels : ~(r = q /\ d = c) => delivered'[r][d] = delivered[r][d],
           \/ s = "FAILED" /\ delivered'[q][c] = delivered[q][c] /\ faults' = faults
           \/ s = "FAILED" /\ delivered'[q][c] >= delivered[q][c] /\ faults' = faults + 1
           \/ s = "SENT" /\ delivered'[q][c] = delivered[q][c] + 1 /\ faults' = faults
           \/ s = "SENT" /\ delivered'[q][c] = delivered[q][c] /\ delivered[q][c] > 0 /\ faults' = faults
    PROVE  Alone'
<1> DEFINE row == worker[w].row
<1>1. /\ row \in Rows /\ c \in Channels /\ row.status[c] # "SENT" /\ faults \in Nat
      /\ \A r \in Records, d \in Channels : delivered[r][d] \in Nat /\ delivered'[r][d] \in Nat
  BY DEF Typed, Local, Due, shouldRetryNotificationChannel, Counted
<1>2. PICK k \in Local :
         /\ Set(w, k) /\ k.pc = "dispatch" /\ k.record = q
         /\ Notes(k.row, worker[w].row, c, s)
         /\ k.todo = worker[w].todo /\ k.copies = worker[w].copies
  BY <1>1, Noting
<1>3. Steps(w) /\ (Quiet => overlaps' = overlaps)
  BY DEF Steps
<1>4. \A r \in Records, d \in Channels : delivered'[r][d] >= delivered[r][d]
  BY <1>1
<1> HIDE DEF row
<1>5. ASSUME overlaps' = 0
      PROVE  /\ \A r \in Records : Accounts(outbox[r], delivered[r])'
             /\ Knows(k)'
             /\ faults' = 0 => \A r \in Records :
                   Exact(outbox[r], delivered[r])' \/ (k.pc = "dispatch" /\ k.record = r)
  <2>1. /\ \A r \in Records : Accounts(outbox[r], delivered[r])
        /\ Knows(worker[w])
        /\ faults = 0 => \A r \in Records : Exact(outbox[r], delivered[r]) \/ r = q
    BY <1>3, <1>5, Solo DEF Alone
  <2>2. \A r \in Records : Accounts(outbox[r], delivered[r])'
    <3> SUFFICES ASSUME NEW r \in Records, NEW d \in Channels
                 PROVE  /\ outbox[r].status[d] = "SENT" <=> "SENT" \in outbox[r].attempts[d]
                        /\ outbox[r].status[d] = "SENT" => delivered'[r][d] > 0
      BY DEF Accounts
    <3>1. /\ outbox[r].status[d] = "SENT" <=> "SENT" \in outbox[r].attempts[d]
          /\ outbox[r].status[d] = "SENT" => delivered[r][d] > 0
      BY <2>1 DEF Accounts
    <3> QED BY <1>1, <1>4, <3>1
  <2>3. /\ Accounts(row, delivered[q]) /\ (faults = 0 => Exact(row, delivered[q]))
        /\ q \notin k.todo /\ \A r \in k.todo : k.copies[r] = outbox'[r]
    BY <1>2, <2>1 DEF Knows, row
  <2>4. /\ k.row.status[c] = s /\ k.row.attempts[c] = row.attempts[c] \cup {s}
        /\ \A d \in Channels \ {c} : k.row.status[d] = row.status[d] /\ k.row.attempts[d] = row.attempts[d]
    BY <1>2 DEF row, Notes
  <2>5. Accounts(k.row, delivered[q])'
    <3> SUFFICES ASSUME NEW d \in Channels
                 PROVE  /\ k.row.status[d] = "SENT" <=> "SENT" \in k.row.attempts[d]
                        /\ k.row.status[d] = "SENT" => delivered'[q][d] > 0
      BY DEF Accounts
    <3>1. CASE d = c
      <4>1. "SENT" \notin row.attempts[c]
        BY <1>1, <2>3 DEF Accounts
      <4>2. s = "SENT" => delivered'[q][c] > 0
        BY <1>1
      <4> QED BY <2>4, <3>1, <4>1, <4>2
    <3>2. CASE d # c
      <4>1. /\ row.status[d] = "SENT" <=> "SENT" \in row.attempts[d]
            /\ row.status[d] = "SENT" => delivered[q][d] > 0
        BY <2>3 DEF Accounts
      <4> QED BY <2>4, <3>2, <4>1
    <3> QED BY <3>1, <3>2
  <2>6. ASSUME faults' = 0 PROVE Exact(k.row, delivered[q])'
    <3> SUFFICES ASSUME NEW d \in Channels
                 PROVE  delivered'[q][d] = IF k.row.status[d] = "SENT" THEN 1 ELSE 0
      BY DEF Exact
    <3>1. faults = 0 /\ faults' = faults
      BY <1>1, <2>6
    <3>2. \A e \in Channels : delivered[q][e] = IF row.status[e] = "SENT" THEN 1 ELSE 0
      BY <2>3, <3>1 DEF Exact
    <3>3. CASE d = c
      <4>1. delivered[q][c] = 0
        BY <1>1, <3>2
      <4>2. delivered'[q][c] = IF s = "SENT" THEN 1 ELSE 0
        BY <1>1, <3>1, <4>1
      <4> QED BY <2>4, <3>3, <4>2
    <3>4. CASE d # c
      BY <2>4, <3>2, <3>4
    <3> QED BY <3>3, <3>4
  <2>7. Knows(k)'
    <3>1. k.pc = "dispatch" /\ k.record = q
      BY <1>2
    <3> QED BY <2>3, <2>5, <2>6, <3>1 DEF Knows, Accounts, Exact
  <2>8. faults' = 0 => \A r \in Records :
           Exact(outbox[r], delivered[r])' \/ (k.pc = "dispatch" /\ k.record = r)
    <3> SUFFICES ASSUME faults' = 0, NEW r \in Records, r # q PROVE Exact(outbox[r], delivered[r])'
      BY <1>2
    <3>1. faults = 0
      BY <1>1
    <3>2. Exact(outbox[r], delivered[r])
      BY <2>1, <3>1
    <3> QED BY <3>2 DEF Exact
  <2> QED BY <2>2, <2>7, <2>8
<1> QED BY <1>2, <1>3, <1>5, AloneStep

(* What the provider does with a request. *)
LEMMA Delivering ==
    ASSUME Typed, Alone, NEW w \in Workers, NEW q \in Records, q = worker[w].record, Sent(w)
    PROVE  /\ KeysDelivered'
           /\ \E c \in Due(w) : \E s \in {"SENT", "FAILED"} :
                 /\ Note(w, c, s)
                 /\ \/ s = "SENT" /\ faults' = faults
                    \/ s = "FAILED" /\ faults' = faults + 1
                 /\ \A r \in Records, d \in Channels :
                       ~(r = q /\ d = c) => delivered'[r][d] = delivered[r][d]
                 /\ \/ delivered'[q][c] = delivered[q][c] + 1
                    \/ delivered'[q][c] = delivered[q][c] /\ delivered[q][c] > 0
<1>1. PICK c \in Due(w) :
         /\ IF c \in Keyed /\ <<q, c>> \in keys THEN UNCHANGED <<delivered, keys>>
            ELSE /\ delivered' = [delivered EXCEPT ![q][c] = @ + 1]
                 /\ keys' = IF c \in Keyed THEN keys \cup {<<q, c>>} ELSE keys
         /\ \/ Note(w, c, "SENT") /\ UNCHANGED faults
            \/ Note(w, c, "FAILED") /\ faults' = faults + 1
  <2>1. PICK c \in Due(w) \cap worker[w].row.reachable :
         /\ IF c \in Keyed /\ <<q, c>> \in keys THEN UNCHANGED <<delivered, keys>>
            ELSE /\ delivered' = [delivered EXCEPT ![q][c] = @ + 1]
                 /\ keys' = IF c \in Keyed THEN keys \cup {<<q, c>>} ELSE keys
         /\ \/ Note(w, c, "SENT") /\ UNCHANGED faults
            \/ Note(w, c, "FAILED") /\ faults < MaxFaults /\ faults' = faults + 1
    BY Zenon DEF Sent, notificationDispatchIdempotencyKey, providers
  <2> QED BY <2>1
<1>2. c \in Channels /\ KeysDelivered /\ delivered \in [Records -> [Channels -> Nat]]
  BY DEF Typed, Local, Due, Alone, Counted
<1>3. CASE UNCHANGED <<delivered, keys>> /\ c \in Keyed /\ <<q, c>> \in keys
  <2>1. KeysDelivered' /\ delivered[q][c] > 0
    BY <1>2, <1>3 DEF KeysDelivered
  <2> QED BY <1>1, <1>3, <2>1
<1>4. CASE /\ delivered' = [delivered EXCEPT ![q][c] = @ + 1]
           /\ keys' = IF c \in Keyed THEN keys \cup {<<q, c>>} ELSE keys
  <2> DEFINE more == [delivered[q] EXCEPT ![c] = delivered[q][c] + 1]
  <2>1. delivered[q] \in [Channels -> Nat] /\ delivered' = [delivered EXCEPT ![q] = more]
    BY <1>2, <1>4
  <2>2. more[c] = delivered[q][c] + 1 /\ \A d \in Channels \ {c} : more[d] = delivered[q][d]
    BY <1>2, <2>1
  <2> HIDE DEF more
  <2>3. delivered'[q] = more /\ \A r \in Records \ {q} : delivered'[r] = delivered[r]
    BY <1>2, <2>1
  <2>4. \A r \in Records, d \in Channels : ~(r = q /\ d = c) => delivered'[r][d] = delivered[r][d]
    BY <2>2, <2>3
  <2>5. delivered'[q][c] = delivered[q][c] + 1 /\ delivered[q][c] \in Nat
    BY <1>2, <2>1, <2>2, <2>3
  <2>6. ASSUME NEW r \in Records, NEW d \in Channels, <<r, d>> \in keys' PROVE delivered'[r][d] > 0
    <3>1. CASE r = q /\ d = c
      BY <2>5, <3>1
    <3>2. CASE ~(r = q /\ d = c)
      <4>1. <<r, d>> \in keys
        BY <1>4, <2>6, <3>2
      <4> QED BY <1>2, <2>4, <3>2, <4>1 DEF KeysDelivered
    <3> QED BY <3>1, <3>2
  <2>7. KeysDelivered'
    BY <2>6 DEF KeysDelivered
  <2> QED BY <1>1, <2>4, <2>5, <2>7
<1> QED BY <1>1, <1>3, <1>4

LEMMA DispatchAlone ==
    ASSUME Typed, Typed', Alone, NEW w \in Workers, Skip(w) \/ Refused(w) \/ Sent(w)
    PROVE  Alone'
<1>1. worker[w].pc = "dispatch" /\ UNCHANGED <<outbox, overlaps>>
  BY DEF Skip, Refused, Sent, At
<1>2. PICK q \in Records : q = worker[w].record
  BY <1>1 DEF Typed
<1>3. CASE Skip(w) \/ Refused(w)
  <2>1. PICK c \in Due(w) : Note(w, c, "FAILED")
    BY <1>3 DEF Skip, Refused
  <2>2. UNCHANGED <<delivered, keys, faults>>
    BY <1>3 DEF Skip, Refused, providers
  <2>3. KeysDelivered'
    BY <2>2 DEF Alone, KeysDelivered
  <2> QED BY <1>1, <1>2, <2>1, <2>2, <2>3, NoteAlone
<1>4. CASE Sent(w)
  <2>1. PICK c \in Due(w), s \in {"SENT", "FAILED"} :
           /\ Note(w, c, s)
           /\ \/ s = "SENT" /\ faults' = faults
              \/ s = "FAILED" /\ faults' = faults + 1
           /\ \A r \in Records, d \in Channels :
                 ~(r = q /\ d = c) => delivered'[r][d] = delivered[r][d]
           /\ \/ delivered'[q][c] = delivered[q][c] + 1
              \/ delivered'[q][c] = delivered[q][c] /\ delivered[q][c] > 0
    BY <1>2, <1>4, Delivering
  <2>2. KeysDelivered'
    BY <1>2, <1>4, Delivering
  <2>3. c \in Channels /\ delivered[q][c] \in Nat
    BY DEF Typed, Local, Due, Counted
  <2>4. delivered'[q][c] >= delivered[q][c]
    BY <2>1, <2>3
  <2> QED BY <1>1, <1>2, <2>1, <2>2, <2>4, NoteAlone
<1> QED BY <1>3, <1>4

(* The row is stored, and the next one of a sweep is taken up.             *)
LEMMA UpdateAlone ==
    ASSUME Typed, Alone, NEW w \in Workers, Update(w)
    PROVE  Alone'
<1>1. /\ worker[w].pc = "dispatch" /\ UNCHANGED <<delivered, keys, overlaps, faults>>
      /\ Continue(w, worker[w].todo, worker[w].copies)
      /\ outbox' = [outbox EXCEPT ![worker[w].record] = worker[w].row]
      /\ Steps(w) /\ (Quiet => overlaps' = overlaps)
  BY DEF Update, At, providers, Steps
<1>2. PICK q \in Records, row \in Rows, T \in SUBSET Records, copies \in [Records -> Rows] :
         q = worker[w].record /\ row = worker[w].row /\ T = worker[w].todo /\ copies = worker[w].copies
  <2>1. worker[w] \in Local /\ worker[w].record \in Records
    BY <1>1 DEF Typed
  <2> QED BY <2>1 DEF Local
<1>3. outbox'[q] = row /\ \A r \in Records \ {q} : outbox'[r] = outbox[r]
  BY <1>1, <1>2, StoredRow
<1>4. KeysDelivered'
  BY <1>1 DEF Alone, KeysDelivered
<1>5. ASSUME overlaps' = 0
      PROVE  /\ \A r \in Records : Accounts(outbox[r], delivered[r])'
             /\ faults' = 0 => \A r \in Records : Exact(outbox[r], delivered[r])'
             /\ q \notin T /\ \A r \in T : copies[r] = outbox'[r]
  <2>1. /\ \A r \in Records : Accounts(outbox[r], delivered[r])
        /\ Knows(worker[w])
        /\ faults = 0 => \A r \in Records : Exact(outbox[r], delivered[r]) \/ r = q
    BY <1>1, <1>2, <1>5, Solo DEF Alone
  <2>2. /\ Accounts(row, delivered[q]) /\ (faults = 0 => Exact(row, delivered[q]))
        /\ q \notin T /\ \A r \in T : copies[r] = outbox[r]
    BY <1>1, <1>2, <2>1 DEF Knows
  <2>3. ASSUME NEW r \in Records PROVE Accounts(outbox[r], delivered[r])'
    <3>1. CASE r = q
      BY <1>1, <1>3, <2>2, <3>1 DEF Accounts
    <3>2. CASE r # q
      BY <1>1, <1>3, <2>1, <3>2 DEF Accounts
    <3> QED BY <3>1, <3>2
  <2>4. ASSUME faults' = 0, NEW r \in Records PROVE Exact(outbox[r], delivered[r])'
    <3>1. CASE r = q
      BY <1>1, <1>3, <2>2, <2>4, <3>1 DEF Exact
    <3>2. CASE r # q
      BY <1>1, <1>3, <2>1, <2>4, <3>2 DEF Exact
    <3> QED BY <3>1, <3>2
  <2>5. \A r \in T : copies[r] = outbox'[r]
    BY <1>3, <2>2
  <2> QED BY <2>2, <2>3, <2>4, <2>5
<1>6. CASE Set(w, Idle)
  <2>1. Knows(Idle)'
    BY IdleTyped DEF Knows
  <2> QED BY <1>1, <1>4, <1>5, <1>6, <2>1, AloneStep
<1>7. ASSUME NEW r \in T, NEW k \in Local,
             Set(w, k), k.pc = "dispatch", k.record = r, k.row = copies[r],
             k.todo = T \ {r}, \A p \in T \ {r} : k.copies[p] = copies[p]
      PROVE  Alone'
  <2>1. ASSUME overlaps' = 0 PROVE Knows(k)'
    <3>1. k.row = outbox'[r] /\ r \notin k.todo /\ \A p \in k.todo : k.copies[p] = outbox'[p]
      BY <1>5, <1>7, <2>1
    <3>2. Accounts(outbox[r], delivered[r])' /\ (faults' = 0 => Exact(outbox[r], delivered[r])')
      BY <1>5, <2>1
    <3> QED BY <1>7, <3>1, <3>2 DEF Knows, Accounts, Exact
  <2> QED BY <1>1, <1>4, <1>5, <1>7, <2>1, AloneStep
<1>8. \/ Set(w, Idle)
      \/ \E r \in T : \E k \in Local :
                 /\ Set(w, k) /\ k.pc = "dispatch" /\ k.record = r /\ k.row = copies[r]
                 /\ k.todo = T \ {r} /\ \A p \in T \ {r} : k.copies[p] = copies[p]
  <2>1. Continue(w, T, copies)
    BY <1>1, <1>2
  <2> QED BY <2>1, Continues
<1> QED BY <1>6, <1>7, <1>8

LEMMA CrashAlone ==
    ASSUME Typed, Alone, NEW w \in Workers, Crash(w)
    PROVE  Alone'
<1>1. /\ Set(w, Idle) /\ UNCHANGED <<outbox, delivered, keys, overlaps>> /\ faults' # 0
      /\ Steps(w) /\ (Quiet => overlaps' = overlaps)
  BY DEF Crash, At, providers, Steps, Typed
<1>2. KeysDelivered'
  BY <1>1 DEF Alone, KeysDelivered
<1>3. overlaps' = 0 => \A r \in Records : Accounts(outbox[r], delivered[r])'
  BY <1>1 DEF Alone, Accounts
<1>4. Knows(Idle)'
  BY IdleTyped DEF Knows
<1> QED BY <1>1, <1>2, <1>3, <1>4, AloneStep

LEMMA AloneInvariant == Spec => []Alone
<1>1. Init => Alone
  <2> SUFFICES ASSUME Init PROVE Alone
    OBVIOUS
  <2>1. /\ outbox = [r \in Records |-> NoRow] /\ worker = [w \in Workers |-> Idle]
        /\ delivered = [r \in Records |-> [c \in Channels |-> 0]] /\ keys = {}
    BY DEF Init
  <2>2. \A w \in Workers : worker[w].pc = "idle"
    BY <2>1, IdleTyped
  <2>3. \A r \in Records : outbox[r] = NoRow /\ \A c \in Channels : delivered[r][c] = 0
    BY <2>1
  <2>4. \A r \in Records : Accounts(outbox[r], delivered[r]) /\ Exact(outbox[r], delivered[r])
    BY <2>3, NoRowTyped DEF Accounts, Exact
  <2> QED BY <2>1, <2>2, <2>4 DEF Alone, KeysDelivered, Single, Knows, Settled
<1>2. Typed /\ Typed' /\ Alone /\ [Next]_vars => Alone'
  <2> SUFFICES ASSUME Typed, Typed', Alone, [Next]_vars PROVE Alone'
    OBVIOUS
  <2>1. CASE UNCHANGED vars
    <3>1. UNCHANGED <<outbox, worker, delivered, keys, overlaps, faults>>
      BY <2>1 DEF vars
    <3> QED BY <3>1 DEF Alone, KeysDelivered, Single, Knows, Settled, Accounts, Exact
  <2>2. ASSUME NEW w \in Workers, Plan(w) \/ Find(w) \/ List(w) \/ Step(w) \/ Crash(w) PROVE Alone'
    BY <2>2, BeginAlone, SaveAlone, DispatchAlone, UpdateAlone, CrashAlone DEF Step
  <2> QED BY <2>1, <2>2, NextCases
<1> QED BY <1>1, <1>2, TypedInvariant, PTL DEF Spec

(* Between operations that came one at a time the record accounts for what *)
(* went out: nothing is reported sent that was not, nothing that was sent  *)
(* is missing unless an operation died (dispatchRecord, updateOutbox).     *)
THEOREM OnRecord == Spec => []DeliveriesOnRecord
<1>1. Typed /\ Alone => DeliveriesOnRecord
  <2> SUFFICES ASSUME Typed, Alone, Quiet, overlaps = 0, NEW r \in Records, NEW c \in Channels
               PROVE  /\ outbox[r].status[c] = "SENT" <=> "SENT" \in outbox[r].attempts[c]
                      /\ outbox[r].status[c] = "SENT" => delivered[r][c] > 0
                      /\ faults = 0 => delivered[r][c] = IF outbox[r].status[c] = "SENT" THEN 1 ELSE 0
    BY DEF DeliveriesOnRecord
  <2>1. Accounts(outbox[r], delivered[r]) /\ (faults = 0 => Settled(r))
    BY DEF Alone
  <2>2. faults = 0 => Exact(outbox[r], delivered[r])
    BY <2>1 DEF Settled, Quiet, At
  <2> QED BY <2>1, <2>2 DEF Accounts, Exact
<1> QED BY <1>1, AloneInvariant, TypedInvariant, PTL
-----------------------------------------------------------------------------
(* Conversations. *)


(* What holds under any interleaving.  A conversation and the copies of it.  *)
ConvRecords == [status : conversationStatuses, inbound : Nat, first : Nat \cup {Never}]

MessageRecords == [from : Sides, at : Nat, status : {"SENT", "DELIVERED", "READ"}]
AlertRecords == [type : {"SLA_BREACHED", "SLA_DUE_SOON"}, due : Nat]

CallSound(k) ==
    /\ k.pc \in {"idle", "message", "save", "receipts"}
    /\ k.pc \in {"message", "save"} => k.conv \in ConvRecords
    /\ k.pc = "message" => k.from \in Sides /\ k.at \in 0..now
    /\ k.pc = "receipts" =>
          /\ k = [pc |-> "receipts", kind |-> k.kind, copy |-> k.copy]
          /\ k.kind \in {"READ", "DELIVERED"} /\ DOMAIN k.copy \subseteq DOMAIN messages
          /\ DOMAIN k.copy # {}
          /\ \A i \in DOMAIN k.copy : k.copy[i] \in {"SENT", "DELIVERED", "READ"}

SweepSound(k) ==
    /\ k.pc \in {"idle", "check", "alert"}
    /\ k.pc # "idle" => /\ k.alert \in AlertRecords /\ k.checkedAt \in Int
                        /\ k.alert.type = "SLA_BREACHED" => k.checkedAt > k.alert.due

ConvBase ==
    /\ now \in Nat /\ overlapping \in Nat /\ crashes \in Nat /\ blocked \in BOOLEAN
    /\ conv \in ConvRecords \cup {NoConversation}
    /\ messages \in Seq(MessageRecords) /\ \A i \in DOMAIN messages : messages[i].at <= now
    /\ alerts \in Seq(AlertRecords)
    /\ DOMAIN call = Calls /\ \A c \in Calls : CallSound(call[c])
    /\ DOMAIN sweep = Sweeps /\ \A s \in Sweeps : SweepSound(sweep[s])
    /\ ~Exists => AllIdle /\ messages = <<>>

(* The clock of a conversation k is right of answers R and T. *)
ClockOf(k, R, T) ==
    /\ k.inbound \in R /\ \A t \in R : t <= k.inbound
    /\ IF T = {} THEN k.first = Never
       ELSE k.first \in T /\ \A t \in T : k.first <= t

ClockNow(k) == ClockOf(k, SentAt("requester"), SentAt("tenant"))
With(side, k) == IF k.from = side THEN SentAt(side) \cup {k.at} ELSE SentAt(side)

(* What the lone call has read, and what it is about to write. *)
CallFresh(k) ==
    /\ k.pc = "message" /\ crashes = 0 =>
          ClockOf(k.conv, With("requester", k), With("tenant", k))
    /\ k.pc = "save" /\ crashes = 0 => ClockNow(k.conv)
    /\ k.pc \in {"message", "save"} /\ "status" \notin DOMAIN k =>
          (conv.status \in Closed => k.conv.status \in Closed)
    /\ k.pc = "message" => "status" \notin DOMAIN k
    /\ k.pc = "receipts" => \A i \in DOMAIN k.copy : k.copy[i] = messages[i].status

SweepFresh(k) == k.pc = "alert" => ~hasSlaAlert(k.alert.type, k.alert.due)

OneAtATime ==
    /\ \A c, d \in Calls : call[c].pc # "idle" /\ call[d].pc # "idle" => c = d
    /\ \A s, t \in Sweeps : sweep[s].pc # "idle" /\ sweep[t].pc # "idle" => s = t
    /\ \A c \in Calls, s \in Sweeps : call[c].pc = "idle" \/ sweep[s].pc = "idle"

Writing == \E c \in Calls : call[c].pc \in {"message", "save"}

ConvAlone ==
    overlapping = 0 =>
        /\ OneAtATime
        /\ \A c \in Calls : CallFresh(call[c])
        /\ \A s \in Sweeps : SweepFresh(sweep[s])
        /\ Exists /\ ~Writing /\ crashes = 0 => ClockNow(conv)
        /\ \A i, j \in DOMAIN alerts : i # j => alerts[i] # alerts[j]

ConvInv == ConvBase /\ ConvAlone

LEMMA StartAlone ==
    ASSUME ConvInv, Start
    PROVE  /\ overlapping' \in Nat /\ crashes' = crashes
           /\ overlapping' = 0 => overlapping = 0 /\ AllIdle
  BY DEF ConvInv, ConvBase, Start

LEMMA CallGoes ==
    ASSUME ConvInv, NEW c \in Calls, NEW k, Go(c, k)
    PROVE  DOMAIN call' = Calls /\ call'[c] = k /\ \A d \in Calls \ {c} : call'[d] = call[d]
  BY DEF ConvInv, ConvBase, Go

LEMMA SweepGoes ==
    ASSUME ConvInv, NEW s \in Sweeps, NEW k, SetSweep(s, k)
    PROVE  DOMAIN sweep' = Sweeps /\ sweep'[s] = k /\ \A t \in Sweeps \ {s} : sweep'[t] = sweep[t]
  BY DEF ConvInv, ConvBase, SetSweep

LEMMA RecordsExist ==
    \A k \in ConvRecords : k.status # "NONE" /\ k # NoConversation
  BY DEF ConvRecords, conversationStatuses, NoConversation

LEMMA IdleIs == IdleCall.pc = "idle" /\ CallSound(IdleCall)' /\ SweepSound(IdleCall)'
                /\ CallFresh(IdleCall)' /\ SweepFresh(IdleCall)'
  BY DEF IdleCall, CallSound, SweepSound, CallFresh, SweepFresh

(* Of the one that is in progress, the others are idle. *)
LEMMA LoneCall ==
    ASSUME ConvInv, overlapping = 0, NEW c \in Calls, call[c].pc # "idle"
    PROVE  /\ \A d \in Calls \ {c} : call[d].pc = "idle"
           /\ \A s \in Sweeps : sweep[s].pc = "idle"
  BY DEF ConvInv, ConvAlone, OneAtATime

LEMMA LoneSweep ==
    ASSUME ConvInv, overlapping = 0, NEW s \in Sweeps, sweep[s].pc # "idle"
    PROVE  /\ \A t \in Sweeps \ {s} : sweep[t].pc = "idle"
           /\ \A c \in Calls : call[c].pc = "idle"
  BY DEF ConvInv, ConvAlone, OneAtATime

(* Time and the block list. *)
LEMMA TimePasses ==
    ASSUME ConvInv, now' \in Nat, now <= now', blocked' \in BOOLEAN,
           UNCHANGED <<conv, messages, alerts, call, sweep, overlapping, crashes>>
    PROVE  ConvInv'
<1>1. \A c \in Calls : CallSound(call[c])'
  <2> SUFFICES ASSUME NEW c \in Calls PROVE CallSound(call[c])'
    OBVIOUS
  <2>1. CallSound(call[c]) /\ now \in Nat
    BY DEF ConvInv, ConvBase
  <2> QED BY <2>1 DEF CallSound
<1>2. \A s \in Sweeps : SweepSound(sweep[s])'
  <2> SUFFICES ASSUME NEW s \in Sweeps PROVE SweepSound(sweep[s])'
    OBVIOUS
  <2>1. SweepSound(sweep[s]) /\ now \in Nat
    BY DEF ConvInv, ConvBase
  <2> QED BY <2>1 DEF SweepSound, AlertRecords
<1>3. \A i \in DOMAIN messages : messages[i].at <= now'
  <2> SUFFICES ASSUME NEW i \in DOMAIN messages PROVE messages[i].at <= now'
    OBVIOUS
  <2>1. messages[i] \in MessageRecords /\ messages[i].at <= now /\ now \in Nat
    BY DEF ConvInv, ConvBase
  <2> QED BY <2>1 DEF MessageRecords
<1>4. ConvBase'
  BY <1>1, <1>2, <1>3 DEF ConvInv, ConvBase, Exists, AllIdle
<1>5. ASSUME overlapping' = 0 PROVE ConvAlone'
  <2>1. \A c \in Calls : CallFresh(call[c])'
    <3> SUFFICES ASSUME NEW c \in Calls PROVE CallFresh(call[c])'
      OBVIOUS
    <3>1. CallFresh(call[c])
      BY <1>5 DEF ConvInv, ConvAlone
    <3>2. /\ SentAt("requester")' = SentAt("requester") /\ SentAt("tenant")' = SentAt("tenant")
          /\ call' = call /\ messages' = messages /\ conv' = conv /\ crashes' = crashes
      BY DEF SentAt
    <3>3. /\ With("requester", call[c])' = With("requester", call[c])
          /\ With("tenant", call[c])' = With("tenant", call[c])
      BY <3>2 DEF With
    <3>4. ClockNow(call[c].conv)' = ClockNow(call[c].conv)
      BY <3>2 DEF ClockNow, ClockOf
    <3> QED BY <3>1, <3>2, <3>3, <3>4 DEF CallFresh, ClockOf
  <2>2. \A s \in Sweeps : SweepFresh(sweep[s])'
    BY <1>5 DEF ConvInv, ConvAlone, SweepFresh, hasSlaAlert
  <2>3. /\ OneAtATime /\ (Exists /\ ~Writing /\ crashes = 0 => ClockNow(conv))
        /\ \A i, j \in DOMAIN alerts : i # j => alerts[i] # alerts[j]
    BY <1>5 DEF ConvInv, ConvAlone
  <2>4. OneAtATime'
    BY <2>3 DEF OneAtATime
  <2>5. (Exists /\ ~Writing /\ crashes = 0 => ClockNow(conv))'
    <3>1. SentAt("requester")' = SentAt("requester") /\ SentAt("tenant")' = SentAt("tenant")
      BY DEF SentAt
    <3>2. ClockNow(conv)' = ClockNow(conv)
      BY <3>1 DEF ClockNow, ClockOf
    <3>3. Exists' = Exists /\ Writing' = Writing
      BY DEF Exists, Writing
    <3> QED BY <2>3, <3>2, <3>3
  <2> QED BY <2>1, <2>2, <2>3, <2>4, <2>5 DEF ConvAlone
<1> QED BY <1>4, <1>5 DEF ConvInv, ConvAlone

(* A call begins. *)
LEMMA Enters ==
    ASSUME ConvInv, NEW c \in Calls, NEW k, Enter(c, k),
           UNCHANGED <<messages, alerts, blocked, now, sweep>>,
           k.pc # "idle", CallSound(k)', conv' \in ConvRecords,
           conv' = conv \/ k.pc = "message",
           overlapping' = 0 => CallFresh(k)'
    PROVE  ConvInv'
<1>0. Start /\ Go(c, k)
  BY DEF Enter
<1>1. DOMAIN call' = Calls /\ call'[c] = k /\ \A d \in Calls \ {c} : call'[d] = call[d]
  BY <1>0, CallGoes
<1>2. \A d \in Calls : CallSound(call[d])'
  <2>1. \A d \in Calls \ {c} : CallSound(call[d])'
    BY <1>1 DEF ConvInv, ConvBase, CallSound
  <2> QED BY <1>1, <2>1
<1>3. \A s \in Sweeps : SweepSound(sweep[s])'
  BY DEF ConvInv, ConvBase, SweepSound
<1>4. ConvBase'
  BY <1>0, <1>1, <1>2, <1>3, StartAlone, RecordsExist DEF ConvInv, ConvBase, Exists
<1>5. ASSUME overlapping' = 0 PROVE ConvAlone'
  <2>1. overlapping = 0 /\ AllIdle /\ crashes' = crashes
    BY <1>0, <1>5, StartAlone
  <2>2. /\ \A d \in Calls \ {c} : call'[d].pc = "idle"
        /\ \A s \in Sweeps : sweep'[s].pc = "idle"
    BY <1>1, <2>1 DEF AllIdle
  <2>3. \A d \in Calls : CallFresh(call[d])'
    BY <1>1, <1>5, <2>2 DEF CallFresh
  <2>4. OneAtATime' /\ \A s \in Sweeps : SweepFresh(sweep[s])'
    BY <2>2 DEF OneAtATime, SweepFresh
  <2>5. Exists' /\ ~Writing' /\ crashes' = 0 => ClockNow(conv)'
    <3>1. SUFFICES ASSUME ~Writing', crashes' = 0 PROVE ClockNow(conv)'
      OBVIOUS
    <3>2. conv' = conv
      BY <1>1, <3>1 DEF Writing
    <3>3. Exists /\ ~Writing
      BY <2>1, <3>2, RecordsExist DEF Exists, Writing, AllIdle
    <3>4. ClockNow(conv)
      BY <2>1, <3>1, <3>3 DEF ConvInv, ConvAlone
    <3>5. SentAt("requester")' = SentAt("requester") /\ SentAt("tenant")' = SentAt("tenant")
      BY DEF SentAt
    <3> QED BY <3>2, <3>4, <3>5 DEF ClockNow, ClockOf
  <2> QED BY <2>1, <2>3, <2>4, <2>5 DEF ConvInv, ConvAlone
<1> QED BY <1>4, <1>5 DEF ConvInv, ConvAlone

LEMMA ExistsIs ==
    ASSUME ConvInv, Exists
    PROVE  conv \in ConvRecords
  BY DEF ConvInv, ConvBase, Exists, NoConversation

(* What is sent is right of the answers there will be. *)
LEMMA Sends ==
    ASSUME ConvInv, NEW c \in Calls, sendMessage(c)
    PROVE  ConvInv'
<1>1. PICK from \in Sides :
         Enter(c, [pc |-> "message", from |-> from, at |-> now, conv |-> Answered(conv, from, now)])
  BY DEF sendMessage
<1>2. /\ Exists /\ conv.status \notin Closed
      /\ UNCHANGED <<conv, messages, alerts, blocked, now, sweep>>
  BY DEF sendMessage
<1>3. conv \in ConvRecords /\ now \in Nat
  BY <1>2, ExistsIs DEF ConvInv, ConvBase
<1>4. PICK a : a = Answered(conv, from, now)
  OBVIOUS
<1>5. /\ a \in ConvRecords
      /\ a.inbound = IF from = "requester" THEN now ELSE conv.inbound
      /\ a.first = IF from = "tenant" /\ conv.first = Never THEN now ELSE conv.first
  BY <1>3, <1>4 DEF Answered, ConvRecords, conversationStatuses, Sides, Never
<1>6. PICK k : k = [pc |-> "message", from |-> from, at |-> now, conv |-> a]
  OBVIOUS
<1>7. k.pc = "message" /\ k.from = from /\ k.at = now /\ k.conv = a /\ "status" \notin DOMAIN k
  BY <1>6
<1>8. CallSound(k)'
  BY <1>2, <1>3, <1>5, <1>7 DEF CallSound
<1>9. ASSUME overlapping' = 0 PROVE CallFresh(k)'
  <2>1. overlapping = 0 /\ AllIdle /\ crashes' = crashes
    BY <1>1, <1>9, StartAlone DEF Enter
  <2>2. ASSUME crashes = 0 PROVE ClockOf(a, With("requester", k), With("tenant", k))
    <3>1. ClockOf(conv, SentAt("requester"), SentAt("tenant"))
      BY <1>2, <2>1, <2>2 DEF ConvInv, ConvAlone, Writing, AllIdle, ClockNow
    <3>2. \A side : \A t \in SentAt(side) : t \in Nat /\ t <= now
      <4>1. \A i \in DOMAIN messages : messages[i] \in MessageRecords /\ messages[i].at <= now
        BY DEF ConvInv, ConvBase
      <4>2. \A i \in DOMAIN messages : messages[i].at \in Nat /\ messages[i].at <= now
        BY <4>1 DEF MessageRecords
      <4> QED BY <4>2 DEF SentAt
    <3>3. PICK R, T : R = SentAt("requester") /\ T = SentAt("tenant")
      OBVIOUS
    <3>4. \A t \in R \cup T : t \in Nat /\ t <= now
      BY <3>2, <3>3
    <3>5. ClockOf(conv, R, T)
      BY <3>1, <3>3
    <3>6. CASE from = "requester"
      <4>1. With("requester", k) = R \cup {now} /\ With("tenant", k) = T
        BY <1>7, <3>3, <3>6 DEF With
      <4> QED BY <1>3, <1>5, <3>4, <3>5, <3>6, <4>1 DEF ClockOf
    <3>7. CASE from = "tenant"
      <4>1. With("requester", k) = R /\ With("tenant", k) = T \cup {now}
        BY <1>7, <3>3, <3>7 DEF With
      <4>2. now # Never /\ \A t \in T : t # Never
        BY <1>3, <3>4 DEF Never
      <4>3. CASE T = {}
        BY <1>3, <1>5, <3>5, <3>7, <4>1, <4>3 DEF ClockOf
      <4>4. CASE T # {}
        <5>1. conv.first \in T /\ \A t \in T : conv.first <= t
          BY <3>5, <4>4 DEF ClockOf
        <5> QED BY <1>3, <1>5, <3>4, <3>5, <3>7, <4>1, <4>2, <5>1 DEF ClockOf
      <4> QED BY <4>3, <4>4
    <3>8. CASE from = "system"
      <4>1. With("requester", k) = R /\ With("tenant", k) = T
        BY <1>7, <3>3, <3>8 DEF With
      <4> QED BY <1>5, <3>5, <3>8, <4>1 DEF ClockOf
    <3> QED BY <3>6, <3>7, <3>8 DEF Sides
  <2> QED BY <1>2, <1>7, <2>1, <2>2 DEF CallFresh, With, SentAt
<1>10. Enter(c, k)
  BY <1>1, <1>4, <1>6
<1> QED BY <1>2, <1>3, <1>7, <1>8, <1>9, <1>10, Enters

LEMMA Creates ==
    ASSUME ConvInv, NEW c \in Calls, createConversation(c)
    PROVE  ConvInv'
<1>1. PICK status \in {"OPEN", "ASSIGNED"} : conv' = [status |-> status, inbound |-> now, first |-> Never]
  BY DEF createConversation
<1>2. /\ ~Exists /\ UNCHANGED <<messages, alerts, blocked, now, sweep>>
      /\ Enter(c, [pc |-> "message", from |-> "requester", at |-> now, conv |-> conv'])
  BY DEF createConversation
<1>3. now \in Nat /\ messages = <<>>
  BY <1>2 DEF ConvInv, ConvBase
<1>4. PICK a : a = conv'
  OBVIOUS
<1>5. a \in ConvRecords /\ a.inbound = now /\ a.first = Never
  BY <1>1, <1>3, <1>4 DEF ConvRecords, conversationStatuses
<1>6. PICK k : k = [pc |-> "message", from |-> "requester", at |-> now, conv |-> a]
  OBVIOUS
<1>7. k.pc = "message" /\ k.from = "requester" /\ k.at = now /\ k.conv = a /\ "status" \notin DOMAIN k
  BY <1>6
<1>8. CallSound(k)'
  BY <1>2, <1>3, <1>5, <1>7 DEF CallSound, Sides
<1>9. CallFresh(k)'
  <2>1. SentAt("requester") = {} /\ SentAt("tenant") = {}
    BY <1>3 DEF SentAt
  <2>2. With("requester", k) = {now} /\ With("tenant", k) = {}
    BY <1>7, <2>1 DEF With
  <2>3. ClockOf(a, With("requester", k), With("tenant", k))
    BY <1>3, <1>5, <2>2 DEF ClockOf
  <2> QED BY <1>2, <1>4, <1>7, <2>3 DEF CallFresh, With, SentAt
<1>10. Enter(c, k)
  BY <1>2, <1>4, <1>6
<1> QED BY <1>2, <1>4, <1>5, <1>7, <1>8, <1>9, <1>10, Enters

LEMMA Changes ==
    ASSUME ConvInv, NEW c \in Calls, Change(c)
    PROVE  ConvInv'
<1>1. Exists /\ UNCHANGED <<conv, messages, alerts, blocked, now, sweep>>
  BY DEF Change
<1>2. conv \in ConvRecords
  BY <1>1, ExistsIs
<1>3. ASSUME NEW status \in conversationStatuses, NEW k, Enter(c, k), k.pc = "save",
             k.conv = [conv EXCEPT !.status = status],
             "status" \notin DOMAIN k /\ conv.status \in Closed => status \in Closed
      PROVE  ConvInv'
  <2>1. /\ k.conv \in ConvRecords /\ k.conv.status = status
        /\ k.conv.inbound = conv.inbound /\ k.conv.first = conv.first
    BY <1>2, <1>3 DEF ConvRecords
  <2>2. CallSound(k)'
    BY <1>3, <2>1 DEF CallSound
  <2>3. ASSUME overlapping' = 0 PROVE CallFresh(k)'
    <3>1. overlapping = 0 /\ AllIdle /\ crashes' = crashes
      BY <1>3, <2>3, StartAlone DEF Enter
    <3>2. crashes = 0 => ClockOf(conv, SentAt("requester"), SentAt("tenant"))
      BY <1>1, <3>1 DEF ConvInv, ConvAlone, Writing, AllIdle, ClockNow
    <3>3. crashes' = 0 => ClockNow(k.conv)'
      <4>1. SentAt("requester")' = SentAt("requester") /\ SentAt("tenant")' = SentAt("tenant")
        BY <1>1 DEF SentAt
      <4> QED BY <2>1, <3>1, <3>2, <4>1 DEF ClockNow, ClockOf
    <3>4. k.pc = "save" /\ ("status" \notin DOMAIN k => (conv'.status \in Closed => k.conv.status \in Closed))
      BY <1>1, <1>3, <2>1
    <3> QED BY <3>3, <3>4 DEF CallFresh
  <2> QED BY <1>1, <1>2, <1>3, <2>2, <2>3, Enters
<1>4. CASE \E status \in {IF conv.status = "OPEN" THEN "ASSIGNED" ELSE conv.status, conv.status} :
              Enter(c, [pc |-> "save", conv |-> [conv EXCEPT !.status = status]])
  <2>1. PICK status : /\ status \in {IF conv.status = "OPEN" THEN "ASSIGNED" ELSE conv.status, conv.status}
                      /\ Enter(c, [pc |-> "save", conv |-> [conv EXCEPT !.status = status]])
    BY <1>4
  <2>2. PICK k : k = [pc |-> "save", conv |-> [conv EXCEPT !.status = status]]
    OBVIOUS
  <2>3. k.pc = "save" /\ k.conv = [conv EXCEPT !.status = status] /\ Enter(c, k)
    BY <2>1, <2>2
  <2>4. status \in conversationStatuses /\ (conv.status \in Closed => status \in Closed)
    BY <1>2, <2>1 DEF ConvRecords, conversationStatuses, Closed
  <2> QED BY <1>3, <2>3, <2>4
<1>5. CASE \E status \in ByHand :
              Enter(c, [pc |-> "save", conv |-> [conv EXCEPT !.status = status], status |-> TRUE])
  <2>1. PICK status \in ByHand :
           Enter(c, [pc |-> "save", conv |-> [conv EXCEPT !.status = status], status |-> TRUE])
    BY <1>5
  <2>2. PICK k : k = [pc |-> "save", conv |-> [conv EXCEPT !.status = status], status |-> TRUE]
    OBVIOUS
  <2>3. k.pc = "save" /\ k.conv = [conv EXCEPT !.status = status] /\ "status" \in DOMAIN k /\ Enter(c, k)
    BY <2>1, <2>2
  <2> QED BY <1>3, <2>3, SlaAssumption
<1> QED BY <1>4, <1>5 DEF Change

LEMMA MarksOne ==
    ASSUME ConvInv, NEW c \in Calls, NEW kind \in {"READ", "DELIVERED"},
           NEW ids \in SUBSET DOMAIN messages, Mark(c, kind, ids), Exists
    PROVE  ConvInv'
<1>1. ids # {} /\ UNCHANGED <<conv, messages, alerts, blocked, now, sweep>>
  BY DEF Mark
<1>2. PICK copy : copy = [i \in ids |-> messages[i].status]
  OBVIOUS
<1>3. PICK k : k = [pc |-> "receipts", kind |-> kind, copy |-> copy]
  OBVIOUS
<1>4. k.pc = "receipts" /\ k.kind = kind /\ k.copy = copy
  BY <1>3
<1>5. \A i \in ids : messages[i] \in MessageRecords
  BY DEF ConvInv, ConvBase
<1>6. CallSound(k)' /\ CallFresh(k)'
  <2>1. k = [pc |-> "receipts", kind |-> k.kind, copy |-> k.copy]
    BY <1>3, <1>4
  <2>2. \A i \in ids : messages[i].status \in {"SENT", "DELIVERED", "READ"}
    BY <1>5 DEF MessageRecords
  <2> QED BY <1>1, <1>2, <1>4, <2>1, <2>2 DEF CallSound, CallFresh
<1>7. Enter(c, k)
  BY <1>2, <1>3 DEF Mark
<1> QED BY <1>1, <1>4, <1>6, <1>7, ExistsIs, Enters

(* Only a conversation has messages. *)
LEMMA MarksAll ==
    ASSUME ConvInv, NEW c \in Calls,
           markThreadDelivered(c) \/ markThreadRead(c) \/ markDelivered(c) \/ markRead(c)
    PROVE  ConvInv'
<1>1. \A reader : Readable(reader) \subseteq DOMAIN messages
  BY DEF Readable
<1>2. PICK kind \in {"READ", "DELIVERED"}, ids \in SUBSET DOMAIN messages : Mark(c, kind, ids)
  BY <1>1 DEF markThreadDelivered, markThreadRead, markDelivered, markRead
<1>3. Exists
  <2>1. messages # <<>>
    BY <1>2 DEF Mark
  <2> QED BY <2>1 DEF ConvInv, ConvBase
<1> QED BY <1>2, <1>3, MarksOne
-----------------------------------------------------------------------------
(* The call in progress goes on: nothing but it, the conversation and the    *)
(* messages change.                                                          *)
LEMMA GoesOn ==
    ASSUME ConvInv, NEW c \in Calls, NEW k, call[c].pc # "idle", Go(c, k),
           UNCHANGED <<alerts, blocked, now, sweep, overlapping>>, crashes' \in Nat, crashes <= crashes',
           CallSound(k)', Exists, conv' \in ConvRecords,
           messages' \in Seq(MessageRecords), DOMAIN messages \subseteq DOMAIN messages',
           \A i \in DOMAIN messages' : messages'[i].at <= now,
           overlapping = 0 => /\ CallFresh(k)'
                              /\ k.pc \notin {"message", "save"} /\ crashes' = 0 => ClockNow(conv)'
    PROVE  ConvInv'
<1>1. DOMAIN call' = Calls /\ call'[c] = k /\ \A d \in Calls \ {c} : call'[d] = call[d]
  BY CallGoes
<1>2. \A d \in Calls : CallSound(call[d])'
  <2>1. ASSUME NEW d \in Calls \ {c} PROVE CallSound(call[d])'
    <3>1. CallSound(call[d]) /\ call'[d] = call[d]
      BY <1>1 DEF ConvInv, ConvBase
    <3> QED BY <3>1 DEF CallSound
  <2> QED BY <1>1, <2>1
<1>3. \A s \in Sweeps : SweepSound(sweep[s])'
  BY DEF ConvInv, ConvBase, SweepSound
<1>4. ConvBase'
  BY <1>1, <1>2, <1>3, RecordsExist DEF ConvInv, ConvBase, Exists
<1>5. ASSUME overlapping' = 0 PROVE ConvAlone'
  <2>1. /\ \A d \in Calls \ {c} : call'[d].pc = "idle"
        /\ \A s \in Sweeps : sweep'[s].pc = "idle"
    BY <1>1, <1>5, LoneCall
  <2>2. \A d \in Calls : CallFresh(call[d])'
    BY <1>1, <1>5, <2>1 DEF CallFresh
  <2>3. OneAtATime' /\ \A s \in Sweeps : SweepFresh(sweep[s])'
    BY <2>1 DEF OneAtATime, SweepFresh
  <2>4. Exists' /\ ~Writing' /\ crashes' = 0 => ClockNow(conv)'
    BY <1>1, <1>5 DEF Writing
  <2> QED BY <1>5, <2>2, <2>3, <2>4 DEF ConvInv, ConvAlone
<1> QED BY <1>4, <1>5 DEF ConvInv, ConvAlone

(* A call that is in progress is about a conversation there is. *)
LEMMA ActiveExists ==
    ASSUME ConvInv, NEW c \in Calls, call[c].pc # "idle"
    PROVE  Exists /\ conv \in ConvRecords /\ CallSound(call[c])
  BY ExistsIs DEF ConvInv, ConvBase, AllIdle

LEMMA Stores ==
    ASSUME ConvInv, NEW c \in Calls, createMessage(c)
    PROVE  ConvInv'
<1>1. PICK j : j = call[c]
  OBVIOUS
<1>2. PICK m : m = [from |-> j.from, at |-> j.at, status |-> "SENT"]
  OBVIOUS
<1>3. PICK k : k = [pc |-> "save", conv |-> j.conv]
  OBVIOUS
<1>4. /\ j.pc = "message" /\ messages' = Append(messages, m) /\ Go(c, k)
      /\ UNCHANGED <<conv, alerts, blocked, now, sweep, overlapping, crashes>>
  BY <1>1, <1>2, <1>3 DEF createMessage, CallAt, counters
<1>5. Exists /\ conv \in ConvRecords /\ j.conv \in ConvRecords /\ j.from \in Sides /\ j.at \in 0..now
  BY <1>1, <1>4, ActiveExists DEF CallSound
<1>6. now \in Nat /\ overlapping \in Nat /\ crashes \in Nat /\ messages \in Seq(MessageRecords)
      /\ \A i \in DOMAIN messages : messages[i].at <= now
  BY DEF ConvInv, ConvBase
<1>7. m \in MessageRecords /\ m.from = j.from /\ m.at = j.at
  BY <1>2, <1>5, <1>6 DEF MessageRecords
<1>8. k.pc = "save" /\ k.conv = j.conv /\ "status" \notin DOMAIN k
  BY <1>3
<1>9. /\ messages' \in Seq(MessageRecords) /\ DOMAIN messages' = DOMAIN messages \cup {Len(messages) + 1}
      /\ messages'[Len(messages) + 1] = m
      /\ \A i \in DOMAIN messages : messages'[i] = messages[i]
  BY <1>4, <1>6, <1>7
<1>10. \A i \in DOMAIN messages' : messages'[i].at <= now
  BY <1>5, <1>6, <1>7, <1>9
<1>11. \A side : SentAt(side)' = With(side, j)
  <2> SUFFICES ASSUME NEW side PROVE SentAt(side)' = With(side, j)
    OBVIOUS
  <2>1. \A t : t \in SentAt(side)' <=> \E i \in DOMAIN messages' : messages'[i].from = side /\ messages'[i].at = t
    BY DEF SentAt
  <2>2. \A t : t \in SentAt(side) <=> \E i \in DOMAIN messages : messages[i].from = side /\ messages[i].at = t
    BY DEF SentAt
  <2>3. \A t : t \in SentAt(side)' <=> t \in SentAt(side) \/ (j.from = side /\ t = j.at)
    BY <1>7, <1>9, <2>1, <2>2
  <2> QED BY <2>3 DEF With
<1>12. CallSound(k)'
  BY <1>5, <1>8 DEF CallSound
<1>13. ASSUME overlapping = 0 PROVE CallFresh(k)'
  <2>1. CallFresh(j)
    BY <1>1, <1>13 DEF ConvInv, ConvAlone
  <2>2. crashes' = 0 => ClockNow(k.conv)'
    <3>1. crashes = 0 => ClockOf(j.conv, With("requester", j), With("tenant", j))
      BY <1>4, <2>1 DEF CallFresh
    <3>2. SentAt("requester")' = With("requester", j) /\ SentAt("tenant")' = With("tenant", j)
      BY <1>11
    <3> QED BY <1>4, <1>8, <3>1, <3>2 DEF ClockNow, ClockOf
  <2>3. conv'.status \in Closed => k.conv.status \in Closed
    BY <1>4, <1>8, <2>1 DEF CallFresh
  <2> QED BY <1>8, <2>2, <2>3 DEF CallFresh
<1> QED BY <1>1, <1>4, <1>5, <1>6, <1>8, <1>9, <1>10, <1>12, <1>13, GoesOn

LEMMA Updates ==
    ASSUME ConvInv, NEW c \in Calls, updateConversation(c)
    PROVE  /\ ConvInv'
           /\ overlapping' = 0 /\ conv.status \in Closed /\ conv'.status \notin Closed =>
                 "status" \in DOMAIN call[c]
           /\ messages' = messages
<1>1. PICK j : j = call[c]
  OBVIOUS
<1>2. PICK k : k = IdleCall
  OBVIOUS
<1>3. /\ j.pc = "save" /\ conv' = j.conv /\ Go(c, k)
      /\ UNCHANGED <<messages, alerts, blocked, now, sweep, overlapping, crashes>>
  BY <1>1, <1>2 DEF updateConversation, CallAt, counters
<1>4. Exists /\ conv \in ConvRecords /\ j.conv \in ConvRecords
  BY <1>1, <1>3, ActiveExists DEF CallSound
<1>5. CallSound(k)' /\ CallFresh(k)' /\ k.pc = "idle"
  BY <1>2, IdleIs
<1>6. overlapping = 0 => CallFresh(j)
  BY <1>1 DEF ConvInv, ConvAlone
<1>7. overlapping = 0 /\ crashes' = 0 => ClockNow(conv)'
  <2>1. SentAt("requester")' = SentAt("requester") /\ SentAt("tenant")' = SentAt("tenant")
    BY <1>3 DEF SentAt
  <2>2. overlapping = 0 /\ crashes = 0 => ClockNow(j.conv)
    BY <1>3, <1>6 DEF CallFresh
  <2> QED BY <1>3, <2>1, <2>2 DEF ClockNow, ClockOf
<1>8. overlapping = 0 /\ "status" \notin DOMAIN j => (conv.status \in Closed => j.conv.status \in Closed)
  BY <1>3, <1>6 DEF CallFresh
<1>9. now \in Nat /\ crashes \in Nat /\ messages \in Seq(MessageRecords)
      /\ \A i \in DOMAIN messages : messages[i].at <= now
  BY DEF ConvInv, ConvBase
<1>10. ConvInv'
  BY <1>1, <1>3, <1>4, <1>5, <1>7, <1>9, GoesOn
<1> QED BY <1>1, <1>3, <1>8, <1>10

LEMMA LeastOf ==
    ASSUME NEW n \in Nat, NEW I \in SUBSET (1..n), I # {}
    PROVE  \E i \in I : \A j \in I : i <= j
<1>0. I \subseteq Nat
  OBVIOUS
<1>1. PICK i \in I : \A j \in I : <<j, i>> \notin OpToRel(<, Nat)
  BY <1>0, NatLessThanWellFounded, WFMin
<1>2. \A j \in I : ~(j < i)
  BY <1>0, <1>1 DEF OpToRel
<1>3. \A j \in I : i <= j
  BY <1>2
<1> QED BY <1>3

LEMMA Receives ==
    ASSUME ConvInv, NEW c \in Calls, updateMessage(c)
    PROVE  /\ ConvInv'
           /\ overlapping' = 0 => \A i \in DOMAIN messages : Rank(messages[i].status) <= Rank(messages'[i].status)
           /\ conv' = conv
<1>1. PICK j : j = call[c]
  OBVIOUS
<1>2. PICK copy : copy = j.copy
  OBVIOUS
<1>3. PICK i : i = CHOOSE h \in DOMAIN copy : \A l \in DOMAIN copy : h <= l
  OBVIOUS
<1>4. PICK k : k = IF DOMAIN copy \ {i} = {} THEN IdleCall
                   ELSE [j EXCEPT !.copy = [l \in DOMAIN copy \ {i} |-> copy[l]]]
  OBVIOUS
<1>5. /\ j.pc = "receipts" /\ Go(c, k)
      /\ messages' = [messages EXCEPT ![i].status = Receipts(j.kind, copy[i])]
      /\ UNCHANGED <<conv, alerts, blocked, now, sweep, overlapping, crashes>>
  BY <1>1, <1>2, <1>3, <1>4 DEF updateMessage, CallAt, counters
<1>6. /\ Exists /\ conv \in ConvRecords
      /\ j.kind \in {"READ", "DELIVERED"} /\ DOMAIN copy \subseteq DOMAIN messages /\ DOMAIN copy # {}
      /\ \A l \in DOMAIN copy : copy[l] \in {"SENT", "DELIVERED", "READ"}
  BY <1>1, <1>2, <1>5, ActiveExists DEF CallSound
<1>7. now \in Nat /\ crashes \in Nat /\ messages \in Seq(MessageRecords)
      /\ \A l \in DOMAIN messages : messages[l].at <= now
  BY DEF ConvInv, ConvBase
<1>8. i \in DOMAIN copy
  <2>1. DOMAIN copy \in SUBSET (1..Len(messages)) /\ Len(messages) \in Nat
    BY <1>6, <1>7
  <2> QED BY <1>3, <1>6, <2>1, LeastOf
<1>9. PICK status : status = Receipts(j.kind, copy[i])
  OBVIOUS
<1>10. /\ status \in {"SENT", "DELIVERED", "READ"} /\ Rank(copy[i]) <= Rank(status)
  BY <1>6, <1>8, <1>9 DEF Receipts, markMessageRead, markMessageDelivered, Rank
<1>11. messages[i] \in MessageRecords
  BY <1>6, <1>7, <1>8
<1>12. PICK m : m = [messages[i] EXCEPT !.status = status]
  OBVIOUS
<1>13. /\ m \in MessageRecords /\ m.from = messages[i].from /\ m.at = messages[i].at /\ m.status = status
  BY <1>10, <1>11, <1>12 DEF MessageRecords
<1>14. messages' = [messages EXCEPT ![i] = m]
  BY <1>5, <1>9, <1>12
<1>15. /\ messages' \in Seq(MessageRecords) /\ DOMAIN messages' = DOMAIN messages
       /\ messages'[i] = m /\ \A l \in DOMAIN messages : l # i => messages'[l] = messages[l]
  BY <1>6, <1>7, <1>8, <1>13, <1>14
<1>16. \A l \in DOMAIN messages : messages'[l].at = messages[l].at /\ messages'[l].from = messages[l].from
  BY <1>13, <1>15
<1>17. \A side : SentAt(side)' = SentAt(side)
  BY <1>15, <1>16 DEF SentAt
<1>18. j = [pc |-> "receipts", kind |-> j.kind, copy |-> copy]
  BY <1>1, <1>2, <1>5, ActiveExists DEF CallSound
<1>19. CallSound(k)' /\ (overlapping = 0 => CallFresh(k)') /\ k.pc \notin {"message", "save"}
  <2>1. CASE DOMAIN copy \ {i} = {}
    <3>1. k = IdleCall
      BY <1>4, <2>1
    <3> QED BY <3>1, IdleIs
  <2>2. CASE DOMAIN copy \ {i} # {}
    <3>1. PICK left : left = [l \in DOMAIN copy \ {i} |-> copy[l]]
      OBVIOUS
    <3>2. k = [pc |-> "receipts", kind |-> j.kind, copy |-> left]
      BY <1>4, <1>18, <2>2, <3>1
    <3>3. k.pc = "receipts" /\ k.kind = j.kind /\ k.copy = left
      BY <3>2
    <3>4. DOMAIN left = DOMAIN copy \ {i} /\ \A l \in DOMAIN left : left[l] = copy[l]
      BY <3>1
    <3>5. CallSound(k)'
      BY <1>6, <1>15, <2>2, <3>2, <3>3, <3>4 DEF CallSound
    <3>6. ASSUME overlapping = 0 PROVE CallFresh(k)'
      <4>1. \A l \in DOMAIN copy : copy[l] = messages[l].status
        BY <1>1, <1>2, <1>5, <3>6 DEF ConvInv, ConvAlone, CallFresh
      <4> QED BY <1>6, <1>15, <3>3, <3>4, <4>1 DEF CallFresh
    <3> QED BY <3>3, <3>5, <3>6
  <2> QED BY <2>1, <2>2
<1>20. overlapping = 0 /\ crashes' = 0 => ClockNow(conv)'
  <2>1. SUFFICES ASSUME overlapping = 0, crashes' = 0 PROVE ClockNow(conv)'
    OBVIOUS
  <2>2. ~Writing
    BY <1>1, <1>5, <2>1, LoneCall DEF Writing
  <2>3. ClockNow(conv)
    BY <1>5, <1>6, <2>1, <2>2 DEF ConvInv, ConvAlone
  <2>4. SentAt("requester")' = SentAt("requester") /\ SentAt("tenant")' = SentAt("tenant")
    BY <1>17
  <2> QED BY <1>5, <2>3, <2>4 DEF ClockNow, ClockOf
<1>21. \A l \in DOMAIN messages' : messages'[l].at <= now
  BY <1>7, <1>15, <1>16
<1>22. ConvInv'
  BY <1>1, <1>5, <1>6, <1>7, <1>15, <1>19, <1>20, <1>21, GoesOn
<1>23. ASSUME overlapping' = 0, NEW l \in DOMAIN messages
       PROVE  Rank(messages[l].status) <= Rank(messages'[l].status)
  <2>1. CASE l = i
    <3>1. copy[i] = messages[i].status
      BY <1>1, <1>2, <1>5, <1>8, <1>23 DEF ConvInv, ConvAlone, CallFresh
    <3> QED BY <1>10, <1>13, <1>15, <2>1, <3>1
  <2>2. CASE l # i
    <3>1. messages[l] \in MessageRecords /\ messages'[l] = messages[l]
      BY <1>7, <1>15, <2>2
    <3> QED BY <3>1 DEF Rank, MessageRecords
  <2> QED BY <2>1, <2>2
<1> QED BY <1>5, <1>22, <1>23
-----------------------------------------------------------------------------
(* The sweep begins or goes on: nothing but it and the alerts change.        *)
LEMMA SweepGoesOn ==
    ASSUME ConvInv, NEW s \in Sweeps, NEW k, SetSweep(s, k), Exists,
           UNCHANGED <<conv, messages, blocked, now, call, crashes>>,
           overlapping' \in Nat, SweepSound(k)', alerts' \in Seq(AlertRecords),
           overlapping' = 0 =>
              /\ overlapping = 0
              /\ \A t \in Sweeps \ {s} : sweep[t].pc = "idle"
              /\ \A c \in Calls : call[c].pc = "idle"
              /\ SweepFresh(k)'
              /\ \A i, j \in DOMAIN alerts' : i # j => alerts'[i] # alerts'[j]
    PROVE  ConvInv'
<1>1. DOMAIN sweep' = Sweeps /\ sweep'[s] = k /\ \A t \in Sweeps \ {s} : sweep'[t] = sweep[t]
  BY SweepGoes
<1>2. \A c \in Calls : CallSound(call[c])'
  BY DEF ConvInv, ConvBase, CallSound
<1>3. \A t \in Sweeps : SweepSound(sweep[t])'
  BY <1>1 DEF ConvInv, ConvBase, SweepSound
<1>4. ConvBase'
  BY <1>1, <1>2, <1>3 DEF ConvInv, ConvBase, Exists
<1>5. ASSUME overlapping' = 0 PROVE ConvAlone'
  <2>1. OneAtATime' /\ \A c \in Calls : CallFresh(call[c])'
    BY <1>1, <1>5 DEF OneAtATime, CallFresh
  <2>2. \A t \in Sweeps : SweepFresh(sweep[t])'
    BY <1>1, <1>5 DEF SweepFresh
  <2>3. Exists' /\ ~Writing' /\ crashes' = 0 => ClockNow(conv)'
    <3>1. SUFFICES ASSUME crashes = 0 PROVE ClockNow(conv)'
      OBVIOUS
    <3>2. ~Writing
      BY <1>5 DEF Writing
    <3>3. ClockNow(conv)
      BY <1>5, <3>1, <3>2 DEF ConvInv, ConvAlone
    <3>4. SentAt("requester")' = SentAt("requester") /\ SentAt("tenant")' = SentAt("tenant")
      BY DEF SentAt
    <3> QED BY <3>3, <3>4 DEF ClockNow, ClockOf
  <2> QED BY <1>5, <2>1, <2>2, <2>3 DEF ConvAlone
<1> QED BY <1>4, <1>5 DEF ConvInv, ConvAlone

(* The alerts of calls that come one at a time, before the step. *)
LEMMA AlertsBefore ==
    ASSUME ConvInv, overlapping = 0
    PROVE  \A i, j \in DOMAIN alerts : i # j => alerts[i] # alerts[j]
  BY DEF ConvInv, ConvAlone

LEMMA Sweeping ==
    ASSUME ConvInv, NEW s \in Sweeps, runSlaChecks(s) \/ runSlaChecksDated(s)
    PROVE  ConvInv'
<1>0. PICK at \in Int : runSlaChecksAt(s, at)
  <2>1. now \in Int
    BY DEF ConvInv, ConvBase
  <2>2. CASE runSlaChecks(s)
    BY <2>1, <2>2 DEF runSlaChecks
  <2>3. CASE runSlaChecksDated(s)
    <3>1. PICK off \in SlaOffsets : runSlaChecksAt(s, now + off)
      BY <2>3 DEF runSlaChecksDated
    <3>2. now + off \in Int
      BY <2>1, SlaAssumption
    <3> QED BY <3>1, <3>2
  <2> QED BY <2>2, <2>3
<1>1. PICK alert : alert = [type |-> Decision(conv, at), due |-> dueAt(conv)]
  OBVIOUS
<1>2. PICK k : k = [pc |-> "check", checkedAt |-> at, alert |-> alert]
  OBVIOUS
<1>3. /\ Exists /\ Decision(conv, at) # "none" /\ Start /\ SetSweep(s, k)
      /\ UNCHANGED <<conv, messages, alerts, blocked, now, call>>
  BY <1>0, <1>1, <1>2 DEF runSlaChecksAt
<1>4. conv \in ConvRecords /\ now \in Nat /\ alerts \in Seq(AlertRecords)
  BY <1>3, ExistsIs DEF ConvInv, ConvBase
<1>5. conv.inbound \in Nat /\ dueAt(conv) \in Nat
  BY <1>4, SlaAssumption DEF dueAt, ConvRecords
<1>6. /\ Decision(conv, at) \in {"SLA_BREACHED", "SLA_DUE_SOON"}
      /\ Decision(conv, at) = "SLA_BREACHED" => at > dueAt(conv)
  BY <1>3, <1>4, <1>5, SlaAssumption DEF Decision
<1>7. /\ alert \in AlertRecords /\ alert.type = "SLA_BREACHED" => at > alert.due
  BY <1>1, <1>5, <1>6 DEF AlertRecords
<1>8. k.pc = "check" /\ k.alert = alert /\ k.checkedAt = at /\ alert \in AlertRecords
  BY <1>1, <1>2, <1>5, <1>6 DEF AlertRecords
<1>9. SweepSound(k)' /\ SweepFresh(k)'
  BY <1>3, <1>7, <1>8 DEF SweepSound, SweepFresh
<1>10. overlapping' = 0 => overlapping = 0 /\ AllIdle
  BY <1>3, StartAlone
<1> QED BY <1>3, <1>4, <1>9, <1>10, StartAlone, AlertsBefore, SweepGoesOn DEF AllIdle

LEMMA Checks ==
    ASSUME ConvInv, NEW s \in Sweeps, Check(s)
    PROVE  ConvInv'
<1>1. PICK j : j = sweep[s]
  OBVIOUS
<1>2. PICK k : k = IF hasSlaAlert(j.alert.type, j.alert.due) THEN IdleCall
                   ELSE [pc |-> "alert", checkedAt |-> j.checkedAt, alert |-> j.alert]
  OBVIOUS
<1>3. /\ j.pc = "check" /\ SetSweep(s, k)
      /\ UNCHANGED <<conv, messages, alerts, blocked, now, call, overlapping, crashes>>
  BY <1>1, <1>2 DEF Check, SweepAt, counters
<1>4. SweepSound(j) /\ Exists /\ alerts \in Seq(AlertRecords) /\ overlapping \in Nat
  BY <1>1, <1>3 DEF ConvInv, ConvBase, AllIdle
<1>5. SweepSound(k)' /\ SweepFresh(k)'
  <2>1. CASE hasSlaAlert(j.alert.type, j.alert.due)
    BY <1>2, <2>1, IdleIs
  <2>2. CASE ~hasSlaAlert(j.alert.type, j.alert.due)
    <3>1. k.pc = "alert" /\ k.alert = j.alert /\ k.checkedAt = j.checkedAt
      BY <1>2, <2>2
    <3> QED BY <1>3, <1>4, <2>2, <3>1 DEF SweepSound, SweepFresh, hasSlaAlert
  <2> QED BY <2>1, <2>2
<1>6. overlapping = 0 => /\ \A t \in Sweeps \ {s} : sweep[t].pc = "idle"
                         /\ \A c \in Calls : call[c].pc = "idle"
  BY <1>1, <1>3, LoneSweep
<1> QED BY <1>3, <1>4, <1>5, <1>6, AlertsBefore, SweepGoesOn

LEMMA Warns ==
    ASSUME ConvInv, NEW s \in Sweeps, createNotification(s)
    PROVE  ConvInv'
<1>1. PICK j : j = sweep[s]
  OBVIOUS
<1>2. PICK k : k = IdleCall
  OBVIOUS
<1>3. PICK alert : alert = j.alert
  OBVIOUS
<1>4. /\ j.pc = "alert" /\ SetSweep(s, k) /\ alerts' = Append(alerts, alert)
      /\ UNCHANGED <<conv, messages, blocked, now, call, overlapping, crashes>>
  BY <1>1, <1>2, <1>3 DEF createNotification, SweepAt, counters
<1>5. /\ alert \in AlertRecords /\ Exists /\ alerts \in Seq(AlertRecords) /\ overlapping \in Nat
  <2>1. SweepSound(j) /\ Exists /\ alerts \in Seq(AlertRecords) /\ overlapping \in Nat
    BY <1>1, <1>4 DEF ConvInv, ConvBase, AllIdle
  <2> QED BY <1>3, <1>4, <2>1 DEF SweepSound
<1>6. SweepSound(k)' /\ SweepFresh(k)'
  BY <1>2, IdleIs
<1>7. /\ alerts' \in Seq(AlertRecords) /\ DOMAIN alerts' = DOMAIN alerts \cup {Len(alerts) + 1}
      /\ Len(alerts) + 1 \notin DOMAIN alerts
      /\ alerts'[Len(alerts) + 1] = alert /\ \A i \in DOMAIN alerts : alerts'[i] = alerts[i]
  BY <1>4, <1>5
<1>8. ASSUME overlapping = 0
      PROVE  \A i, l \in DOMAIN alerts' : i # l => alerts'[i] # alerts'[l]
  <2>1. \A i \in DOMAIN alerts : alerts[i] # alert
    BY <1>1, <1>3, <1>4, <1>8 DEF ConvInv, ConvAlone, SweepFresh, hasSlaAlert
  <2> QED BY <1>5, <1>7, <1>8, <2>1, AlertsBefore
<1>9. overlapping = 0 => /\ \A t \in Sweeps \ {s} : sweep[t].pc = "idle"
                         /\ \A c \in Calls : call[c].pc = "idle"
  BY <1>1, <1>4, LoneSweep
<1> QED BY <1>4, <1>5, <1>6, <1>7, <1>8, <1>9, SweepGoesOn

LEMMA SomeDie ==
    ASSUME ConvInv, Die
    PROVE  ConvInv'
<1>1. crashes' = crashes + 1 /\ UNCHANGED <<conv, messages, alerts, blocked, now, overlapping>>
  BY DEF Die
<1>2. PICK k : k = IdleCall
  OBVIOUS
<1>3. CallSound(k)' /\ CallFresh(k)' /\ SweepSound(k)' /\ SweepFresh(k)' /\ k.pc = "idle"
  BY <1>2, IdleIs
<1>4. ASSUME NEW c \in Calls, call[c].pc # "idle", Go(c, k), UNCHANGED sweep
      PROVE  ConvInv'
  <2>1. DOMAIN call' = Calls /\ call'[c] = k /\ \A d \in Calls \ {c} : call'[d] = call[d]
    BY <1>4, CallGoes
  <2>2. crashes' \in Nat /\ crashes <= crashes' /\ crashes' # 0 /\ messages \in Seq(MessageRecords)
        /\ \A i \in DOMAIN messages : messages[i].at <= now
    BY <1>1 DEF ConvInv, ConvBase
  <2>3. Exists /\ conv \in ConvRecords
    BY <1>4, ActiveExists
  <2> QED BY <1>1, <1>3, <1>4, <2>2, <2>3, GoesOn
<1>5. ASSUME NEW s \in Sweeps, sweep[s].pc # "idle", SetSweep(s, k), UNCHANGED call
      PROVE  ConvInv'
  <2>1. DOMAIN sweep' = Sweeps /\ sweep'[s] = k /\ \A t \in Sweeps \ {s} : sweep'[t] = sweep[t]
    BY <1>5, SweepGoes
  <2>2. crashes' \in Nat /\ crashes' # 0 /\ Exists /\ overlapping \in Nat
    BY <1>1, <1>5 DEF ConvInv, ConvBase, AllIdle
  <2>3. ConvBase'
    <3>1. \A c \in Calls : CallSound(call[c])'
      BY <1>1, <1>5 DEF ConvInv, ConvBase, CallSound
    <3>2. \A t \in Sweeps : SweepSound(sweep[t])'
      BY <1>1, <1>3, <2>1 DEF ConvInv, ConvBase, SweepSound
    <3> QED BY <1>1, <1>5, <2>1, <2>2, <3>1, <3>2 DEF ConvInv, ConvBase, Exists
  <2>4. ASSUME overlapping' = 0 PROVE ConvAlone'
    <3>1. \A t \in Sweeps \ {s} : sweep[t].pc = "idle"
      BY <1>1, <1>5, <2>4, LoneSweep
    <3>2. \A c \in Calls : call[c].pc = "idle"
      BY <1>1, <1>5, <2>4, LoneSweep
    <3>3. OneAtATime' /\ \A c \in Calls : CallFresh(call[c])'
      BY <1>5, <2>1, <3>1, <3>2 DEF OneAtATime, CallFresh
    <3>4. \A t \in Sweeps : SweepFresh(sweep[t])'
      BY <1>3, <2>1, <3>1 DEF SweepFresh
    <3> QED BY <1>1, <2>2, <2>4, <3>3, <3>4 DEF ConvInv, ConvAlone
  <2> QED BY <2>3, <2>4 DEF ConvInv, ConvAlone
<1> QED BY <1>2, <1>4, <1>5 DEF Die, CallAt, SweepAt
-----------------------------------------------------------------------------
LEMMA ConvInvInit ==
    ASSUME ConversationInit
    PROVE  ConvInv
<1>1. ConvBase
  <2>1. CallSound(IdleCall) /\ SweepSound(IdleCall) /\ IdleCall.pc = "idle"
    BY DEF CallSound, SweepSound, IdleCall
  <2>2. /\ \A c \in Calls : call[c] = IdleCall
        /\ \A s \in Sweeps : sweep[s] = IdleCall
        /\ DOMAIN call = Calls /\ DOMAIN sweep = Sweeps
    BY DEF ConversationInit
  <2>3. /\ messages = <<>> /\ alerts = <<>> /\ conv = NoConversation /\ now = 0
        /\ overlapping = 0 /\ crashes = 0 /\ blocked = FALSE
    BY DEF ConversationInit
  <2>4. /\ messages \in Seq(MessageRecords) /\ alerts \in Seq(AlertRecords)
        /\ \A i \in DOMAIN messages : messages[i].at <= now
    BY <2>3
  <2> QED BY <2>1, <2>2, <2>3, <2>4 DEF ConvBase, AllIdle
<1>2. ConvAlone
  BY DEF ConversationInit, ConvAlone, OneAtATime, CallFresh, SweepFresh, IdleCall, Exists, NoConversation
<1> QED BY <1>1, <1>2 DEF ConvInv

LEMMA Rests ==
    ASSUME ConvInv, UNCHANGED conversationVars
    PROVE  ConvInv'
  BY TimePasses DEF conversationVars, ConvInv, ConvBase

LEMMA ConvInvNext ==
    ASSUME ConvInv, [ConversationNext]_conversationVars
    PROVE  ConvInv'
<1>1. CASE Tick \/ createBlock \/ removeBlock
  <2>1. now' \in Nat /\ now <= now' /\ blocked' \in BOOLEAN
    <3>1. now \in Nat /\ blocked \in BOOLEAN
      BY DEF ConvInv, ConvBase
    <3>2. now' = now \/ now' = now + 1
      BY <1>1 DEF Tick, createBlock, removeBlock
    <3>3. blocked' = blocked \/ blocked' = TRUE \/ blocked' = FALSE
      BY <1>1 DEF Tick, createBlock, removeBlock
    <3>4. blocked' \in BOOLEAN
      BY <3>1, <3>3
    <3> QED BY <3>1, <3>2, <3>4
  <2> QED BY <1>1, <2>1, TimePasses DEF Tick, createBlock, removeBlock, counters
<1>2. ASSUME NEW c \in Calls, BeginCall(c) PROVE ConvInv'
  BY <1>2, Creates, Sends, Changes, MarksAll DEF BeginCall
<1>3. ASSUME NEW c \in Calls, EndCall(c) PROVE ConvInv'
  BY <1>3, Stores, Updates, Receives DEF EndCall
<1>4. ASSUME NEW s \in Sweeps, Sweep(s) \/ runSlaChecksDated(s) PROVE ConvInv'
  BY <1>4, Sweeping, Checks, Warns DEF Sweep
<1> QED BY <1>1, <1>2, <1>3, <1>4, SomeDie, Rests DEF ConversationNext

THEOREM ConversationInvariant == ConversationSpec => []ConvInv
<1> QED BY ConvInvInit, ConvInvNext, PTL DEF ConversationSpec

LEMMA InvAgrees ==
    ASSUME ConvInv
    PROVE  ConversationAgrees
<1>1. ASSUME AllIdle, overlapping = 0, crashes = 0, Exists
      PROVE  ClockOf(conv, SentAt("requester"), SentAt("tenant"))
  BY <1>1 DEF ConvInv, ConvAlone, Writing, AllIdle, ClockNow
<1>2. ClockFollowsMessages
  BY <1>1 DEF ClockFollowsMessages, ClockOf
<1>3. WarnedOnce
  BY AlertsBefore DEF WarnedOnce
<1> QED BY <1>2, <1>3 DEF ConversationAgrees

(* While nothing overlaps, statuses only rise, and only a change of the status *)
(* opens what was closed.                                                      *)
LEMMA StepUndoesNothing ==
    ASSUME ConvInv, [ConversationNext]_conversationVars, overlapping' = 0
    PROVE  /\ \A i \in DOMAIN messages : Rank(messages[i].status) <= Rank(messages'[i].status)
           /\ conv.status \in Closed /\ conv'.status \notin Closed =>
                 \E c \in Calls : updateConversation(c) /\ "status" \in DOMAIN call[c]
<1>1. \A i \in DOMAIN messages : messages[i] \in MessageRecords
  BY DEF ConvInv, ConvBase
<1>2. \A i \in DOMAIN messages : Rank(messages[i].status) \in Nat
  BY <1>1 DEF MessageRecords, Rank
<1>3. ASSUME messages' = messages
      PROVE  \A i \in DOMAIN messages : Rank(messages[i].status) <= Rank(messages'[i].status)
  BY <1>2, <1>3
<1>4. CASE \E c \in Calls : createMessage(c)
  <2>1. PICK c \in Calls : createMessage(c)
    BY <1>4
  <2>2. conv' = conv
    BY <2>1 DEF createMessage
  <2>3. messages \in Seq(MessageRecords)
    BY DEF ConvInv, ConvBase
  <2>4. \A i \in DOMAIN messages : messages'[i] = messages[i]
    BY <2>1, <2>3 DEF createMessage
  <2> QED BY <1>2, <2>2, <2>4
<1>5. CASE \E c \in Calls : updateMessage(c)
  BY <1>5, Receives
<1>6. CASE \E c \in Calls : updateConversation(c)
  BY <1>3, <1>6, Updates
<1>7. CASE \E c \in Calls : createConversation(c)
  <2>1. conv.status \notin Closed /\ messages' = messages
    BY <1>7 DEF createConversation, Exists, Closed
  <2> QED BY <1>3, <2>1
<1>8. CASE /\ ~\E c \in Calls : createMessage(c) \/ updateMessage(c) \/ updateConversation(c) \/ createConversation(c)
  <2>1. UNCHANGED <<conv, messages>>
    BY <1>8 DEF ConversationNext, conversationVars, Tick, createBlock, removeBlock, Die, BeginCall, EndCall,
           sendMessage, Change, markThreadDelivered, markThreadRead, markDelivered, markRead, Mark,
           Sweep, runSlaChecks, runSlaChecksDated, runSlaChecksAt, Check, createNotification
  <2> QED BY <1>3, <2>1
<1> QED BY <1>4, <1>5, <1>6, <1>7, <1>8

(* A sweep that warns of a breach was given a date after the answer was due.   *)
LEMMA NoneFalse ==
    ASSUME ConvInv, NEW s \in Sweeps, createNotification(s), sweep[s].alert.type = "SLA_BREACHED"
    PROVE  now > sweep[s].alert.due \/ sweep[s].checkedAt > now
<1>1. PICK k : k = sweep[s]
  OBVIOUS
<1>2. SweepSound(k) /\ k.pc = "alert" /\ now \in Nat
  BY <1>1 DEF ConvInv, ConvBase, createNotification, SweepAt
<1>3. k.checkedAt \in Int /\ k.alert.due \in Nat /\ k.checkedAt > k.alert.due
  BY <1>1, <1>2 DEF SweepSound, AlertRecords
<1> QED BY <1>1, <1>2, <1>3

(* Between operations that come one at a time the clock of the SLA follows the *)
(* messages and nobody is warned twice, even if some operations die and        *)
(* whatever dates the checks are given; only checks dated ahead warn of a      *)
(* breach before it comes, however operations overlap; and operations that     *)
(* come one at a time undo no receipt and no closing.                          *)
THEOREM ConversationSound == ConversationSpec => ConversationHolds
<1>1. ConvInv => ConversationAgrees
  BY InvAgrees
<1> DEFINE Kept == overlapping' = 0 =>
          /\ \A i \in DOMAIN messages : Rank(messages[i].status) <= Rank(messages'[i].status)
          /\ conv.status \in Closed /\ conv'.status \notin Closed =>
                \E c \in Calls : updateConversation(c) /\ "status" \in DOMAIN call[c]
<1>2. ConvInv /\ [ConversationNext]_conversationVars => [Kept]_conversationVars
  BY StepUndoesNothing
<1>3. ConversationSpec => []ConversationAgrees
  BY <1>1, ConversationInvariant, PTL
<1>4. ConversationSpec => [][Kept]_conversationVars
  BY <1>2, ConversationInvariant, PTL DEF ConversationSpec
<1>5. ConversationSpec => NothingUndone
  BY <1>4 DEF NothingUndone
<1>6. ConvInv /\ [ConversationNext]_conversationVars =>
        [\A s \in Sweeps :
            createNotification(s) /\ sweep[s].alert.type = "SLA_BREACHED" =>
                now > sweep[s].alert.due \/ sweep[s].checkedAt > now]_conversationVars
  BY NoneFalse
<1>7. ConversationSpec => NoFalseAlarm
  BY <1>6, ConversationInvariant, PTL DEF ConversationSpec, NoFalseAlarm
<1> QED BY <1>3, <1>5, <1>7 DEF ConversationHolds
=============================================================================
