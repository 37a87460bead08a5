------------------------ MODULE AccountDeletion_proofs ------------------------
(***************************************************************************)
(* Theorems about the deletion of accounts, for any number of accounts,    *)
(* tenants, calls and sweeps, whatever throws or dies.                     *)
(***************************************************************************)
EXTENDS AccountDeletion, WellFoundedInduction, TLAPS

(* Rows, calls and sweeps. *)
Statuses == {"REQUESTED", "PROCESSING", "CANCELLED", "COMPLETED"}
DeletionRow == [account : Accounts, status : Statuses, due : Nat]
Whole == Kinds \cup {"sessions"}
CallState == [pc : {"idle"}, account : {None}, id : {None}]
             \cup [pc : {"save"}, account : Accounts, id : {None}]
             \cup [pc : {"cancel"}, account : Accounts, id : Nat]
Working == Kinds \cup {"revoke", "finish"}
SweepState == [pc : {"idle", "next"} \cup Working, todo : SUBSET Nat, id : Nat]

DeletionTyped ==
    /\ reqs \in Seq(DeletionRow) /\ erased \in Seq(SUBSET Whole) /\ Len(erased) = Len(reqs)
    /\ holdings \in [Tenants -> SUBSET Kinds] /\ session \in [Accounts -> BOOLEAN]
    /\ today \in Nat /\ asked \in [Accounts -> Int]
    /\ call \in [Calls -> CallState] /\ sweep \in [Sweeps -> SweepState]
    /\ overlaps \in Nat /\ faults \in Nat
    /\ \A c \in Calls : call[c].pc = "cancel" => call[c].id \in DOMAIN reqs
    /\ \A s \in Sweeps :
          /\ sweep[s].todo \subseteq DOMAIN reqs
          /\ sweep[s].pc \in Working => sweep[s].id \in DOMAIN reqs

(* What a sweep has erased for its row at each step. *)
Before(pc) ==
    CASE pc = "adverts" -> {"profiles"}
      [] pc = "conversations" -> {"profiles", "adverts"}
      [] pc = "revoke" -> Kinds
      [] pc = "finish" -> Whole
      [] OTHER -> {}

(* Under any interleaving: what a sweep has done stays done, and a row that *)
(* says COMPLETED is whole.                                                *)
ErasedSoFar ==
    /\ \A i \in DOMAIN reqs : reqs[i].status = "COMPLETED" => erased[i] = Whole
    /\ \A s \in Sweeps : sweep[s].pc \in Working => Before(sweep[s].pc) \subseteq erased[sweep[s].id]

(* One operation at most is in progress. *)
Single ==
    /\ \A c, d \in Calls : call[c].pc # "idle" /\ call[d].pc # "idle" => c = d
    /\ \A r, s \in Sweeps : sweep[r].pc # "idle" /\ sweep[s].pc # "idle" => r = s
    /\ \A c \in Calls, s \in Sweeps : call[c].pc = "idle" \/ sweep[s].pc = "idle"

(* The deletion that stands is its account's last row, asked for when the  *)
(* row says.                                                               *)
RowStands(i) ==
    LET r == reqs[i] IN
    /\ r.status \in {"REQUESTED", "CANCELLED"} => erased[i] = {}
    /\ Pending(r) =>
          /\ asked[r.account] # NotAsked /\ r.due = asked[r.account] + GraceDays
          /\ \A j \in DOMAIN reqs : j > i => reqs[j].account # r.account

(* What the operation in progress has seen still holds. *)
CallSees(c) ==
    /\ call[c].pc = "save" =>
          \A i \in DOMAIN reqs : reqs[i].account = call[c].account => ~Pending(reqs[i])
    /\ call[c].pc = "cancel" =>
          reqs[call[c].id].status = "REQUESTED" /\ reqs[call[c].id].account = call[c].account

SweepSees(s) ==
    /\ sweep[s].pc # "idle" => \A i \in sweep[s].todo : isDeletionDue(reqs[i], today)
    /\ sweep[s].pc \in Working =>
          /\ sweep[s].id \notin sweep[s].todo
          /\ reqs[sweep[s].id].status = "PROCESSING" /\ reqs[sweep[s].id].due <= today

Alone ==
    overlaps = 0 =>
        /\ Single
        /\ \A i \in DOMAIN reqs : RowStands(i)
        /\ \A c \in Calls : CallSees(c)
        /\ \A s \in Sweeps : SweepSees(s)

Inv == DeletionTyped /\ ErasedSoFar /\ Alone
-----------------------------------------------------------------------------
(* A set of rows has an oldest one. *)
LEMMA OldestIs ==
    ASSUME NEW S \in SUBSET Nat, S # {}
    PROVE  Oldest(S) \in S
<1>1. PICK i \in S : \A j \in S : <<j, i>> \notin OpToRel(<, Nat)
  BY WFMin, NatLessThanWellFounded
<1>2. \A j \in S : ~(j < i)
  BY <1>1 DEF OpToRel
<1>3. \A j \in S : i <= j
  BY <1>2
<1> QED BY <1>3 DEF Oldest

LEMMA LatestIs ==
    ASSUME DeletionTyped, NEW a \in Accounts
    PROVE  /\ findDeletion(a) \in Rows(a) \cup {None}
           /\ findDeletion(a) = None <=> Rows(a) = {}
           /\ Rows(a) # {} => \A j \in Rows(a) : j <= findDeletion(a)
<1>1. CASE Rows(a) = {}
  BY <1>1 DEF findDeletion
<1>2. CASE Rows(a) # {}
  <2> DEFINE S == {Len(reqs) - i : i \in Rows(a)}
  <2>0. reqs \in Seq(DeletionRow) /\ Rows(a) \subseteq 1..Len(reqs)
    BY DEF DeletionTyped, Rows
  <2>1. S \subseteq Nat /\ S # {}
    BY <1>2, <2>0
  <2>2. PICK n \in S : \A m \in S : <<m, n>> \notin OpToRel(<, Nat)
    <3> HIDE DEF S
    <3> QED BY <2>1, WFMin, NatLessThanWellFounded
  <2>a. \A m \in S : ~(m < n)
    BY <2>1, <2>2 DEF OpToRel
  <2>3. \A m \in S : n <= m
    <3> HIDE DEF S
    <3> QED BY <2>1, <2>a
  <2>4. PICK i \in Rows(a) : n = Len(reqs) - i
    BY <2>2
  <2>5. ASSUME NEW j \in Rows(a) PROVE j <= i
    <3>1. Len(reqs) - i <= Len(reqs) - j
      BY <2>3, <2>4
    <3> QED BY <2>0, <3>1
  <2>6. findDeletion(a) = CHOOSE k \in Rows(a) : \A j \in Rows(a) : j <= k
    BY <1>2 DEF findDeletion
  <2>7. findDeletion(a) \in Rows(a) /\ \A j \in Rows(a) : j <= findDeletion(a)
    BY <2>5, <2>6
  <2> QED BY <1>2, <2>0, <2>7 DEF None
<1> QED BY <1>1, <1>2

LEMMA ListedIs ==
    ASSUME DeletionTyped
    PROVE  /\ listDueDeletions(today) \subseteq DOMAIN reqs /\ DOMAIN reqs \subseteq Nat
           /\ \A i \in listDueDeletions(today) : isDeletionDue(reqs[i], today)
  BY DEF listDueDeletions, DeletionTyped

(* A row whose status is written. *)
LEMMA StatusWritten ==
    ASSUME DeletionTyped, NEW i \in DOMAIN reqs, NEW st \in Statuses,
           reqs' = [reqs EXCEPT ![i].status = st]
    PROVE  /\ reqs' \in Seq(DeletionRow) /\ Len(reqs') = Len(reqs) /\ DOMAIN reqs' = DOMAIN reqs
           /\ reqs'[i].status = st
           /\ \A j \in DOMAIN reqs : /\ reqs'[j].account = reqs[j].account
                                     /\ reqs'[j].due = reqs[j].due
                                     /\ j # i => reqs'[j] = reqs[j]
<1> DEFINE row == [reqs[i] EXCEPT !.status = st]
<1>1. reqs \in Seq(DeletionRow) /\ reqs[i] \in DeletionRow
  BY DEF DeletionTyped
<1>2. /\ row \in DeletionRow /\ row.status = st
      /\ row.account = reqs[i].account /\ row.due = reqs[i].due
  BY <1>1 DEF DeletionRow
<1>3. reqs' = [reqs EXCEPT ![i] = row]
  OBVIOUS
<1> HIDE DEF row
<1> QED BY <1>1, <1>2, <1>3

LEMMA RowAdded ==
    ASSUME DeletionTyped, NEW r \in DeletionRow,
           reqs' = Append(reqs, r), erased' = Append(erased, {})
    PROVE  /\ reqs' \in Seq(DeletionRow) /\ erased' \in Seq(SUBSET Whole) /\ Len(erased') = Len(reqs')
           /\ DOMAIN reqs' = DOMAIN reqs \cup {Len(reqs) + 1} /\ DOMAIN reqs = 1..Len(reqs)
           /\ DOMAIN erased = DOMAIN reqs /\ Len(reqs) \in Nat
           /\ reqs'[Len(reqs) + 1] = r /\ erased'[Len(reqs) + 1] = {}
           /\ \A j \in DOMAIN reqs : reqs'[j] = reqs[j] /\ erased'[j] = erased[j]
  BY DEF DeletionTyped

LEMMA MoreErased ==
    ASSUME DeletionTyped, NEW i \in DOMAIN reqs, NEW k \in Whole,
           erased' = [erased EXCEPT ![i] = @ \cup {k}]
    PROVE  /\ erased' \in Seq(SUBSET Whole) /\ Len(erased') = Len(reqs)
           /\ erased'[i] = erased[i] \cup {k}
           /\ \A j \in DOMAIN reqs : erased[j] \subseteq erased'[j] /\ (j # i => erased'[j] = erased[j])
           /\ \A j \in DOMAIN reqs : erased[j] = Whole => erased'[j] = Whole
  BY DEF DeletionTyped
-----------------------------------------------------------------------------
LEMMA OnlySweep ==
    ASSUME Inv, overlaps = 0, NEW s \in Sweeps, sweep[s].pc # "idle"
    PROVE  (\A c \in Calls : call[c].pc = "idle") /\ (\A r \in Sweeps \ {s} : sweep[r].pc = "idle")
  BY DEF Inv, Alone, Single

LEMMA OnlyCall ==
    ASSUME Inv, overlaps = 0, NEW c \in Calls, call[c].pc # "idle"
    PROVE  (\A s \in Sweeps : sweep[s].pc = "idle") /\ (\A d \in Calls \ {c} : call[d].pc = "idle")
  BY DEF Inv, Alone, Single

(* A step of the one sweep in progress. *)
LEMMA SweepAlone ==
    ASSUME NEW s \in Sweeps, UNCHANGED call,
           \A c \in Calls : call[c].pc = "idle",
           \A r \in Sweeps \ {s} : sweep[r].pc = "idle" /\ sweep'[r] = sweep[r],
           \A i \in DOMAIN reqs' : RowStands(i)', SweepSees(s)'
    PROVE  Alone'
<1>1. \A r \in Sweeps \ {s} : SweepSees(r)'
  BY DEF SweepSees, Working, Kinds
<1>2. \A c \in Calls : CallSees(c)'
  BY DEF CallSees
<1>3. Single'
  BY DEF Single
<1> QED BY <1>1, <1>2, <1>3 DEF Alone

(* A step of the one call in progress. *)
LEMMA CallAlone ==
    ASSUME NEW c \in Calls, UNCHANGED sweep,
           \A s \in Sweeps : sweep[s].pc = "idle",
           \A d \in Calls \ {c} : call[d].pc = "idle" /\ call'[d] = call[d],
           \A i \in DOMAIN reqs' : RowStands(i)', CallSees(c)'
    PROVE  Alone'
<1>1. \A s \in Sweeps : SweepSees(s)'
  BY DEF SweepSees, Working, Kinds
<1>2. \A d \in Calls \ {c} : CallSees(d)'
  BY DEF CallSees
<1>3. Single'
  BY DEF Single
<1> QED BY <1>1, <1>2, <1>3 DEF Alone

LEMMA BeginAlone ==
    ASSUME Inv, Begin
    PROVE  overlaps' \in Nat /\ faults' \in Nat /\ (overlaps' = 0 => overlaps = 0 /\ Quiet)
  BY DEF Inv, DeletionTyped, Begin

LEMMA CallBegins ==
    ASSUME Inv, NEW c \in Calls, RequestLoad(c) \/ CancelLoad(c)
    PROVE  Inv'
<1>1. PICK a \in Accounts : \E k :
         /\ call' = [call EXCEPT ![c] = k]
         /\ \/ /\ k = [pc |-> "save", account |-> a, id |-> None]
               /\ findDeletion(a) # None => ~Pending(reqs[findDeletion(a)])
            \/ /\ k = [pc |-> "cancel", account |-> a, id |-> findDeletion(a)]
               /\ findDeletion(a) # None /\ reqs[findDeletion(a)].status = "REQUESTED"
  BY DEF RequestLoad, CancelLoad
<1>k. PICK k :
         /\ call' = [call EXCEPT ![c] = k]
         /\ \/ /\ k = [pc |-> "save", account |-> a, id |-> None]
               /\ findDeletion(a) # None => ~Pending(reqs[findDeletion(a)])
            \/ /\ k = [pc |-> "cancel", account |-> a, id |-> findDeletion(a)]
               /\ findDeletion(a) # None /\ reqs[findDeletion(a)].status = "REQUESTED"
  BY <1>1
<1>2. Begin /\ UNCHANGED <<reqs, world, sweep, asked, erased>>
  BY DEF RequestLoad, CancelLoad
<1>3. findDeletion(a) # None => findDeletion(a) \in DOMAIN reqs /\ findDeletion(a) \in Nat
                               /\ reqs[findDeletion(a)].account = a
  BY LatestIs DEF Inv, Rows, DeletionTyped
<1>4. k \in CallState /\ (k.pc = "cancel" => k.id \in DOMAIN reqs)
  BY <1>k, <1>3 DEF CallState
<1>5. call' \in [Calls -> CallState] /\ call'[c] = k /\ \A d \in Calls \ {c} : call'[d] = call[d]
  BY <1>k, <1>4 DEF Inv, DeletionTyped
<1>6. DeletionTyped'
  BY <1>2, <1>4, <1>5, BeginAlone DEF Inv, DeletionTyped, world
<1>7. ErasedSoFar'
  BY <1>2 DEF Inv, ErasedSoFar
<1>8. ASSUME overlaps' = 0 PROVE Alone'
  <2>1. overlaps = 0 /\ Quiet
    BY <1>2, <1>8, BeginAlone
  <2>2. \A i \in DOMAIN reqs' : RowStands(i)'
    BY <1>2, <2>1 DEF Inv, Alone, RowStands
  <2>3. \A i \in DOMAIN reqs : reqs[i].account = a /\ i # findDeletion(a) => ~Pending(reqs[i])
    <3> SUFFICES ASSUME NEW i \in DOMAIN reqs, reqs[i].account = a, i # findDeletion(a) PROVE ~Pending(reqs[i])
      OBVIOUS
    <3>1. i \in Rows(a) /\ Rows(a) # {}
      BY DEF Rows
    <3>a. i <= findDeletion(a) /\ findDeletion(a) # None
      BY <3>1, LatestIs DEF Inv
    <3>b. \A j \in DOMAIN reqs : j \in Nat
      BY DEF Inv, DeletionTyped
    <3>2. i <= findDeletion(a) /\ findDeletion(a) \in DOMAIN reqs /\ i \in Nat /\ findDeletion(a) \in Nat
      BY <1>3, <3>a, <3>b
    <3>3. findDeletion(a) > i /\ reqs[findDeletion(a)].account = a
      BY <1>3, <3>a, <3>2
    <3> QED BY <2>1, <3>2, <3>3 DEF Inv, Alone, RowStands
  <2>4. k.pc = "save" => \A i \in DOMAIN reqs : reqs[i].account = a => ~Pending(reqs[i])
    <3>1. k.pc = "save" => (findDeletion(a) # None => ~Pending(reqs[findDeletion(a)]))
      BY <1>k
    <3>2. None \notin DOMAIN reqs
      BY DEF Inv, DeletionTyped, None
    <3> QED BY <2>3, <3>1, <3>2
  <2>5. CallSees(c)'
    BY <1>k, <1>2, <1>3, <1>5, <2>4 DEF CallSees
  <2> QED BY <1>2, <1>5, <2>1, <2>2, <2>5, CallAlone DEF Quiet
<1> QED BY <1>6, <1>7, <1>8 DEF Inv, Alone

LEMMA RequestSaves ==
    ASSUME Inv, NEW c \in Calls, RequestSave(c)
    PROVE  Inv'
<1> DEFINE a == call[c].account
           r == [account |-> a, status |-> "REQUESTED", due |-> today + GraceDays]
           n == Len(reqs) + 1
<1>1. /\ call[c].pc = "save" /\ reqs' = Append(reqs, r) /\ erased' = Append(erased, {})
      /\ asked' = [asked EXCEPT ![a] = today] /\ call' = [call EXCEPT ![c] = IdleCall]
      /\ UNCHANGED <<holdings, session, today, sweep, overlaps, faults>>
  BY DEF RequestSave, CallAt, world, counters
<1>2. a \in Accounts /\ today \in Nat /\ GraceDays \in Nat /\ IdleCall \in CallState
  BY <1>1, AccountsAssumption DEF Inv, DeletionTyped, CallState, IdleCall
<1>3. r \in DeletionRow
  BY <1>2 DEF DeletionRow, Statuses
<1>4. /\ call' \in [Calls -> CallState] /\ call'[c] = IdleCall
      /\ \A d \in Calls \ {c} : call'[d] = call[d]
  BY <1>1, <1>2 DEF Inv, DeletionTyped
<1>5. /\ asked' \in [Accounts -> Int] /\ asked'[a] = today
      /\ \A b \in Accounts \ {a} : asked'[b] = asked[b]
  BY <1>1, <1>2 DEF Inv, DeletionTyped
<1>r. r.account = a /\ r.status = "REQUESTED" /\ r.due = today + GraceDays
  OBVIOUS
<1> HIDE DEF r
<1>6. /\ reqs' \in Seq(DeletionRow) /\ erased' \in Seq(SUBSET Whole) /\ Len(erased') = Len(reqs')
      /\ DOMAIN reqs' = DOMAIN reqs \cup {n} /\ DOMAIN reqs = 1..Len(reqs)
      /\ DOMAIN erased = DOMAIN reqs /\ Len(reqs) \in Nat
      /\ reqs'[n] = r /\ erased'[n] = {}
      /\ \A j \in DOMAIN reqs : reqs'[j] = reqs[j] /\ erased'[j] = erased[j]
  BY <1>1, <1>3, RowAdded DEF Inv
<1>7. DeletionTyped'
  BY <1>1, <1>4, <1>5, <1>6 DEF Inv, DeletionTyped, IdleCall
<1>8. ErasedSoFar'
  BY <1>1, <1>6, <1>r DEF Inv, ErasedSoFar, DeletionTyped
<1>9. ASSUME overlaps' = 0 PROVE Alone'
  <2>1. overlaps = 0 /\ (\A s \in Sweeps : sweep[s].pc = "idle") /\ \A d \in Calls \ {c} : call[d].pc = "idle"
    BY <1>1, <1>9, OnlyCall
  <2>2. \A i \in DOMAIN reqs : reqs[i].account = a => ~Pending(reqs[i])
    BY <1>1, <2>1 DEF Inv, Alone, CallSees
  <2>3. ASSUME NEW i \in DOMAIN reqs' PROVE RowStands(i)'
    <3>1. CASE i = n
      <4>1. \A j \in DOMAIN reqs' : ~(j > n)
        BY <1>6
      <4>2. reqs'[i].due = asked'[reqs'[i].account] + GraceDays /\ asked'[reqs'[i].account] # NotAsked
        BY <1>2, <1>5, <1>6, <1>r, <3>1 DEF NotAsked
      <4> QED BY <1>6, <3>1, <4>1, <4>2 DEF RowStands
    <3>2. CASE i \in DOMAIN reqs
      <4>1. RowStands(i) /\ reqs[i].account \in Accounts
        <5>1. reqs[i] \in DeletionRow
          BY <3>2 DEF Inv, DeletionTyped
        <5> QED BY <2>1, <3>2, <5>1 DEF Inv, Alone, DeletionRow
      <4>2. reqs'[i] = reqs[i] /\ erased'[i] = erased[i]
        BY <1>6, <3>2
      <4>3. Pending(reqs[i]) => reqs[i].account # a
        BY <2>2, <3>2
      <4>4. Pending(reqs[i]) => asked'[reqs[i].account] = asked[reqs[i].account]
        BY <1>5, <4>1, <4>3
      <4>5. Pending(reqs[i]) => \A j \in DOMAIN reqs' : j > i => reqs'[j].account # reqs[i].account
        BY <1>6, <1>r, <4>1, <4>3 DEF RowStands
      <4> QED BY <4>1, <4>2, <4>4, <4>5 DEF RowStands
    <3> QED BY <1>6, <3>1, <3>2
  <2>4. CallSees(c)'
    BY <1>4 DEF CallSees, IdleCall
  <2> QED BY <1>1, <1>4, <2>1, <2>3, <2>4, CallAlone
<1> QED BY <1>7, <1>8, <1>9 DEF Inv, Alone

LEMMA CancelSaves ==
    ASSUME Inv, NEW c \in Calls, CancelSave(c)
    PROVE  Inv'
<1> DEFINE a == call[c].account
           n == call[c].id
<1>1. /\ call[c].pc = "cancel" /\ reqs' = [reqs EXCEPT ![n].status = "CANCELLED"]
      /\ asked' = [asked EXCEPT ![a] = NotAsked] /\ call' = [call EXCEPT ![c] = IdleCall]
      /\ UNCHANGED <<holdings, session, today, sweep, erased, overlaps, faults>>
  BY DEF CancelSave, CallAt, world, counters
<1>2. a \in Accounts /\ n \in DOMAIN reqs /\ IdleCall \in CallState
  BY <1>1 DEF Inv, DeletionTyped, CallState, IdleCall
<1>4. /\ call' \in [Calls -> CallState] /\ call'[c] = IdleCall
      /\ \A d \in Calls \ {c} : call'[d] = call[d]
  BY <1>1, <1>2 DEF Inv, DeletionTyped
<1>5. /\ asked' \in [Accounts -> Int]
      /\ \A b \in Accounts \ {a} : asked'[b] = asked[b]
  BY <1>1, <1>2 DEF Inv, DeletionTyped, NotAsked
<1>6. /\ reqs' \in Seq(DeletionRow) /\ Len(reqs') = Len(reqs) /\ DOMAIN reqs' = DOMAIN reqs
      /\ reqs'[n].status = "CANCELLED"
      /\ \A j \in DOMAIN reqs : /\ reqs'[j].account = reqs[j].account
                                /\ reqs'[j].due = reqs[j].due
                                /\ j # n => reqs'[j] = reqs[j]
  BY <1>1, <1>2, StatusWritten DEF Inv, Statuses
<1>7. DeletionTyped'
  BY <1>1, <1>4, <1>5, <1>6 DEF Inv, DeletionTyped, IdleCall
<1>8. ErasedSoFar'
  BY <1>1, <1>6 DEF Inv, ErasedSoFar
<1>9. ASSUME overlaps' = 0 PROVE Alone'
  <2>1. overlaps = 0 /\ (\A s \in Sweeps : sweep[s].pc = "idle") /\ \A d \in Calls \ {c} : call[d].pc = "idle"
    BY <1>1, <1>9, OnlyCall
  <2>2. reqs[n].status = "REQUESTED" /\ reqs[n].account = a
    BY <1>1, <2>1 DEF Inv, Alone, CallSees
  <2>3. ASSUME NEW i \in DOMAIN reqs' PROVE RowStands(i)'
    <3>1. CASE i = n
      BY <1>1, <1>2, <1>6, <2>1, <2>2, <3>1 DEF Inv, Alone, RowStands, Pending
    <3>2. CASE i # n
      <4>1. RowStands(i) /\ RowStands(n) /\ reqs[i].account \in Accounts /\ i \in DOMAIN reqs
        <5>1. i \in DOMAIN reqs /\ reqs[i] \in DeletionRow
          BY <1>6 DEF Inv, DeletionTyped
        <5> QED BY <1>2, <2>1, <5>1 DEF Inv, Alone, DeletionRow
      <4>2. reqs'[i] = reqs[i] /\ erased'[i] = erased[i]
        BY <1>1, <1>6, <3>2
      <4>3. Pending(reqs[i]) => reqs[i].account # a
        <5>1. i \in Nat /\ n \in Nat /\ Pending(reqs[n])
          BY <1>2, <2>2, <4>1 DEF Inv, DeletionTyped, Pending
        <5> QED BY <1>2, <2>2, <3>2, <4>1, <5>1 DEF RowStands
      <4>4. Pending(reqs[i]) => asked'[reqs[i].account] = asked[reqs[i].account]
        BY <1>5, <4>1, <4>3
      <4> QED BY <1>6, <4>1, <4>2, <4>4 DEF RowStands
    <3> QED BY <3>1, <3>2
  <2>4. CallSees(c)'
    BY <1>4 DEF CallSees, IdleCall
  <2> QED BY <1>1, <1>4, <2>1, <2>3, <2>4, CallAlone
<1> QED BY <1>7, <1>8, <1>9 DEF Inv, Alone
-----------------------------------------------------------------------------
(* The sweep. *)

(* A sweep goes on, its listed rows and its own row given. *)
LEMMA SweepGoes ==
    ASSUME Inv, NEW s \in Sweeps, NEW k \in SweepState, sweep' = [sweep EXCEPT ![s] = k]
    PROVE  /\ sweep' \in [Sweeps -> SweepState] /\ sweep'[s] = k
           /\ \A r \in Sweeps \ {s} : sweep'[r] = sweep[r]
  BY DEF Inv, DeletionTyped

LEMMA SweepBegins ==
    ASSUME Inv, NEW s \in Sweeps, List(s)
    PROVE  Inv'
<1> DEFINE k == [pc |-> "next", todo |-> listDueDeletions(today), id |-> None]
<1>1. Begin /\ sweep[s].pc = "idle" /\ sweep' = [sweep EXCEPT ![s] = k]
      /\ UNCHANGED <<reqs, holdings, session, today, call, asked, erased>>
  BY DEF List, SweepAt, world
<1>2. /\ listDueDeletions(today) \subseteq DOMAIN reqs /\ listDueDeletions(today) \in SUBSET Nat
      /\ \A i \in listDueDeletions(today) : isDeletionDue(reqs[i], today)
  BY ListedIs DEF Inv
<1>3. k \in SweepState
  BY <1>2 DEF SweepState, None
<1>k. k.pc = "next" /\ k.todo = listDueDeletions(today) /\ "next" \notin Working
  BY DEF Working, Kinds
<1> HIDE DEF k
<1>4. /\ sweep' \in [Sweeps -> SweepState] /\ sweep'[s] = k
      /\ \A r \in Sweeps \ {s} : sweep'[r] = sweep[r]
  BY <1>1, <1>3, SweepGoes
<1>5. DeletionTyped'
  BY <1>1, <1>2, <1>4, <1>k, BeginAlone DEF Inv, DeletionTyped
<1>6. ErasedSoFar'
  BY <1>1, <1>4, <1>k DEF Inv, ErasedSoFar
<1>7. ASSUME overlaps' = 0 PROVE Alone'
  <2>1. overlaps = 0 /\ Quiet
    BY <1>1, <1>7, BeginAlone
  <2>2. \A i \in DOMAIN reqs' : RowStands(i)'
    BY <1>1, <2>1 DEF Inv, Alone, RowStands
  <2>3. SweepSees(s)'
    BY <1>1, <1>2, <1>4, <1>k DEF SweepSees
  <2> QED BY <1>1, <1>4, <2>1, <2>2, <2>3, SweepAlone DEF Quiet
<1> QED BY <1>5, <1>6, <1>7 DEF Inv, Alone

LEMMA SweepMarks ==
    ASSUME Inv, NEW s \in Sweeps, Mark(s)
    PROVE  Inv'
<1>0. PICK n : n = Oldest(sweep[s].todo)
  OBVIOUS
<1>t. PICK todo : todo = sweep[s].todo \ {n}
  OBVIOUS
<1> DEFINE k == [pc |-> "profiles", id |-> n, todo |-> todo]
<1>1. /\ sweep[s].pc = "next" /\ sweep[s].todo # {}
      /\ reqs' = [reqs EXCEPT ![n].status = "PROCESSING"]
      /\ sweep' = [sweep EXCEPT ![s] = k]
      /\ UNCHANGED <<holdings, session, today, call, asked, erased, overlaps, faults>>
  BY <1>0, <1>t DEF Mark, SweepAt, world, counters, Inv, DeletionTyped
<1>a. sweep[s] \in SweepState /\ sweep[s].todo \subseteq DOMAIN reqs
  BY DEF Inv, DeletionTyped
<1>2. sweep[s].todo \in SUBSET Nat
  BY <1>a DEF SweepState
<1>3. n \in sweep[s].todo /\ n \in DOMAIN reqs /\ n \in Nat
  BY <1>0, <1>1, <1>2, <1>a, OldestIs
<1>4. k \in SweepState /\ todo \subseteq DOMAIN reqs
  BY <1>2, <1>3, <1>a, <1>t DEF SweepState, Working, Kinds
<1>k. k.pc = "profiles" /\ k.id = n /\ k.todo = todo /\ "profiles" \in Working /\ Before(k.pc) = {}
  BY DEF Working, Kinds, Before
<1> HIDE DEF k
<1>5. /\ sweep' \in [Sweeps -> SweepState] /\ sweep'[s] = k
      /\ \A r \in Sweeps \ {s} : sweep'[r] = sweep[r]
  BY <1>1, <1>4, SweepGoes
<1>6. /\ reqs' \in Seq(DeletionRow) /\ Len(reqs') = Len(reqs) /\ DOMAIN reqs' = DOMAIN reqs
      /\ reqs'[n].status = "PROCESSING"
      /\ \A j \in DOMAIN reqs : /\ reqs'[j].account = reqs[j].account
                                /\ reqs'[j].due = reqs[j].due
                                /\ j # n => reqs'[j] = reqs[j]
  BY <1>1, <1>3, StatusWritten DEF Inv, Statuses
<1>7. DeletionTyped'
  BY <1>1, <1>3, <1>4, <1>5, <1>6, <1>k DEF Inv, DeletionTyped
<1>8. ErasedSoFar'
  BY <1>1, <1>5, <1>6, <1>k DEF Inv, ErasedSoFar
<1>9. ASSUME overlaps' = 0 PROVE Alone'
  <2>1. /\ overlaps = 0 /\ \A c \in Calls : call[c].pc = "idle"
        /\ \A r \in Sweeps \ {s} : sweep[r].pc = "idle"
    BY <1>1, <1>9, OnlySweep
  <2>2. \A i \in sweep[s].todo : isDeletionDue(reqs[i], today)
    BY <1>1, <2>1 DEF Inv, Alone, SweepSees
  <2>3. ASSUME NEW i \in DOMAIN reqs' PROVE RowStands(i)'
    <3>1. RowStands(i)
      BY <1>6, <2>1 DEF Inv, Alone
    <3>2. CASE i = n
      <4>1. Pending(reqs[i])
        BY <1>3, <2>2, <3>2 DEF isDeletionDue
      <4>2. /\ asked[reqs[i].account] # NotAsked
            /\ reqs[i].due = asked[reqs[i].account] + GraceDays
            /\ \A j \in DOMAIN reqs : j > i => reqs[j].account # reqs[i].account
        BY <3>1, <4>1 DEF RowStands
      <4>3. /\ reqs'[i].status = "PROCESSING" /\ reqs'[i].account = reqs[i].account
            /\ reqs'[i].due = reqs[i].due /\ asked' = asked
        BY <1>1, <1>3, <1>6, <3>2
      <4>4. \A j \in DOMAIN reqs' : j > i => reqs'[j].account # reqs'[i].account
        BY <1>6, <4>2, <4>3
      <4> QED BY <4>2, <4>3, <4>4 DEF RowStands
    <3>3. CASE i # n
      BY <1>1, <1>6, <3>1, <3>3 DEF RowStands
    <3> QED BY <3>2, <3>3
  <2>4. SweepSees(s)'
    <3>1. \A i \in todo : reqs'[i] = reqs[i] /\ isDeletionDue(reqs[i], today)
      BY <1>6, <1>a, <1>t, <2>2
    <3>2. reqs'[n].status = "PROCESSING" /\ reqs'[n].due <= today /\ n \notin todo
      BY <1>3, <1>6, <1>t, <2>2 DEF isDeletionDue
    <3> QED BY <1>1, <1>5, <1>k, <3>1, <3>2 DEF SweepSees
  <2> QED BY <1>1, <1>5, <2>1, <2>3, <2>4, SweepAlone
<1> QED BY <1>7, <1>8, <1>9 DEF Inv, Alone

(* Where a sweep in work goes after a step. *)
LEMMA NextPc ==
    ASSUME Inv, NEW s \in Sweeps, NEW pc \in {"idle", "next"} \cup Working, Go(s, pc)
    PROVE  /\ sweep' \in [Sweeps -> SweepState]
           /\ sweep'[s].pc = pc /\ sweep'[s].id = sweep[s].id /\ sweep'[s].todo = sweep[s].todo
           /\ \A r \in Sweeps \ {s} : sweep'[r] = sweep[r]
<1> DEFINE k == [sweep[s] EXCEPT !.pc = pc]
<1>1. sweep[s] \in SweepState
  BY DEF Inv, DeletionTyped
<1>2. k \in SweepState /\ k.pc = pc /\ k.id = sweep[s].id /\ k.todo = sweep[s].todo
  BY <1>1 DEF SweepState
<1>3. sweep' = [sweep EXCEPT ![s] = k]
  BY DEF Go
<1> HIDE DEF k
<1> QED BY <1>2, <1>3, SweepGoes

(* One kind of records goes, or the sessions do. *)
LEMMA SweepErases ==
    ASSUME Inv, NEW s \in Sweeps, NEW kind \in Whole, NEW after \in Working,
           sweep[s].pc \in Working, Go(s, after),
           Before(after) = Before(sweep[s].pc) \cup {kind},
           erased' = [erased EXCEPT ![sweep[s].id] = @ \cup {kind}],
           holdings' \in [Tenants -> SUBSET Kinds], session' \in [Accounts -> BOOLEAN],
           UNCHANGED <<reqs, today, call, asked, overlaps, faults>>
    PROVE  Inv'
<1>0. PICK n : n = sweep[s].id
  OBVIOUS
<1>1. n \in DOMAIN reqs
  BY <1>0 DEF Inv, DeletionTyped
<1>2. /\ sweep' \in [Sweeps -> SweepState]
      /\ sweep'[s].pc = after /\ sweep'[s].id = n /\ sweep'[s].todo = sweep[s].todo
      /\ \A r \in Sweeps \ {s} : sweep'[r] = sweep[r]
  BY <1>0, NextPc
<1>3. /\ erased' \in Seq(SUBSET Whole) /\ Len(erased') = Len(reqs)
      /\ erased'[n] = erased[n] \cup {kind}
      /\ \A j \in DOMAIN reqs : erased[j] \subseteq erased'[j] /\ (j # n => erased'[j] = erased[j])
      /\ \A j \in DOMAIN reqs : erased[j] = Whole => erased'[j] = Whole
  BY <1>0, <1>1, MoreErased DEF Inv
<1>4. DeletionTyped'
  BY <1>1, <1>2, <1>3 DEF Inv, DeletionTyped
<1>5. ErasedSoFar'
  <2>1. \A i \in DOMAIN reqs' : reqs'[i].status = "COMPLETED" => erased'[i] = Whole
    BY <1>3 DEF Inv, ErasedSoFar
  <2>2. Before(after) \subseteq erased'[n]
    BY <1>0, <1>3 DEF Inv, ErasedSoFar
  <2>3. ASSUME NEW r \in Sweeps \ {s}, sweep[r].pc \in Working
        PROVE  Before(sweep[r].pc) \subseteq erased'[sweep[r].id]
    BY <1>3, <2>3 DEF Inv, ErasedSoFar, DeletionTyped
  <2> QED BY <1>2, <2>1, <2>2, <2>3 DEF ErasedSoFar
<1>6. ASSUME overlaps' = 0 PROVE Alone'
  <2>0. sweep[s].pc # "idle"
    BY DEF Working, Kinds
  <2>1. /\ overlaps = 0 /\ \A c \in Calls : call[c].pc = "idle"
        /\ \A r \in Sweeps \ {s} : sweep[r].pc = "idle"
    BY <1>6, <2>0, OnlySweep
  <2>2. SweepSees(s)
    BY <2>1 DEF Inv, Alone
  <2>3. ASSUME NEW i \in DOMAIN reqs' PROVE RowStands(i)'
    <3>1. RowStands(i)
      BY <2>1 DEF Inv, Alone
    <3>2. i = n => reqs[i].status = "PROCESSING"
      BY <1>0, <2>2 DEF SweepSees
    <3> QED BY <1>3, <3>1, <3>2 DEF RowStands
  <2>4. SweepSees(s)'
    BY <1>0, <1>2, <2>0, <2>2 DEF SweepSees
  <2> QED BY <1>2, <2>1, <2>3, <2>4, SweepAlone
<1> QED BY <1>4, <1>5, <1>6 DEF Inv, Alone

LEMMA SweepErasing ==
    ASSUME Inv, NEW s \in Sweeps,
           EraseProfiles(s) \/ EraseAdverts(s) \/ EraseConversations(s) \/ Revoke(s)
    PROVE  Inv'
<1>0. sweep[s].pc \in Working => reqs[sweep[s].id] \in DeletionRow
  BY DEF Inv, DeletionTyped
<1>1. CASE EraseProfiles(s)
  BY <1>0, <1>1, SweepErases
     DEF EraseProfiles, EraseKind, SweepAt, TenantAt, Row, Working, Whole, Kinds, Before, Inv, DeletionTyped, counters
<1>2. CASE EraseAdverts(s)
  BY <1>0, <1>2, SweepErases
     DEF EraseAdverts, EraseKind, SweepAt, TenantAt, Row, Working, Whole, Kinds, Before, Inv, DeletionTyped, counters
<1>3. CASE EraseConversations(s)
  BY <1>0, <1>3, SweepErases
     DEF EraseConversations, EraseKind, SweepAt, TenantAt, Row, Working, Whole, Kinds, Before, Inv, DeletionTyped, counters
<1>4. CASE Revoke(s)
  BY <1>0, <1>4, SweepErases
     DEF Revoke, SweepAt, Row, Working, Whole, Kinds, Before, Inv, DeletionTyped, counters
<1> QED BY <1>1, <1>2, <1>3, <1>4

LEMMA SweepFinishes ==
    ASSUME Inv, NEW s \in Sweeps, Finish(s)
    PROVE  Inv'
<1>0. PICK n : n = sweep[s].id
  OBVIOUS
<1>a. PICK a : a = reqs[n].account
  OBVIOUS
<1>1. /\ sweep[s].pc = "finish" /\ reqs' = [reqs EXCEPT ![n].status = "COMPLETED"]
      /\ asked' = [asked EXCEPT ![a] = NotAsked] /\ Go(s, "next")
      /\ UNCHANGED <<holdings, session, today, call, erased, overlaps, faults>>
  BY <1>0, <1>a DEF Finish, SweepAt, Row, world, counters
<1>2. n \in DOMAIN reqs /\ "finish" \in Working /\ "next" \notin Working
  BY <1>0, <1>1 DEF Inv, DeletionTyped, Working, Kinds
<1>3. a \in Accounts
  <2>1. reqs[n] \in DeletionRow
    BY <1>2 DEF Inv, DeletionTyped
  <2> QED BY <1>a, <2>1 DEF DeletionRow
<1>4. /\ sweep' \in [Sweeps -> SweepState]
      /\ sweep'[s].pc = "next" /\ sweep'[s].todo = sweep[s].todo
      /\ \A r \in Sweeps \ {s} : sweep'[r] = sweep[r]
  BY <1>1, NextPc
<1>5. /\ asked' \in [Accounts -> Int]
      /\ \A b \in Accounts \ {a} : asked'[b] = asked[b]
  BY <1>1, <1>3 DEF Inv, DeletionTyped, NotAsked
<1>6. /\ reqs' \in Seq(DeletionRow) /\ Len(reqs') = Len(reqs) /\ DOMAIN reqs' = DOMAIN reqs
      /\ reqs'[n].status = "COMPLETED"
      /\ \A j \in DOMAIN reqs : /\ reqs'[j].account = reqs[j].account
                                /\ reqs'[j].due = reqs[j].due
                                /\ j # n => reqs'[j] = reqs[j]
  BY <1>1, <1>2, StatusWritten DEF Inv, Statuses
<1>7. DeletionTyped'
  <2>1. \A r \in Sweeps : /\ sweep'[r].todo \subseteq DOMAIN reqs'
                          /\ sweep'[r].pc \in Working => sweep'[r].id \in DOMAIN reqs'
    <3>1. \A r \in Sweeps : /\ sweep[r].todo \subseteq DOMAIN reqs
                            /\ sweep[r].pc \in Working => sweep[r].id \in DOMAIN reqs
      BY DEF Inv, DeletionTyped
    <3>2. DOMAIN reqs' = DOMAIN reqs
      BY <1>6
    <3> QED BY <1>2, <1>4, <3>1, <3>2
  <2>2. \A c \in Calls : call'[c].pc = "cancel" => call'[c].id \in DOMAIN reqs'
    BY <1>1, <1>6 DEF Inv, DeletionTyped
  <2>3. /\ erased' \in Seq(SUBSET Whole) /\ Len(erased') = Len(reqs')
        /\ holdings' \in [Tenants -> SUBSET Kinds] /\ session' \in [Accounts -> BOOLEAN]
        /\ today' \in Nat /\ call' \in [Calls -> CallState] /\ overlaps' \in Nat /\ faults' \in Nat
    BY <1>1, <1>6 DEF Inv, DeletionTyped
  <2> QED BY <1>4, <1>5, <1>6, <2>1, <2>2, <2>3 DEF DeletionTyped
<1>8. ErasedSoFar'
  <2>1. Whole \subseteq erased[n] /\ erased[n] \subseteq Whole
    BY <1>0, <1>1, <1>2 DEF Inv, ErasedSoFar, DeletionTyped, Before
  <2>2. \A i \in DOMAIN reqs' : reqs'[i].status = "COMPLETED" => erased'[i] = Whole
    BY <1>1, <1>6, <2>1 DEF Inv, ErasedSoFar
  <2> QED BY <1>1, <1>2, <1>4, <2>2 DEF Inv, ErasedSoFar
<1>9. ASSUME overlaps' = 0 PROVE Alone'
  <2>1. /\ overlaps = 0 /\ \A c \in Calls : call[c].pc = "idle"
        /\ \A r \in Sweeps \ {s} : sweep[r].pc = "idle"
    BY <1>1, <1>9, OnlySweep
  <2>2. SweepSees(s)
    BY <2>1 DEF Inv, Alone
  <2>3. ASSUME NEW i \in DOMAIN reqs' PROVE RowStands(i)'
    <3>1. RowStands(i) /\ RowStands(n) /\ i \in DOMAIN reqs
      BY <1>2, <1>6, <2>1 DEF Inv, Alone
    <3>2. CASE i = n
      BY <1>1, <1>6, <3>2 DEF RowStands, Pending
    <3>3. CASE i # n
      <4>2. reqs'[i] = reqs[i] /\ erased'[i] = erased[i]
        BY <1>1, <1>6, <3>1, <3>3
      <4>3. Pending(reqs[i]) => reqs[i].account # a
        <5>1. i \in Nat /\ n \in Nat /\ Pending(reqs[n])
          BY <1>0, <1>1, <1>2, <2>2, <3>1 DEF Inv, DeletionTyped, Pending, SweepSees
        <5> QED BY <1>2, <1>a, <3>1, <3>3, <5>1 DEF RowStands
      <4>4. Pending(reqs[i]) => asked'[reqs[i].account] = asked[reqs[i].account]
        <5>1. reqs[i] \in DeletionRow
          BY <3>1 DEF Inv, DeletionTyped
        <5> QED BY <1>5, <4>3, <5>1 DEF DeletionRow
      <4> QED BY <1>6, <3>1, <4>2, <4>4 DEF RowStands
    <3> QED BY <3>2, <3>3
  <2>4. SweepSees(s)'
    <3>1. sweep[s].todo \subseteq DOMAIN reqs /\ n \notin sweep[s].todo
      BY <1>0, <1>1, <1>2, <2>2 DEF SweepSees, Inv, DeletionTyped
    <3>2. \A i \in sweep[s].todo : reqs'[i] = reqs[i] /\ isDeletionDue(reqs[i], today)
      BY <1>1, <1>6, <2>2, <3>1 DEF SweepSees
    <3> QED BY <1>1, <1>2, <1>4, <3>2 DEF SweepSees
  <2> QED BY <1>1, <1>4, <2>1, <2>3, <2>4, SweepAlone
<1> QED BY <1>7, <1>8, <1>9 DEF Inv, Alone

(* A sweep that gives a row up, or ends, or dies: no row is written. *)
LEMMA SweepRests ==
    ASSUME Inv, NEW s \in Sweeps, NEW k \in SweepState,
           sweep[s].pc # "idle", sweep' = [sweep EXCEPT ![s] = k],
           k.pc \in {"idle", "next"}, k.todo \subseteq sweep[s].todo,
           faults' \in Nat,
           UNCHANGED <<reqs, holdings, session, today, call, asked, erased, overlaps>>
    PROVE  Inv'
<1>1. /\ sweep' \in [Sweeps -> SweepState] /\ sweep'[s] = k
      /\ \A r \in Sweeps \ {s} : sweep'[r] = sweep[r]
  BY SweepGoes
<1>2. k.pc \notin Working
  BY DEF Working, Kinds
<1>3. DeletionTyped'
  <2>1. \A r \in Sweeps : /\ sweep'[r].todo \subseteq DOMAIN reqs'
                          /\ sweep'[r].pc \in Working => sweep'[r].id \in DOMAIN reqs'
    BY <1>1, <1>2 DEF Inv, DeletionTyped
  <2> QED BY <1>1, <2>1 DEF Inv, DeletionTyped
<1>4. ErasedSoFar'
  BY <1>1, <1>2 DEF Inv, ErasedSoFar
<1>5. ASSUME overlaps' = 0 PROVE Alone'
  <2>1. /\ overlaps = 0 /\ \A c \in Calls : call[c].pc = "idle"
        /\ \A r \in Sweeps \ {s} : sweep[r].pc = "idle"
    BY <1>5, OnlySweep
  <2>2. \A i \in DOMAIN reqs' : RowStands(i)'
    BY <2>1 DEF Inv, Alone, RowStands
  <2>3. SweepSees(s)'
    BY <1>1, <1>2, <2>1 DEF Inv, Alone, SweepSees
  <2> QED BY <1>1, <2>1, <2>2, <2>3, SweepAlone
<1> QED BY <1>3, <1>4, <1>5 DEF Inv, Alone

LEMMA SweepStops ==
    ASSUME Inv, NEW s \in Sweeps,
           \/ Fail(s) \/ Complete(s)
           \/ /\ ~SweepAt(s, "idle") /\ sweep' = [sweep EXCEPT ![s] = IdleSweep]
              /\ faults' = faults + 1
              /\ UNCHANGED <<reqs, world, call, asked, erased, overlaps>>
    PROVE  Inv'
<1>1. sweep[s] \in SweepState /\ faults \in Nat
  BY DEF Inv, DeletionTyped
<1>2. IdleSweep \in SweepState /\ IdleSweep.pc = "idle" /\ IdleSweep.todo = {}
  BY DEF IdleSweep, SweepState, None
<1>3. CASE Fail(s)
  <2>1. PICK k : k = [sweep[s] EXCEPT !.pc = "next"]
    OBVIOUS
  <2>2. k \in SweepState /\ k.pc = "next" /\ k.todo = sweep[s].todo
    BY <1>1, <2>1 DEF SweepState
  <2>3. sweep' = [sweep EXCEPT ![s] = k] /\ sweep[s].pc # "idle"
    BY <1>3, <2>1 DEF Fail, Go, Kinds
  <2>4. faults' \in Nat /\ UNCHANGED <<reqs, holdings, session, today, call, asked, erased, overlaps>>
    BY <1>1, <1>3 DEF Fail, world
  <2> QED BY <2>2, <2>3, <2>4, SweepRests
<1>4. CASE Complete(s)
  BY <1>1, <1>2, <1>4, SweepRests DEF Complete, SweepAt, world, counters
<1>5. CASE /\ ~SweepAt(s, "idle") /\ sweep' = [sweep EXCEPT ![s] = IdleSweep]
           /\ faults' = faults + 1
           /\ UNCHANGED <<reqs, world, call, asked, erased, overlaps>>
  <2>1. faults' \in Nat /\ UNCHANGED <<reqs, holdings, session, today, call, asked, erased, overlaps>>
    BY <1>1, <1>5 DEF world
  <2>2. sweep[s].pc # "idle" /\ sweep' = [sweep EXCEPT ![s] = IdleSweep]
    BY <1>5 DEF SweepAt
  <2>3. IdleSweep.pc \in {"idle", "next"} /\ IdleSweep.todo \subseteq sweep[s].todo
    BY <1>2
  <2> QED BY <1>2, <2>1, <2>2, <2>3, SweepRests
<1> QED BY <1>3, <1>4, <1>5

LEMMA CallDies ==
    ASSUME Inv, NEW c \in Calls, call[c].pc # "idle", call' = [call EXCEPT ![c] = IdleCall],
           faults' \in Nat,
           UNCHANGED <<reqs, holdings, session, today, sweep, asked, erased, overlaps>>
    PROVE  Inv'
<1>1. IdleCall \in CallState /\ IdleCall.pc = "idle"
  BY DEF IdleCall, CallState
<1>2. /\ call' \in [Calls -> CallState] /\ call'[c] = IdleCall
      /\ \A d \in Calls \ {c} : call'[d] = call[d]
  BY <1>1 DEF Inv, DeletionTyped
<1>3. DeletionTyped'
  BY <1>1, <1>2 DEF Inv, DeletionTyped
<1>4. ErasedSoFar'
  BY DEF Inv, ErasedSoFar
<1>5. ASSUME overlaps' = 0 PROVE Alone'
  <2>1. overlaps = 0 /\ (\A s \in Sweeps : sweep[s].pc = "idle") /\ \A d \in Calls \ {c} : call[d].pc = "idle"
    BY <1>5, OnlyCall
  <2>2. \A i \in DOMAIN reqs' : RowStands(i)'
    BY <2>1 DEF Inv, Alone, RowStands
  <2>3. CallSees(c)'
    BY <1>1, <1>2 DEF CallSees
  <2> QED BY <1>2, <2>1, <2>2, <2>3, CallAlone
<1> QED BY <1>3, <1>4, <1>5 DEF Inv, Alone

LEMMA Dies ==
    ASSUME Inv, Crash
    PROVE  Inv'
<1>1. faults' \in Nat
  BY DEF Inv, DeletionTyped, Crash
<1>2. CASE \E s \in Sweeps : /\ ~SweepAt(s, "idle")
                            /\ sweep' = [sweep EXCEPT ![s] = IdleSweep]
                            /\ UNCHANGED call
  BY <1>2, SweepStops DEF Crash
<1>3. CASE \E c \in Calls : /\ ~CallAt(c, "idle")
                           /\ call' = [call EXCEPT ![c] = IdleCall]
                           /\ UNCHANGED sweep
  BY <1>1, <1>3, CallDies DEF Crash, CallAt, world
<1> QED BY <1>2, <1>3 DEF Crash

(* The tenants, and the days that pass. *)
LEMMA OthersGoOn ==
    ASSUME Inv, holdings' \in [Tenants -> SUBSET Kinds], session' \in [Accounts -> BOOLEAN],
           today' \in Nat, today <= today',
           UNCHANGED <<reqs, call, sweep, asked, erased, overlaps, faults>>
    PROVE  Inv'
<1>1. DeletionTyped'
  BY DEF Inv, DeletionTyped
<1>2. ErasedSoFar'
  BY DEF Inv, ErasedSoFar
<1>3. ASSUME overlaps' = 0 PROVE Alone'
  <2>1. Single' /\ (\A i \in DOMAIN reqs' : RowStands(i)') /\ \A c \in Calls : CallSees(c)'
    BY <1>3 DEF Inv, Alone, Single, RowStands, CallSees
  <2>2. ASSUME NEW s \in Sweeps PROVE SweepSees(s)'
    <3>1. /\ SweepSees(s) /\ today \in Nat
          /\ sweep[s].todo \subseteq DOMAIN reqs
          /\ sweep[s].pc \in Working => sweep[s].id \in DOMAIN reqs
      BY <1>3 DEF Inv, Alone, DeletionTyped
    <3>2. \A i \in DOMAIN reqs : reqs[i].due \in Nat
      <4>1. \A i \in DOMAIN reqs : reqs[i] \in DeletionRow
        BY DEF Inv, DeletionTyped
      <4> QED BY <4>1 DEF DeletionRow
    <3>3. \A i \in DOMAIN reqs : reqs[i].due <= today => reqs[i].due <= today'
      BY <3>1, <3>2
    <3> QED BY <3>1, <3>3 DEF SweepSees, isDeletionDue
  <2> QED BY <2>1, <2>2 DEF Alone
<1> QED BY <1>1, <1>2, <1>3 DEF Inv, Alone

LEMMA TenantsGoOn ==
    ASSUME Inv, Tick \/ \E a \in Accounts : Login(a) \/ Create(a)
    PROVE  Inv'
<1>1. CASE Tick
  BY <1>1, OthersGoOn DEF Tick, counters, Inv, DeletionTyped
<1>2. ASSUME NEW a \in Accounts, Login(a) PROVE Inv'
  BY <1>2, OthersGoOn DEF Login, counters, Inv, DeletionTyped
<1>3. ASSUME NEW a \in Accounts, Create(a) PROVE Inv'
  <2>1. PICK k \in Kinds : holdings' = [holdings EXCEPT ![TenantOf[a]] = @ \cup {k}]
    BY <1>3 DEF Create
  <2>2. holdings' \in [Tenants -> SUBSET Kinds]
    BY <2>1 DEF Inv, DeletionTyped
  <2> QED BY <1>3, <2>2, OthersGoOn DEF Create, counters, Inv, DeletionTyped
<1> QED BY <1>1, <1>2, <1>3

LEMMA InvInit ==
    ASSUME Init
    PROVE  Inv
<1>1. IdleCall \in CallState /\ IdleSweep \in SweepState
  BY DEF IdleCall, CallState, IdleSweep, SweepState, None
<1>2. DeletionTyped
  BY <1>1 DEF Init, DeletionTyped, NotAsked, IdleCall, IdleSweep, Working, Kinds
<1>3. ErasedSoFar
  BY DEF Init, ErasedSoFar, IdleSweep, Working, Kinds
<1>4. Alone
  BY DEF Init, Alone, Single, CallSees, SweepSees, IdleCall, IdleSweep, Working, Kinds
<1> QED BY <1>2, <1>3, <1>4 DEF Inv

LEMMA InvNext ==
    ASSUME Inv, [Next]_vars
    PROVE  Inv'
<1>1. CASE Tick \/ \E a \in Accounts : Login(a) \/ Create(a)
  BY <1>1, TenantsGoOn
<1>2. CASE Crash
  BY <1>2, Dies
<1>3. ASSUME NEW c \in Calls, RequestLoad(c) \/ CancelLoad(c) \/ CallStep(c) PROVE Inv'
  BY <1>3, CallBegins, RequestSaves, CancelSaves DEF CallStep
<1>4. ASSUME NEW s \in Sweeps, List(s) \/ SweepStep(s) PROVE Inv'
  BY <1>4, SweepBegins, SweepMarks, SweepErasing, SweepFinishes, SweepStops DEF SweepStep
<1>5. CASE UNCHANGED vars
  BY <1>5 DEF vars, Inv, DeletionTyped, ErasedSoFar, Alone, Single, RowStands, CallSees, SweepSees
<1> QED BY <1>1, <1>2, <1>3, <1>4, <1>5 DEF Next

(* In every state, sweeps, calls and rows agree. *)
THEOREM DeletionInvariant == Spec => []Inv
<1> QED BY InvInit, InvNext, PTL DEF Spec
-----------------------------------------------------------------------------
LEMMA InvIsWhole ==
    ASSUME Inv
    PROVE  CompletedIsWhole
  BY DEF Inv, ErasedSoFar, Alone, RowStands, CompletedIsWhole, Whole

(* The row a sweep works on is one whose deletion is wanted. *)
LEMMA WorkIsWanted ==
    ASSUME Inv, overlaps = 0, NEW s \in Sweeps, sweep[s].pc \in Working
    PROVE  Row(s).account \in Accounts /\ Wanted(Row(s).account)
<1>1. /\ sweep[s].id \in DOMAIN reqs
      /\ Row(s).status = "PROCESSING" /\ Row(s).due <= today
  BY DEF Inv, DeletionTyped, Alone, SweepSees, Row, Working, Kinds
<1>2. Row(s) \in DeletionRow
  BY <1>1 DEF Inv, DeletionTyped, Row
<1>3. Row(s).account \in Accounts
  BY <1>2 DEF DeletionRow
<1>4. asked[Row(s).account] # NotAsked /\ Row(s).due = asked[Row(s).account] + GraceDays
  BY <1>1 DEF Inv, Alone, RowStands, Pending, Row
<1> QED BY <1>1, <1>3, <1>4 DEF Wanted

LEMMA OneKindGoes ==
    ASSUME Inv, overlaps = 0, NEW s \in Sweeps, NEW kind \in Kinds, NEW after, EraseKind(s, kind, after),
           NEW t \in Tenants, ~(holdings[t] \subseteq holdings'[t])
    PROVE  \E a \in Accounts : TenantOf[a] = t /\ Wanted(a)
<1>1. holdings' = [holdings EXCEPT ![TenantAt(s)] = @ \ {kind}] /\ sweep[s].pc \in Working
  BY DEF EraseKind, SweepAt, Working
<1>2. TenantAt(s) = t
  BY <1>1 DEF Inv, DeletionTyped
<1> QED BY <1>1, <1>2, WorkIsWanted DEF TenantAt

(* Of the steps, the sweep's alone take anything from a tenant. *)
LEMMA OthersTakeNothing ==
    ASSUME Inv, Tick \/ Crash \/ UNCHANGED vars \/ (\E a \in Accounts : Login(a) \/ Create(a))
                \/ (\E c \in Calls : RequestLoad(c) \/ CancelLoad(c) \/ CallStep(c))
                \/ (\E s \in Sweeps : List(s) \/ Mark(s) \/ Finish(s) \/ Fail(s) \/ Complete(s))
    PROVE  /\ \A t \in Tenants : holdings[t] \subseteq holdings'[t]
           /\ \A a \in Accounts : session[a] => session'[a]
<1>1. CASE UNCHANGED <<holdings, session>>
  BY <1>1
<1>2. ASSUME NEW a \in Accounts, Create(a)
      PROVE  (\A t \in Tenants : holdings[t] \subseteq holdings'[t]) /\ UNCHANGED session
  <2>1. PICK k : holdings' = [holdings EXCEPT ![TenantOf[a]] = @ \cup {k}]
    BY <1>2 DEF Create
  <2> QED BY <1>2, <2>1 DEF Create, Inv, DeletionTyped
<1>3. ASSUME NEW a \in Accounts, Login(a)
      PROVE  UNCHANGED holdings /\ \A b \in Accounts : session[b] => session'[b]
  BY <1>3 DEF Login, Inv, DeletionTyped
<1>4. Tick \/ Crash \/ UNCHANGED vars => UNCHANGED <<holdings, session>>
  BY DEF Tick, Crash, vars, world
<1>5. ASSUME NEW c \in Calls, RequestLoad(c) \/ CancelLoad(c) \/ CallStep(c)
      PROVE  UNCHANGED <<holdings, session>>
  BY <1>5 DEF RequestLoad, CancelLoad, CallStep, RequestSave, CancelSave, world
<1>6. ASSUME NEW s \in Sweeps, List(s) \/ Mark(s) \/ Finish(s) \/ Fail(s) \/ Complete(s)
      PROVE  UNCHANGED <<holdings, session>>
  BY <1>6 DEF List, Mark, Finish, Fail, Complete, world
<1> QED BY <1>1, <1>2, <1>3, <1>4, <1>5, <1>6

LEMMA StepIsWanted ==
    ASSUME Inv, [Next]_vars, overlaps' = 0
    PROVE  /\ \A t \in Tenants : ~(holdings[t] \subseteq holdings'[t]) =>
                  \E a \in Accounts : TenantOf[a] = t /\ Wanted(a)
           /\ \A a \in Accounts : session[a] /\ ~session'[a] => Wanted(a)
<1> DEFINE Others == Tick \/ Crash \/ UNCHANGED vars \/ (\E a \in Accounts : Login(a) \/ Create(a))
              \/ (\E c \in Calls : RequestLoad(c) \/ CancelLoad(c) \/ CallStep(c))
              \/ (\E s \in Sweeps : List(s) \/ Mark(s) \/ Finish(s) \/ Fail(s) \/ Complete(s))
<1>1. CASE Others
  BY <1>1, OthersTakeNothing
<1>2. ASSUME NEW s \in Sweeps, EraseProfiles(s) \/ EraseAdverts(s) \/ EraseConversations(s)
      PROVE  /\ \A t \in Tenants : ~(holdings[t] \subseteq holdings'[t]) =>
                    \E a \in Accounts : TenantOf[a] = t /\ Wanted(a)
             /\ UNCHANGED session
  <2>1. PICK kind \in Kinds : \E after : EraseKind(s, kind, after)
    BY <1>2 DEF EraseProfiles, EraseAdverts, EraseConversations, Kinds
  <2>2. overlaps = 0 /\ UNCHANGED session
    BY <2>1 DEF EraseKind, counters
  <2> QED BY <2>1, <2>2, OneKindGoes
<1>3. ASSUME NEW s \in Sweeps, Revoke(s)
      PROVE  UNCHANGED holdings /\ \A a \in Accounts : session[a] /\ ~session'[a] => Wanted(a)
  <2>1. /\ session' = [session EXCEPT ![Row(s).account] = FALSE]
        /\ overlaps = 0 /\ sweep[s].pc \in Working /\ UNCHANGED holdings
    BY <1>3 DEF Revoke, SweepAt, Working, counters
  <2>2. \A a \in Accounts : session[a] /\ ~session'[a] => a = Row(s).account
    BY <2>1 DEF Inv, DeletionTyped
  <2> QED BY <2>1, <2>2, WorkIsWanted
<1>4. Others \/ \E s \in Sweeps : \/ EraseProfiles(s) \/ EraseAdverts(s) \/ EraseConversations(s)
                                 \/ Revoke(s)
  BY DEF Next, SweepStep
<1> QED BY <1>1, <1>2, <1>3, <1>4

(* A sweep erases what a tenant holds, or ends a user's sessions, only for a   *)
(* deletion that its user wants, as long as operations do not overlap; and     *)
(* under any interleaving, with calls that throw and sweeps that die, a        *)
(* request that says COMPLETED has erased everything.                          *)
THEOREM ErasureIsSound == Spec => ErasureIsJust
<1>1. Inv /\ [Next]_vars =>
        [overlaps' = 0 =>
          /\ \A t \in Tenants : ~(holdings[t] \subseteq holdings'[t]) =>
                \E a \in Accounts : TenantOf[a] = t /\ Wanted(a)
          /\ \A a \in Accounts : session[a] /\ ~session'[a] => Wanted(a)]_vars
  BY StepIsWanted
<1> QED BY <1>1, InvIsWhole, DeletionInvariant, PTL DEF Spec, ErasureIsJust, ErasureIsWanted
=============================================================================
