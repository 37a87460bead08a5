----------------------------- MODULE Conversations -----------------------------
(* One conversation between a tenant and a source it found (apps/api/src/      *)
(* modules/conversations): its messages and their receipts, its status, the    *)
(* block list of user content (modules/ugc) and the sweep that warns of an     *)
(* answer that is due or overdue.  Every operation reads the conversation,     *)
(* awaits, and writes its whole copy back.  The notifications that an          *)
(* operation itself sends, attachments, presence and the assignee are left out.*)
EXTENDS Integers, Sequences, FiniteSets

CONSTANTS
    Calls,      \* requests in progress
    Sweeps,     \* runs of the SLA checks
    SlaTicks,   \* responseSlaHours, in clock ticks
    SoonTicks,  \* the sixty minutes before an answer is due
    SlaOffsets, \* how far from the clock a tenant dates checks of its own
    ByHand,     \* the statuses a tenant sets
    MaxTime, MaxMessages,
    MaxTrouble  \* bounds; the last one of overlaps and crashes together

VARIABLES
    conv,     \* the Conversation row
    messages, \* its ConversationMessage rows
    alerts,   \* the ConversationNotification rows of the SLA, in order
    blocked,  \* is there a UserBlock of the source?
    now, call, sweep,
    overlapping, \* operations begun so far while another was in progress
    crashes   \* operations that died so far

conversationVars == <<conv, messages, alerts, blocked, now, call, sweep, overlapping, crashes>>
counters == <<overlapping, crashes>>

conversationStatuses == {"OPEN", "ASSIGNED", "WAITING_ON_ADVERTISER", "WAITING_ON_REQUESTER",
             "RESOLVED", "BLOCKED"}
Closed == {"RESOLVED", "BLOCKED"}
Never == -1
NoConversation == [status |-> "NONE", inbound |-> Never, first |-> Never]
Exists == conv.status # "NONE"
ASSUME SlaAssumption == /\ SlaTicks \in Nat /\ SoonTicks \in Nat /\ SlaOffsets \subseteq Int
                        /\ ByHand \subseteq conversationStatuses

IdleCall == [pc |-> "idle"]
Sides == {"requester", "tenant", "system"}

dueAt(c) == c.inbound + SlaTicks

(* calculateConversationSlaDecision, its alertType. *)
Decision(c, at) ==
    LET left == dueAt(c) - at
        awaited == c.first = Never \/ c.status = "WAITING_ON_ADVERTISER"
    IN  IF c.status \in Closed \/ ~awaited \/ left > SoonTicks THEN "none"
        ELSE IF left < 0 THEN "SLA_BREACHED" ELSE "SLA_DUE_SOON"

(* Mutant: a message that was read is delivered once more. *)
markMessageDeliveredMutant(status) == "DELIVERED"

markMessageDelivered(status) == IF status = "SENT" THEN "DELIVERED" ELSE status

markMessageRead(status) == "READ"

Receipts(kind, status) ==
    IF kind = "READ" THEN markMessageRead(status) ELSE markMessageDelivered(status)
-----------------------------------------------------------------------------
ConversationInit ==
    /\ conv = NoConversation /\ messages = <<>> /\ alerts = <<>>
    /\ blocked = FALSE /\ now = 0
    /\ call = [c \in Calls |-> IdleCall]
    /\ sweep = [s \in Sweeps |-> IdleCall]
    /\ overlapping = 0 /\ crashes = 0

AllIdle == /\ \A c \in Calls : call[c].pc = "idle"
         /\ \A s \in Sweeps : sweep[s].pc = "idle"

Start == /\ IF AllIdle THEN UNCHANGED overlapping
            ELSE overlapping + crashes < MaxTrouble /\ overlapping' = overlapping + 1
         /\ UNCHANGED crashes

CallAt(c, pc) == call[c].pc = pc
Go(c, k) == call' = [call EXCEPT ![c] = k]
Enter(c, k) == CallAt(c, "idle") /\ Start /\ Go(c, k)
SweepAt(s, pc) == sweep[s].pc = pc
SetSweep(s, k) == sweep' = [sweep EXCEPT ![s] = k]

Tick == /\ now < MaxTime
        /\ now' = now + 1
        /\ UNCHANGED <<conv, messages, alerts, blocked, call, sweep, counters>>

createBlock == /\ ~blocked /\ blocked' = TRUE
               /\ UNCHANGED <<conv, messages, alerts, now, call, sweep, counters>>
removeBlock == /\ blocked /\ blocked' = FALSE
               /\ UNCHANGED <<conv, messages, alerts, now, call, sweep, counters>>
-----------------------------------------------------------------------------
(* Messages.                                                                   *)

(* Room for one more message (bound). *)
Room == Len(messages) + Cardinality({c \in Calls : CallAt(c, "message")}) < MaxMessages

createConversation(c) ==
    /\ ~Exists /\ ~blocked
    /\ \E status \in {"OPEN", "ASSIGNED"} :
          conv' = [status |-> status, inbound |-> now, first |-> Never]
    /\ Enter(c, [pc |-> "message", from |-> "requester", at |-> now, conv |-> conv'])
    /\ UNCHANGED <<messages, alerts, blocked, now, sweep>>

(* Mutant: the clock runs on from the first message of the requester. *)
AnsweredMutant(k, from, at) ==
    CASE from = "requester" -> [k EXCEPT !.status = "WAITING_ON_ADVERTISER"]
      [] from = "tenant" -> [k EXCEPT !.status = "WAITING_ON_REQUESTER",
                                      !.first = IF @ = Never THEN at ELSE @]
      [] OTHER -> k

(* The conversation after a message. *)
Answered(k, from, at) ==
    CASE from = "requester" -> [k EXCEPT !.status = "WAITING_ON_ADVERTISER", !.inbound = at]
      [] from = "tenant" -> [k EXCEPT !.status = "WAITING_ON_REQUESTER",
                                      !.first = IF @ = Never THEN at ELSE @]
      [] OTHER -> k

sendMessage(c) ==
    /\ Exists /\ conv.status \notin Closed /\ ~blocked /\ Room
    /\ \E from \in Sides :
          Enter(c, [pc |-> "message", from |-> from, at |-> now,
                    conv |-> Answered(conv, from, now)])
    /\ UNCHANGED <<conv, messages, alerts, blocked, now, sweep>>

createMessage(c) ==
    /\ CallAt(c, "message")
    /\ messages' = Append(messages, [from |-> call[c].from, at |-> call[c].at,
                                     status |-> "SENT"])
    /\ Go(c, [pc |-> "save", conv |-> call[c].conv])
    /\ UNCHANGED <<conv, alerts, blocked, now, sweep, counters>>

(* assignConversation, recordTyping and updateStatus: they differ in what they *)
(* put on their copy.                                                          *)
Change(c) ==
    /\ Exists
    /\ \/ /\ ~blocked
          /\ \E status \in {IF conv.status = "OPEN" THEN "ASSIGNED" ELSE conv.status,
                            conv.status} :
                Enter(c, [pc |-> "save", conv |-> [conv EXCEPT !.status = status]])
       \/ \E status \in ByHand :
             Enter(c, [pc |-> "save", conv |-> [conv EXCEPT !.status = status],
                       status |-> TRUE])
    /\ UNCHANGED <<conv, messages, alerts, blocked, now, sweep>>

updateConversation(c) ==
    /\ CallAt(c, "save")
    /\ conv' = call[c].conv
    /\ Go(c, IdleCall)
    /\ UNCHANGED <<messages, alerts, blocked, now, sweep, counters>>
-----------------------------------------------------------------------------
(* Receipts: one message's, or those of the thread, each over the copy read.   *)

(* What a reader may mark: not the system's messages, and not its own. *)
Readable(reader) ==
    {i \in DOMAIN messages : messages[i].from \notin {"system", reader}}

Mark(c, kind, ids) ==
    /\ ids # {}
    /\ Enter(c, [pc |-> "receipts", kind |-> kind,
                copy |-> [i \in ids |-> messages[i].status]])
    /\ UNCHANGED <<conv, messages, alerts, blocked, now, sweep>>

markThreadDelivered(c) ==
    Mark(c, "DELIVERED", {i \in DOMAIN messages : messages[i].status = "SENT"})
markThreadRead(c) == \E reader \in {"requester", "tenant"} : Mark(c, "READ", Readable(reader))
markDelivered(c) == \E i \in DOMAIN messages : Mark(c, "DELIVERED", {i})
markRead(c) ==
    \E reader \in {"requester", "tenant"} : \E i \in Readable(reader) : Mark(c, "READ", {i})

(* The messages are marked in the order in which they were sent. *)
updateMessage(c) ==
    /\ CallAt(c, "receipts")
    /\ LET copy == call[c].copy
           i == CHOOSE i \in DOMAIN copy : \A j \in DOMAIN copy : i <= j
           left == DOMAIN copy \ {i}
       IN  /\ messages' = [messages EXCEPT ![i].status = Receipts(call[c].kind, copy[i])]
           /\ Go(c, IF left = {} THEN IdleCall
                    ELSE [call[c] EXCEPT !.copy = [j \in left |-> copy[j]]])
    /\ UNCHANGED <<conv, alerts, blocked, now, sweep, counters>>
-----------------------------------------------------------------------------
(* The SLA sweep.                                                              *)

(* runSlaChecks lists the conversations and the blocks, and decides by them    *)
(* and by the date it is given; a run that finds nothing due does nothing.     *)
runSlaChecksAt(s, checkedAt) ==
    /\ SweepAt(s, "idle")
    /\ Exists /\ ~blocked /\ Decision(conv, checkedAt) # "none"
    /\ Start
    /\ SetSweep(s, [pc |-> "check", checkedAt |-> checkedAt,
                    alert |-> [type |-> Decision(conv, checkedAt), due |-> dueAt(conv)]])
    /\ UNCHANGED <<conv, messages, alerts, blocked, now, call>>

runSlaChecks(s) == runSlaChecksAt(s, now)                      \* the scheduler's runs
runSlaChecksDated(s) ==                                        \* tenants' own (input.now)
    \E off \in SlaOffsets : runSlaChecksAt(s, now + off)

(* Mutant: an alert of the kind is enough, whenever it was due. *)
hasSlaAlertMutant(type, due) == \E i \in DOMAIN alerts : alerts[i].type = type

hasSlaAlert(type, due) ==
    \E i \in DOMAIN alerts : alerts[i].type = type /\ alerts[i].due = due

Check(s) ==
    /\ SweepAt(s, "check")
    /\ LET alert == sweep[s].alert IN
       SetSweep(s, IF hasSlaAlert(alert.type, alert.due) THEN IdleCall
                   ELSE [pc |-> "alert", checkedAt |-> sweep[s].checkedAt, alert |-> alert])
    /\ UNCHANGED <<conv, messages, alerts, blocked, now, call, counters>>

(* rememberSlaAlert does nothing: the notification is what is remembered. *)
createNotification(s) ==
    /\ SweepAt(s, "alert")
    /\ alerts' = Append(alerts, sweep[s].alert)
    /\ SetSweep(s, IdleCall)
    /\ UNCHANGED <<conv, messages, blocked, now, call, counters>>

Die ==
    /\ overlapping + crashes < MaxTrouble
    /\ \/ \E c \in Calls : ~CallAt(c, "idle") /\ Go(c, IdleCall) /\ UNCHANGED sweep
       \/ \E s \in Sweeps : ~SweepAt(s, "idle") /\ SetSweep(s, IdleCall) /\ UNCHANGED call
    /\ crashes' = crashes + 1
    /\ UNCHANGED <<conv, messages, alerts, blocked, now, overlapping>>

BeginCall(c) == \/ createConversation(c) \/ sendMessage(c) \/ Change(c)
                \/ markThreadDelivered(c) \/ markThreadRead(c) \/ markDelivered(c) \/ markRead(c)
EndCall(c) == createMessage(c) \/ updateConversation(c) \/ updateMessage(c)
Sweep(s) == runSlaChecks(s) \/ Check(s) \/ createNotification(s)

ConversationNext == \/ Tick \/ createBlock \/ removeBlock \/ Die
        \/ \E c \in Calls : BeginCall(c) \/ EndCall(c)
        \/ \E s \in Sweeps : Sweep(s) \/ runSlaChecksDated(s)

ConversationSpec == ConversationInit /\ [][ConversationNext]_conversationVars

(* A request that began goes on, and the scheduler starts the sweep again and  *)
(* again (every fifteen minutes, .github/workflows/scheduled-jobs.yml): it     *)
(* does not wait for requests to pause, which only MaxTrouble makes it do.    *)
FairConversationSpec ==
    /\ ConversationSpec
    /\ \A c \in Calls : WF_conversationVars(EndCall(c))
    /\ \A s \in Sweeps : SF_conversationVars(runSlaChecks(s)) /\ WF_conversationVars(Sweep(s))
-----------------------------------------------------------------------------
(* Properties.                                                             *)

ConversationTypeOK ==
    /\ conv = NoConversation \/ conv \in [status : conversationStatuses, inbound : 0..now, first : Never..now]
    /\ \A i \in DOMAIN messages : /\ messages[i].from \in Sides /\ messages[i].at <= now
                                  /\ messages[i].status \in {"SENT", "DELIVERED", "READ"}
    /\ \A i \in DOMAIN alerts : alerts[i].type \in {"SLA_BREACHED", "SLA_DUE_SOON"}

SentAt(side) == {messages[i].at : i \in {j \in DOMAIN messages : messages[j].from = side}}

(* Between operations that came one at a time and finished, the clock of the   *)
(* SLA runs on the messages: from the last one of the requester, until the     *)
(* first one of the tenant (sendMessage stores the message and then its copy   *)
(* of the conversation).                                                       *)
ClockFollowsMessages ==
    AllIdle /\ overlapping = 0 /\ crashes = 0 /\ Exists =>
        /\ conv.inbound \in SentAt("requester")
        /\ \A t \in SentAt("requester") : t <= conv.inbound
        /\ IF SentAt("tenant") = {} THEN conv.first = Never
           ELSE conv.first \in SentAt("tenant") /\ \A t \in SentAt("tenant") : conv.first <= t

(* Nobody is warned twice of one answer, of sweeps that come one at a time,    *)
(* even if some of them die, and whatever dates they were given.               *)
WarnedOnce ==
    overlapping = 0 => \A i, j \in DOMAIN alerts : i # j => alerts[i] # alerts[j]

ConversationAgrees == ClockFollowsMessages /\ WarnedOnce

(* However operations overlap, a warning of an answer overdue comes after that *)
(* answer was due, but from checks that are still dated ahead of the clock.    *)
NoFalseAlarm ==
    [][\A s \in Sweeps :
          createNotification(s) /\ sweep[s].alert.type = "SLA_BREACHED" =>
              now > sweep[s].alert.due \/ sweep[s].checkedAt > now]_conversationVars

Rank(status) == CASE status = "SENT" -> 1 [] status = "DELIVERED" -> 2 [] status = "READ" -> 3

(* Operations that come one at a time undo nothing: a receipt never goes back, *)
(* and a conversation that was closed is opened by a change of its status only.*)
NothingUndone ==
    [][overlapping' = 0 =>
          /\ \A i \in DOMAIN messages : Rank(messages[i].status) <= Rank(messages'[i].status)
          /\ conv.status \in Closed /\ conv'.status \notin Closed =>
                \E c \in Calls : updateConversation(c) /\ "status" \in DOMAIN call[c]]_conversationVars

Warned(due) == \E i \in DOMAIN alerts : alerts[i] = [type |-> "SLA_BREACHED", due |-> due]

Overdue(due) == Exists /\ Decision(conv, now) = "SLA_BREACHED" /\ ~blocked /\ dueAt(conv) = due

(* An answer that stays overdue is warned of in the end, whatever sweeps and   *)
(* requests died or overlapped before (hasSlaAlert finds the notification, so  *)
(* that a sweep that died without it is made good by the next).                *)
OverdueIsWarned ==
    \A due \in 0..(MaxTime + SlaTicks) :
        Overdue(due) ~> (~Overdue(due) \/ Warned(due))

(* The clock and the warnings agree with the messages, and nothing is undone.  *)
ConversationHolds == []ConversationAgrees /\ NoFalseAlarm /\ NothingUndone
=============================================================================
