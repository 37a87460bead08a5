----------------------------- MODULE MediaReview -----------------------------
(***************************************************************************)
(* Moderators at the review cases that bad media opens (MediaPipeline):     *)
(* who decides, with what confirmation, which reporting playbook goes on    *)
(* record, and what the audit says.                                         *)
(*                                                                         *)
(* An operation reads the case and checks it, awaits the moderator's access *)
(* and the tenants' countries, writes where the case is still open (or      *)
(* dismissed), reads the case again and puts that on the audit.  Others may *)
(* come in between, and the process may die.  The clock counts days.        *)
(***************************************************************************)
EXTENDS Integers, Sequences, FiniteSets

CONSTANTS
    ReviewCases,       \* review cases
    Opened,            \* case -> [job, about, country]: its job type, what its reason names
    Reviewers,         \* moderators with a session
    Reach,             \* moderator -> countries of their assignment
    MaxReviews,        \* bound on the operations
    MaxReviewOverlaps, \* bound on the operations begun during another
    MaxDeaths,         \* bound on the operations that a process dies in
    MaxDay             \* bound on the clock

ASSUME ReviewAssumption ==
    IsFiniteSet(ReviewCases) /\ IsFiniteSet(Reviewers) /\ "nobody" \notin Reviewers

approvedMediaEscalationCountries == {"KE"}
mediaReviewResolutions == {"CONFIRMED_BLOCK", "RESTORED", "ESCALATED", "DISMISSED"}

VARIABLES
    case,   \* the MediaReviewCases
    audit,  \* per case, the entries that name a decision, oldest first
    review, \* per moderator: the operation in progress
    tally,  \* how many operations began, began during another, and died
    day

reviewVars == <<case, audit, review, tally, day>>

reviewCaseSeverity(c) ==
    CASE Opened[c].job = "MALWARE_SCAN" -> "CRITICAL"
      [] Opened[c].job = "CONTENT_MODERATION" -> "HIGH"
      [] OTHER -> "MEDIUM"
Grave(c) == reviewCaseSeverity(c) \in {"HIGH", "CRITICAL"}

(* When the case should be decided, and whether that is over.              *)
mediaReviewSlaDays(c) ==
    CASE reviewCaseSeverity(c) = "CRITICAL" -> 1 [] reviewCaseSeverity(c) = "HIGH" -> 3 [] OTHER -> 7
dueAt(c) == case[c].openedAt + mediaReviewSlaDays(c)
overdue(c) == day > dueAt(c)

(* The open cases shown to a moderator: the newest ones, cut to the limit  *)
(* before those of other countries are left out; in any order, where they  *)
(* opened together.                                                        *)
Pages(limit) ==
    LET open == {c \in ReviewCases : case[c].status = "OPEN"}
    IN  {page \in SUBSET open :
            /\ Cardinality(page) = IF Cardinality(open) < limit THEN Cardinality(open) ELSE limit
            /\ \A c \in page, d \in open \ page : case[c].openedAt >= case[d].openedAt}
listCases(m, page, overdueOnly) ==
    {c \in page : Opened[c].country \in Reach[m] /\ (overdueOnly => overdue(c))}

mediaEscalationRequiresPlaybook(resolution, c) ==
    resolution = "ESCALATED" \/ (resolution = "CONFIRMED_BLOCK" /\ Grave(c))

classifyEscalationKind(c) ==
    CASE Opened[c].about = "child" -> "CHILD_SAFETY"
      [] Opened[c].about # "child" /\ (Opened[c].job = "MALWARE_SCAN" \/ Opened[c].about = "malware") ->
            "CYBER_INCIDENT"
      [] Opened[c].about = "other" /\ Opened[c].job = "CONTENT_MODERATION" -> "CONTENT_ABUSE"
      [] OTHER -> "INTERNAL"

channelsForKind(kind) ==
    {"INTERNAL_LEGAL_HOLD"} \cup
        CASE kind = "CHILD_SAFETY" -> {"NCMEC_CYBERTIPLINE", "KE_CIRT_CHILD_RELATED", "HOSTING_ABUSE"}
          [] kind = "CYBER_INCIDENT" -> {"KE_CIRT_INCIDENT", "HOSTING_ABUSE"}
          [] kind = "CONTENT_ABUSE" -> {"KE_CIRT_INCIDENT"}
          [] OTHER -> {}

(* The playbook of a decision, if the country has one.                     *)
resolveMediaEscalationPlaybook(c, now) ==
    LET kind == classifyEscalationKind(c)
        reportDays == CASE kind = "CONTENT_ABUSE" -> 3 [] kind = "INTERNAL" -> 7 [] OTHER -> 1
        holdDays == CASE kind = "CHILD_SAFETY" -> 365 [] kind = "INTERNAL" -> 30 [] OTHER -> 90
    IN  [kind |-> kind, channels |-> channelsForKind(kind),
         reportDueAt |-> now + reportDays, legalHoldUntil |-> now + holdDays]
NoPlaybook == [kind |-> "none", channels |-> {}, reportDueAt |-> 0, legalHoldUntil |-> 0]

mediaReviewRequiresMistakenClassification(resolution, c) ==
    resolution \in {"RESTORED", "DISMISSED"} /\ Grave(c)

(* Mutant: the confirmation is enough, without a note. *)
evaluateMediaReviewResolutionMutant(input, c) ==
    mediaReviewRequiresMistakenClassification(input.resolution, c) => input.mistaken

evaluateMediaReviewResolution(input, c) ==
    mediaReviewRequiresMistakenClassification(input.resolution, c) => input.mistaken /\ input.notes

statusForResolution(resolution) ==
    IF resolution \in {"ESCALATED", "DISMISSED"} THEN resolution ELSE "RESOLVED"
-----------------------------------------------------------------------------
NoInput == [resolution |-> "none", notes |-> FALSE, playbook |-> NoPlaybook, to |-> "nobody"]
NoReview == [op |-> "none", case |-> "none", pc |-> "idle", asked |-> NoInput, opening |-> 0]

(* The publisher has opened the cases; a case belongs to a tenant, whose   *)
(* country does not change.                                                *)
ReviewInit ==
    /\ case = [c \in ReviewCases |->
                 [status |-> "OPEN", openedAt |-> 0, resolution |-> "none", by |-> "nobody",
                  notes |-> "nobody", escalation |-> NoPlaybook, assignedTo |-> "nobody",
                  openings |-> 1]]
    /\ audit = [c \in ReviewCases |-> <<>>]
    /\ review = [m \in Reviewers |-> NoReview]
    /\ tally = [calls |-> 0, overlaps |-> 0, deaths |-> 0]
    /\ day = 0

(* An operation begins, unless it is refused: the status it found, the     *)
(* gate of a decision, access to the country, or no playbook for it.       *)
BeginReview(m, c, op, asked) ==
    /\ review[m] = NoReview /\ tally.calls < MaxReviews
    /\ LET overlap == \E n \in Reviewers : review[n] # NoReview
       IN  /\ overlap => tally.overlaps < MaxReviewOverlaps
           /\ tally' = [tally EXCEPT !.calls = @ + 1, !.overlaps = IF overlap THEN @ + 1 ELSE @]
    /\ Opened[c].country \in Reach[m]
    /\ review' = [review EXCEPT ![m] =
                   [op |-> op, case |-> c, pc |-> "write", asked |-> asked, opening |-> 0]]
    /\ UNCHANGED <<case, audit, day>>

playbookForResolution(resolution, c) ==
    IF mediaEscalationRequiresPlaybook(resolution, c) THEN resolveMediaEscalationPlaybook(c, day)
    ELSE NoPlaybook

resolveCase(m, c) ==
    /\ case[c].status = "OPEN"
    /\ \E input \in [resolution : mediaReviewResolutions, mistaken : BOOLEAN, notes : BOOLEAN] :
          /\ evaluateMediaReviewResolution(input, c)
          /\ mediaEscalationRequiresPlaybook(input.resolution, c) =>
                Opened[c].country \in approvedMediaEscalationCountries
          /\ BeginReview(m, c, "resolve",
                [NoInput EXCEPT !.resolution = input.resolution, !.notes = input.notes,
                                !.playbook = playbookForResolution(input.resolution, c)])

assignCase(m, c) ==
    /\ case[c].status = "OPEN"
    /\ \E n \in Reviewers : BeginReview(m, c, "assign", [NoInput EXCEPT !.to = n])

canReopenMediaReviewCase(status) == status = "DISMISSED"
reopenCase(m, c) ==
    /\ canReopenMediaReviewCase(case[c].status)
    /\ BeginReview(m, c, "reopen", NoInput)

ReviewAt(m, op, pc) == review[m].op = op /\ review[m].pc = pc
Written(m, c, is) ==
    /\ case' = [case EXCEPT ![c] = is]
    /\ review' = [review EXCEPT ![m] = [@ EXCEPT !.pc = "audit", !.opening = is.openings]]
Refuse(m) == review' = [review EXCEPT ![m] = NoReview] /\ UNCHANGED case

(* Mutant: the write does not ask whether the case is still open. *)
writeResolutionMutant(m) ==
    /\ ReviewAt(m, "resolve", "write")
    /\ LET o == review[m] was == case[o.case]
       IN  Written(m, o.case, [was EXCEPT
                     !.status = statusForResolution(o.asked.resolution),
                     !.resolution = o.asked.resolution, !.by = m,
                     !.notes = IF o.asked.notes THEN m ELSE @, !.escalation = o.asked.playbook])
    /\ UNCHANGED <<audit, tally, day>>

(* The database keeps the notes of before where none are given.            *)
writeResolution(m) ==
    /\ ReviewAt(m, "resolve", "write")
    /\ LET o == review[m] was == case[o.case]
       IN  IF was.status = "OPEN"
           THEN Written(m, o.case, [was EXCEPT
                     !.status = statusForResolution(o.asked.resolution),
                     !.resolution = o.asked.resolution, !.by = m,
                     !.notes = IF o.asked.notes THEN m ELSE @, !.escalation = o.asked.playbook])
           ELSE Refuse(m)
    /\ UNCHANGED <<audit, tally, day>>

writeAssignment(m) ==
    /\ ReviewAt(m, "assign", "write")
    /\ LET o == review[m] was == case[o.case]
       IN  IF was.status = "OPEN" THEN Written(m, o.case, [was EXCEPT !.assignedTo = o.asked.to])
           ELSE Refuse(m)
    /\ UNCHANGED <<audit, tally, day>>

(* Mutant: the decision of before stays. *)
writeReopeningMutant(m) ==
    /\ ReviewAt(m, "reopen", "write")
    /\ LET o == review[m] was == case[o.case]
       IN  IF was.status = "DISMISSED"
           THEN Written(m, o.case, [was EXCEPT !.status = "OPEN", !.openings = @ + 1])
           ELSE Refuse(m)
    /\ UNCHANGED <<audit, tally, day>>

writeReopening(m) ==
    /\ ReviewAt(m, "reopen", "write")
    /\ LET o == review[m] was == case[o.case]
       IN  IF was.status = "DISMISSED"
           THEN Written(m, o.case, [was EXCEPT !.status = "OPEN", !.resolution = "none", !.by = "nobody",
                                               !.openings = @ + 1])
           ELSE Refuse(m)
    /\ UNCHANGED <<audit, tally, day>>

(* The audit names what a second read of the case says: the resolution it  *)
(* has by then, or that of the call if it has none.                        *)
recordTenantAudit(m) ==
    /\ review[m].pc = "audit"
    /\ LET o == review[m] is == case[o.case]
           entry == [by |-> m, meant |-> o.asked.resolution, escalation |-> is.escalation,
                     resolution |-> IF is.resolution = "none" THEN o.asked.resolution ELSE is.resolution,
                     opening |-> o.opening, read |-> is.openings]
       IN  audit' = IF o.op = "resolve" THEN [audit EXCEPT ![o.case] = Append(@, entry)] ELSE audit
    /\ review' = [review EXCEPT ![m] = NoReview]
    /\ UNCHANGED <<case, tally, day>>

ModeratorDies(m) ==
    /\ review[m] # NoReview /\ tally.deaths < MaxDeaths
    /\ review' = [review EXCEPT ![m] = NoReview]
    /\ tally' = [tally EXCEPT !.deaths = @ + 1]
    /\ UNCHANGED <<case, audit, day>>

Tick == day < MaxDay /\ day' = day + 1 /\ UNCHANGED <<case, audit, review, tally>>

ReviewNext ==
    \/ \E m \in Reviewers, c \in ReviewCases :
          resolveCase(m, c) \/ assignCase(m, c) \/ reopenCase(m, c)
    \/ \E m \in Reviewers :
          \/ writeResolution(m) \/ writeAssignment(m) \/ writeReopening(m)
          \/ recordTenantAudit(m) \/ ModeratorDies(m)
    \/ Tick

ReviewSpec == ReviewInit /\ [][ReviewNext]_reviewVars
-----------------------------------------------------------------------------
(* Properties.                                                             *)

(* A playbook is on record exactly if the decision the case has demands it, *)
(* in a country with an approved one, and the media is held until after    *)
(* its report is due: an open case has none, a reopened one included, and  *)
(* a decision that was overtaken leaves none.                              *)
PlaybookOnRecord ==
    \A c \in ReviewCases :
        LET wanted == case[c].status # "OPEN" /\ mediaEscalationRequiresPlaybook(case[c].resolution, c)
        IN  /\ (case[c].escalation # NoPlaybook) = wanted
            /\ wanted => /\ Opened[c].country \in approvedMediaEscalationCountries
                         /\ case[c].escalation.kind # "none"
                         /\ case[c].escalation.legalHoldUntil > case[c].escalation.reportDueAt

(* A case has a decision exactly while it is not open, one by somebody who *)
(* may decide there; a grave one that is given up has their own note, not  *)
(* one that an earlier decision left.                                      *)
DecisionIsOwn ==
    \A c \in ReviewCases :
        /\ (case[c].status = "OPEN") = (case[c].by = "nobody")
        /\ (case[c].status = "OPEN") = (case[c].resolution = "none")
        /\ case[c].by # "nobody" => Opened[c].country \in Reach[case[c].by]
        /\ mediaReviewRequiresMistakenClassification(case[c].resolution, c) => case[c].notes = case[c].by

(* Of moderators that race only one decides: a case has no more decisions  *)
(* on the audit than it was opened, and all of them, unless somebody died; *)
(* each names what was decided, unless the case was opened again before    *)
(* the second read.                                                        *)
OneDecision ==
    \A c \in ReviewCases :
        LET pending == {m \in Reviewers : ReviewAt(m, "resolve", "audit") /\ review[m].case = c}
            decided == case[c].openings - IF case[c].status = "OPEN" THEN 1 ELSE 0
        IN  /\ Len(audit[c]) + Cardinality(pending) <= decided
            /\ tally.deaths = 0 => Len(audit[c]) + Cardinality(pending) = decided
            /\ \A i \in DOMAIN audit[c] :
                  LET entry == audit[c][i]
                  IN  entry.read = entry.opening =>
                         /\ entry.resolution = entry.meant
                         /\ (entry.escalation # NoPlaybook) = mediaEscalationRequiresPlaybook(entry.meant, c)

(* Moderators are shown open cases of their countries, and together every  *)
(* overdue one that somebody may decide, if the limit is no less than the  *)
(* cases that are open: one that was opened again is due since it was      *)
(* opened first.                                                           *)
OverdueIsShown ==
    \A limit \in 1..Cardinality(ReviewCases), c \in ReviewCases, m \in Reviewers :
        /\ \A page \in Pages(limit) : c \in listCases(m, page, TRUE) =>
              case[c].status = "OPEN" /\ Opened[c].country \in Reach[m]
        /\ /\ Cardinality({d \in ReviewCases : case[d].status = "OPEN"}) <= limit
           /\ case[c].status = "OPEN" /\ Opened[c].country \in Reach[m]
           /\ day > mediaReviewSlaDays(c)
           => \A page \in Pages(limit) : c \in listCases(m, page, TRUE)

(* Once a case is decided it stays so, but for one that is dismissed, which *)
(* may only be opened again; nobody is assigned to it any more.            *)
DecidedStays ==
    [][\A c \in ReviewCases :
          case[c].status # "OPEN" /\ case'[c] # case[c] =>
              /\ case[c].status = "DISMISSED" /\ case'[c].status = "OPEN"
              /\ case'[c].assignedTo = case[c].assignedTo /\ case'[c].openedAt = case[c].openedAt]_reviewVars

ReviewsHold == [](PlaybookOnRecord /\ DecisionIsOwn /\ OneDecision /\ OverdueIsShown) /\ DecidedStays
=============================================================================
