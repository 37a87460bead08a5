---------------------------- MODULE TenantMembers ----------------------------
(***************************************************************************)
(* Who belongs to which tenant (auth.service.ts): an owner registers with  *)
(* a tenant and invites others; an invite is accepted by a new account or  *)
(* by one that exists; each membership comes with the acceptance of the    *)
(* terms, which later releases ask for again.                              *)
(*                                                                         *)
(* An invite is written as accepted before the membership is made, and     *)
(* whether an account exists was read before both: only the unique keys of *)
(* the rows stand between two requests.                                    *)
(***************************************************************************)
EXTENDS Integers, Sequences, FiniteSets

CONSTANTS
    People,      \* persons, each with an email
    Tenants,     \* the ids tenants may get
    Roles,       \* tenantAccessRoles
    Calls,       \* requests that may be in progress together
    InviteLife,  \* TENANT_INVITE_TTL_MS, in clock ticks
    MaxClock, MaxInvites,
    MaxReleases, \* bound on the releases of policies
    MaxTrouble   \* bound on overlaps and faults together

VARIABLES
    accounts,    \* the persons who have a User row
    memberships, \* the TenantMembership rows, oldest first
    invites,     \* the TenantInvite rows
    terms,       \* the TermsAcceptanceEvidence rows, oldest first
    issued,      \* the sessions issued: to whom, and for which membership
    release,     \* activePolicyVersions: the release that is running
    clock,
    request,     \* per request: where it is, and its locals
    overlaps,    \* requests begun so far while another was in progress
    faults       \* requests that died so far

vars == <<accounts, memberships, invites, terms, issued, release, clock, request, overlaps, faults>>

tenantInviteRoles == Roles \ {"OWNER"}

Idle == [pc |-> "idle"]
IsMember(p, t) == \E i \in DOMAIN memberships : memberships[i].user = p /\ memberships[i].tenant = t
TenantExists(t) == \E i \in DOMAIN memberships : memberships[i].tenant = t

(* findFirstMembershipForUser: the oldest. *)
FirstMembership(p) ==
    memberships[CHOOSE i \in DOMAIN memberships :
                   /\ memberships[i].user = p
                   /\ \A j \in 1..(i - 1) : memberships[j].user # p]

(* findTermsAcceptance takes the latest, which is that of the last release. *)
hasCurrentTermsAcceptance(p, t) ==
    \E i \in DOMAIN terms : terms[i] = [user |-> p, tenant |-> t, release |-> release]
-----------------------------------------------------------------------------
Init ==
    /\ accounts = {} /\ memberships = <<>> /\ invites = <<>> /\ terms = <<>>
    /\ issued = {}
    /\ release = 1 /\ clock = 0
    /\ request = [c \in Calls |-> Idle]
    /\ overlaps = 0 /\ faults = 0

Quiet == \A c \in Calls : request[c].pc = "idle"
Begin(c) == /\ request[c].pc = "idle"
            /\ IF Quiet THEN UNCHANGED overlaps
               ELSE overlaps + faults < MaxTrouble /\ overlaps' = overlaps + 1
            /\ UNCHANGED faults
At(c, pc) == request[c].pc = pc
Go(c, k) == request' = [request EXCEPT ![c] = k]
rows == <<accounts, memberships, invites, terms>>

Tick == /\ clock < MaxClock
        /\ clock' = clock + 1
        /\ UNCHANGED <<rows, issued, release, request, overlaps, faults>>

(* A release changes the policies' versions. *)
Release == /\ release < MaxReleases
           /\ release' = release + 1
           /\ UNCHANGED <<rows, issued, clock, request, overlaps, faults>>

(* What a request is to make for a person: the membership, its evidence of *)
(* the terms (buildTermsAcceptanceEvidence; none is made if they are        *)
(* refused), for an account that exists or not, and the invite it comes by. *)
Joining(pc, by, m, existing, invite) ==
    [pc |-> pc, by |-> by, new |-> m, existing |-> existing, invite |-> invite,
     evidence |-> [user |-> m.user, tenant |-> m.tenant, release |-> release]]
-----------------------------------------------------------------------------
(* registerTenantOwner: refused if the email is taken. *)
registerTenantOwner(c) ==
    /\ Begin(c)
    /\ \E p \in People \ accounts, t \in Tenants :
          /\ ~TenantExists(t)
          /\ \A d \in Calls : request[d].pc # "idle" => request[d].new.tenant # t
          /\ Go(c, Joining("create", p, [user |-> p, tenant |-> t, role |-> "OWNER"], FALSE, 0))
    /\ UNCHANGED <<rows, issued, release, clock>>

(* createOwnerRegistration, createInvitedTenantUser: account, membership    *)
(* and evidence in one transaction, which throws if the email has got an    *)
(* account in between; createTenantMembershipWithTerms, which throws if     *)
(* the person has become a member.                                          *)
createMembership(c) ==
    /\ At(c, "create")
    /\ LET k == request[c] IN
          IF IF k.existing THEN IsMember(k.new.user, k.new.tenant) ELSE k.new.user \in accounts
          THEN Go(c, Idle) /\ UNCHANGED <<accounts, memberships, terms>>
          ELSE /\ accounts' = accounts \cup {k.new.user}
               /\ memberships' = Append(memberships, k.new)
               /\ terms' = Append(terms, k.evidence)
               /\ Go(c, [pc |-> "session", by |-> k.by, new |-> k.new])
    /\ UNCHANGED <<invites, issued, release, clock, overlaps, faults>>

(* createSession *)
createSession(c) ==
    /\ At(c, "session")
    /\ issued' = issued \cup {[to |-> request[c].by, for |-> request[c].new]}
    /\ Go(c, Idle)
    /\ UNCHANGED <<rows, release, clock, overlaps, faults>>

(* login goes to the person's first membership. *)
login(c) ==
    /\ Begin(c)
    /\ \E p \in accounts : Go(c, [pc |-> "session", by |-> p, new |-> FirstMembership(p)])
    /\ UNCHANGED <<rows, issued, release, clock>>
-----------------------------------------------------------------------------
(* createTenantInvite: by an owner's session, to whom is no member yet. *)
createTenantInvite(c) ==
    /\ Begin(c)
    /\ Len(invites) < MaxInvites
    /\ \E s \in issued, p \in People, role \in tenantInviteRoles :
          /\ s.for.role = "OWNER"
          /\ ~IsMember(p, s.for.tenant)
          /\ Go(c, [pc |-> "invite", by |-> s.to,
                    new |-> [user |-> p, tenant |-> s.for.tenant, role |-> role]])
    /\ UNCHANGED <<rows, issued, release, clock>>

createTenantInviteRecord(c) ==
    /\ At(c, "invite")
    /\ Len(invites) < MaxInvites
    /\ invites' = Append(invites, [offer |-> request[c].new, by |-> request[c].by,
                                   accepted |-> FALSE, expires |-> clock + InviteLife])
    /\ Go(c, Idle)
    /\ UNCHANGED <<accounts, memberships, terms, issued, release, clock, overlaps, faults>>

(* requireTenantInvite: an invite has no other end than these, as nothing  *)
(* revokes one.  It was mailed to the person it is for, who may pass it on.*)
requireTenantInvite(c) ==
    /\ Begin(c)
    /\ \E i \in DOMAIN invites, by \in People :
          /\ ~invites[i].accepted /\ clock < invites[i].expires
          /\ Go(c, [pc |-> "accept", by |-> by, invite |-> i, new |-> invites[i].offer])
    /\ UNCHANGED <<rows, issued, release, clock>>

(* Mutant: any session will do. *)
acceptTenantInviteMutant(c) ==
    /\ At(c, "accept")
    /\ LET k == request[c] p == k.new.user IN
          IF p \in accounts /\ ~((\E s \in issued : s.to = k.by) /\ ~IsMember(p, k.new.tenant))
          THEN Go(c, Idle)
          ELSE Go(c, Joining("mark", IF p \in accounts THEN k.by ELSE p, k.new, p \in accounts, k.invite))
    /\ UNCHANGED <<rows, issued, release, clock, overlaps, faults>>

(* acceptTenantInvite: an account that exists is to be signed in, and not  *)
(* yet a member; who has none gets one, and is the person of the email.    *)
acceptTenantInvite(c) ==
    /\ At(c, "accept")
    /\ LET k == request[c] p == k.new.user IN
          IF p \in accounts /\ ~((\E s \in issued : s.to = k.by /\ s.for.user = p)
                                 /\ ~IsMember(p, k.new.tenant))
          THEN Go(c, Idle)
          ELSE Go(c, Joining("mark", IF p \in accounts THEN k.by ELSE p, k.new, p \in accounts, k.invite))
    /\ UNCHANGED <<rows, issued, release, clock, overlaps, faults>>

(* updateTenantInvite, before the membership is made. *)
updateTenantInvite(c) ==
    /\ At(c, "mark")
    /\ invites' = [invites EXCEPT ![request[c].invite].accepted = TRUE]
    /\ Go(c, [request[c] EXCEPT !.pc = "create"])
    /\ UNCHANGED <<accounts, memberships, terms, issued, release, clock, overlaps, faults>>
-----------------------------------------------------------------------------
(* acceptCurrentTerms: nothing is written if the latest evidence is of the *)
(* release that runs.                                                      *)
acceptCurrentTerms(c) ==
    /\ Begin(c)
    /\ \E s \in issued :
          /\ ~hasCurrentTermsAcceptance(s.for.user, s.for.tenant)
          /\ Go(c, Joining("terms", s.to, s.for, TRUE, 0))
    /\ UNCHANGED <<rows, issued, release, clock>>

createTermsAcceptance(c) ==
    /\ At(c, "terms")
    /\ terms' = Append(terms, request[c].evidence)
    /\ Go(c, Idle)
    /\ UNCHANGED <<accounts, memberships, invites, issued, release, clock, overlaps, faults>>
-----------------------------------------------------------------------------
Crash(c) ==
    /\ ~At(c, "idle") /\ overlaps + faults < MaxTrouble
    /\ faults' = faults + 1
    /\ Go(c, Idle)
    /\ UNCHANGED <<rows, issued, release, clock, overlaps>>

Next ==
    \/ Tick \/ Release
    \/ \E c \in Calls :
          \/ registerTenantOwner(c) \/ createMembership(c) \/ createSession(c) \/ login(c)
          \/ createTenantInvite(c) \/ createTenantInviteRecord(c)
          \/ requireTenantInvite(c) \/ acceptTenantInvite(c) \/ updateTenantInvite(c)
          \/ acceptCurrentTerms(c) \/ createTermsAcceptance(c) \/ Crash(c)

Spec == Init /\ [][Next]_vars
-----------------------------------------------------------------------------
(* Properties. *)

(* In whatever order requests overlap and die: a tenant has one owner, who *)
(* registered it; every other member was offered that role by the owner    *)
(* and accepted; nobody is a member twice; each accepted the terms.        *)
MembersAreInvited ==
    \A i \in DOMAIN memberships :
        LET m == memberships[i] IN
        /\ m.role # "OWNER" =>
              \E j \in DOMAIN invites :
                 /\ invites[j].offer = m /\ invites[j].accepted
                 /\ [user |-> invites[j].by, tenant |-> m.tenant, role |-> "OWNER"] \in
                       {memberships[n] : n \in 1..(i - 1)}
        /\ \A j \in DOMAIN memberships : j # i => memberships[j].tenant # m.tenant \/
              (memberships[j].user # m.user /\ ~(m.role = "OWNER" /\ memberships[j].role = "OWNER"))
        /\ \E n \in DOMAIN terms : terms[n].user = m.user /\ terms[n].tenant = m.tenant

(* A session is issued to the person whose membership it is for.           *)
SessionsAreOwn ==
    \A s \in issued : s.to = s.for.user /\ s.for \in {memberships[i] : i \in DOMAIN memberships}

(* An invite that says it is accepted has made a member, unless a request  *)
(* died or two overlapped: two invites that a person accepts at once both  *)
(* find no account, and the second is used up for nothing.                 *)
InvitesAreKept ==
    Quiet /\ overlaps = 0 /\ faults = 0 =>
        \A j \in DOMAIN invites :
            invites[j].accepted => IsMember(invites[j].offer.user, invites[j].offer.tenant)

(* Nobody accepts the terms of a release twice for a tenant, but in        *)
(* requests that overlap.                                                  *)
TermsAcceptedOnce == overlaps = 0 => \A i, j \in DOMAIN terms : i # j => terms[i] # terms[j]

(* Who belongs to a tenant was invited or registered it, once, signs in as *)
(* himself, and accepted the terms.                                        *)
MembersHold == MembersAreInvited /\ SessionsAreOwn /\ InvitesAreKept /\ TermsAcceptedOnce
=============================================================================
