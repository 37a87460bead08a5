---------------------------- MODULE MCAuthSessions ----------------------------
(* Small instances of the authentication: a behaviour is about one user's      *)
(* sessions or about who belongs to two tenants (focus).  Calls, people and    *)
(* tenants are interchangeable.                                                *)
EXTENDS AuthSessions, TLC

CONSTANTS People, Tenants, Roles, InviteLife, MaxClock, MaxInvites, MaxReleases

VARIABLES focus,
          accounts, memberships, invites, terms, issued, release, clock, request

M == INSTANCE TenantMembers

sessionVars == <<user, sessions, mfa, challenges, now, call, history>>
memberVars == <<accounts, memberships, invites, terms, issued, release, clock, request>>

AuthInit == focus \in {"sessions", "members"} /\ Init /\ M!Init

AuthNext ==
    /\ UNCHANGED focus
    /\ \/ focus = "sessions" /\ Next /\ UNCHANGED memberVars
       \/ focus = "members" /\ M!Next /\ UNCHANGED sessionVars

AuthSpec == AuthInit /\ [][AuthNext]_<<focus, sessionVars, memberVars, overlaps, faults>>

(* Who belongs to a tenant was invited or registered it, and accepted the terms. *)
MembersHold == M!MembersHold

Symmetry == Permutations(Calls) \cup Permutations(People) \cup Permutations(Tenants)
=============================================================================
