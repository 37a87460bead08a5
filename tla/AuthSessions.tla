----------------------------- MODULE AuthSessions -----------------------------
(* One user's sessions (apps/api/src/modules/auth/auth.service.ts): sign-in by *)
(* password, by a code sent to the phone and by a hosted identity; the second  *)
(* factor; the challenges that reset the password and verify the email; the    *)
(* authenticator and its recovery codes.  Every operation reads rows, decides, *)
(* and writes them in later calls, whole or field by field, so that operations *)
(* that overlap work on copies the others have made old.                       *)
EXTENDS Integers, Sequences, FiniteSets

CONSTANTS
    Calls,        \* requests in progress
    SessionLife, MfaLife, ChallengeLife, \* how long each lives, in clock ticks
    MaxFailed,    \* MFA_MAX_FAILED_ATTEMPTS
    CodesPerSet,  \* how many recovery codes are generated at a time
    MaxTime, MaxSessions, MaxChallenges, MaxCodeSets,
    MaxClosings,  \* closings that deletions may add up to
    MaxUncounted, \* wrong codes for a session that has no challenge to count them
    MaxTrouble    \* bounds; the last one of overlaps and faults together

ASSUME LivesAssumption ==
    /\ SessionLife \in Nat \ {0} /\ MfaLife \in Nat \ {0} /\ ChallengeLife \in Nat \ {0}
    /\ MaxFailed \in Nat \ {0} /\ CodesPerSet \in Nat \ {0}

ASSUME CallsAssumption == IsFiniteSet(Calls)

VARIABLES
    user,       \* the User row
    sessions,   \* the AuthSession rows, with the closings done when each was earned
    mfa,        \* per session: its AuthMfaChallenge row
    challenges, \* the AuthAccountChallenge rows, with how often each was used
    now,
    call,       \* per call: where it is, and the copies it read
    closings,   \* how often the user's sessions were to be closed: resets, deletions
    wrong,      \* per session: the wrong codes that were looked at
    given,      \* the recovery codes last shown to the user
    usedCodes,  \* the recovery codes that passed
    lastStep,   \* the authenticator step that passed last
    reused,     \* did a recovery code pass twice, or a step twice in a row?
    overlaps,   \* calls begun so far while another was in progress
    faults      \* calls that died so far

vars == <<user, sessions, mfa, challenges, now, call, closings, wrong, given,
          usedCodes, lastStep, reused, overlaps, faults>>
history == <<closings, wrong, given, usedCodes, lastStep, reused>>

NoStep == -1
IdleCall == [pc |-> "idle"]
NoChallenge == [open |-> FALSE, expires |-> 0, failed |-> 0]

(* findMfaChallengeBySessionId: a consumed challenge is not found. *)
Found(k) == k.challenge.open

(* requireSession *)
requireSession(s) == ~s.revoked /\ s.expires > now

(* Mutant: the challenge's consumedAt is not looked at. *)
requireAccountChallengeMutant(c, purpose) ==
    c.purpose = purpose /\ c.expires > now

requireAccountChallenge(c, purpose) ==
    c.purpose = purpose /\ ~c.consumed /\ c.expires > now

(* verifyTotpCode: the steps whose codes pass, the last one used excepted. *)
Steps(last) == {s \in {now - 1, now, now + 1} : s >= 0 /\ s # last}

Passed(step) == /\ lastStep' = step
                /\ reused' = (reused \/ step = lastStep)
-----------------------------------------------------------------------------
Init ==
    /\ user = [totp |-> FALSE, pending |-> FALSE, last |-> NoStep, codes |-> {}]
    /\ sessions = <<>> /\ mfa = <<>> /\ challenges = <<>>
    /\ now = 0
    /\ call = [c \in Calls |-> IdleCall]
    /\ closings = 0 /\ wrong = <<>> /\ given = {} /\ usedCodes = {}
    /\ lastStep = NoStep /\ reused = FALSE
    /\ overlaps = 0 /\ faults = 0

Quiet == \A c \in Calls : call[c].pc = "idle"
Begin == /\ IF Quiet THEN UNCHANGED overlaps
            ELSE overlaps + faults < MaxTrouble /\ overlaps' = overlaps + 1
         /\ UNCHANGED faults
counters == <<overlaps, faults>>

CallAt(c, pc) == call[c].pc = pc
Go(c, k) == call' = [call EXCEPT ![c] = k]
Done(c) == Go(c, IdleCall)
Enter(c, k) == CallAt(c, "idle") /\ Begin /\ Go(c, k)

Tick ==
    /\ now < MaxTime
    /\ now' = now + 1
    /\ UNCHANGED <<user, sessions, mfa, challenges, call, history, counters>>
-----------------------------------------------------------------------------
(* Signing in. *)

(* Room for one more session (bound). *)
Room == Len(sessions) + Cardinality({c \in Calls :
            call[c].pc \in {"session", "challenge"}}) < MaxSessions

(* login: the password is the current one; its hash is compared here, the      *)
(* session comes later.                                                        *)
Login(c) ==
    /\ Room
    /\ Enter(c, [pc |-> "session", verified |-> FALSE, since |-> closings])
    /\ UNCHANGED <<user, sessions, mfa, challenges, now, history>>

exchangeHostedIdentity(c) ==
    /\ Room
    /\ Enter(c, [pc |-> "session", verified |-> TRUE, since |-> closings])
    /\ UNCHANGED <<user, sessions, mfa, challenges, now, history>>

createSession(c) ==
    /\ CallAt(c, "session")
    /\ sessions' = Append(sessions,
          [expires |-> now + SessionLife, verified |-> call[c].verified,
           revoked |-> FALSE, since |-> call[c].since])
    /\ mfa' = Append(mfa, NoChallenge)
    /\ wrong' = Append(wrong, 0)
    /\ Go(c, IF call[c].verified THEN IdleCall
             ELSE [pc |-> "mfa", id |-> Len(sessions) + 1])
    /\ UNCHANGED <<user, challenges, now, closings, given, usedCodes, lastStep, reused, counters>>

createMfaChallenge(c) ==
    /\ CallAt(c, "mfa")
    /\ mfa' = [mfa EXCEPT ![call[c].id] =
                  [open |-> TRUE, expires |-> now + MfaLife, failed |-> 0]]
    /\ Done(c)
    /\ UNCHANGED <<user, sessions, challenges, now, history, counters>>
-----------------------------------------------------------------------------
(* Account challenges: a code for the phone, a token to verify the email or to *)
(* reset the password.  The marks that the email and the phone are verified    *)
(* are not tracked.                                                            *)

createAccountChallenge(purpose) ==
    /\ Len(challenges) < MaxChallenges
    /\ challenges' = Append(challenges, [purpose |-> purpose, consumed |-> FALSE,
                                         expires |-> now + ChallengeLife, uses |-> 0])
    /\ UNCHANGED <<user, sessions, mfa, now, call, history, counters>>

(* What follows once the challenge is consumed. *)
Present(c, purpose, then) ==
    /\ \E i \in DOMAIN challenges :
          /\ requireAccountChallenge(challenges[i], purpose)
          /\ Enter(c, [pc |-> "challenge", id |-> i, then |-> then])
    /\ UNCHANGED <<user, sessions, mfa, challenges, now, history>>

verifyPhoneOtp(c) ==
    Room /\ Present(c, "PHONE_LOGIN", [pc |-> "session", verified |-> FALSE, since |-> closings])
confirmEmailVerification(c) == Present(c, "EMAIL_VERIFICATION", IdleCall)
confirmPasswordReset(c) == Present(c, "PASSWORD_RESET", [pc |-> "password"])

updateAccountChallenge(c) ==
    /\ CallAt(c, "challenge")
    /\ challenges' = [challenges EXCEPT ![call[c].id].consumed = TRUE,
                                        ![call[c].id].uses = @ + 1]
    /\ Go(c, call[c].then)
    /\ UNCHANGED <<user, sessions, mfa, now, history, counters>>

updateUserPassword(c) ==
    /\ CallAt(c, "password")
    /\ closings' = closings + 1
    /\ Go(c, [pc |-> "revoke"])
    /\ UNCHANGED <<user, sessions, mfa, challenges, now, wrong, given, usedCodes,
                   lastStep, reused, counters>>

(* Mutant: only the sessions with a second factor are closed. *)
RevokedMutant(s) == IF s.verified THEN [s EXCEPT !.revoked = TRUE] ELSE s

Revoked(s) == [s EXCEPT !.revoked = TRUE]

revokeSessionsForUser(c) ==
    /\ CallAt(c, "revoke")
    /\ sessions' = [i \in DOMAIN sessions |-> Revoked(sessions[i])]
    /\ Done(c)
    /\ UNCHANGED <<user, mfa, challenges, now, history, counters>>

(* The account deletion closes them too, in one call. *)
revokeSessionsForAccountDeletion ==
    /\ closings < MaxClosings
    /\ sessions' = [i \in DOMAIN sessions |-> Revoked(sessions[i])]
    /\ closings' = closings + 1
    /\ Begin
    /\ UNCHANGED <<user, mfa, challenges, now, call, wrong, given, usedCodes, lastStep, reused>>
-----------------------------------------------------------------------------
(* The second factor.                                                          *)

(* verifyMfa reads the session, the user and the challenge. *)
verifyMfa(c) ==
    /\ \E i \in DOMAIN sessions :
          /\ requireSession(sessions[i]) /\ ~sessions[i].verified
          /\ Enter(c, [pc |-> IF user.totp THEN "totp" ELSE "code", id |-> i,
                       session |-> sessions[i], user |-> user, challenge |-> mfa[i]])
    /\ UNCHANGED <<user, sessions, mfa, challenges, now, history>>

(* A challenge that was found and has too many failures. *)
Locked(k) == Found(k) /\ k.challenge.failed >= MaxFailed

Refuse(c) ==
    /\ \/ CallAt(c, "code") /\ (~Found(call[c]) \/ call[c].challenge.expires <= now)
       \/ call[c].pc \in {"code", "totp"} /\ Locked(call[c])
    /\ Done(c)
    /\ UNCHANGED <<user, sessions, mfa, challenges, now, history, counters>>

Open(c) == /\ call[c].pc \in {"code", "totp"}
           /\ ~Locked(call[c])
           /\ CallAt(c, "code") => Found(call[c]) /\ call[c].challenge.expires > now

Failed(challenge) == [challenge EXCEPT !.failed = @ + 1]

(* A wrong code: the copy of the challenge is written back with one more       *)
(* failure, consumedAt and all.                                                *)
WrongCode(c) ==
    /\ Open(c)
    /\ Found(call[c]) \/ wrong[call[c].id] < MaxUncounted
    /\ wrong' = [wrong EXCEPT ![call[c].id] = @ + 1]
    /\ mfa' = IF Found(call[c])
              THEN [mfa EXCEPT ![call[c].id] = Failed(call[c].challenge)]
              ELSE mfa
    /\ Done(c)
    /\ UNCHANGED <<user, sessions, challenges, now, closings, given, usedCodes,
                   lastStep, reused, counters>>

RightCode(c) ==
    /\ Open(c) /\ CallAt(c, "code")
    /\ Go(c, [call[c] EXCEPT !.pc = "consume"])
    /\ UNCHANGED <<user, sessions, mfa, challenges, now, history, counters>>

(* A code of the authenticator: its step is recorded as the last one used. *)
verifyAuthenticatorMfa(c) ==
    /\ Open(c) /\ CallAt(c, "totp")
    /\ \E s \in Steps(call[c].user.last) :
          /\ user' = [user EXCEPT !.last = s]
          /\ Passed(s)
    /\ Go(c, [call[c] EXCEPT !.pc = "consume"])
    /\ UNCHANGED <<sessions, mfa, challenges, now, closings, wrong, given, usedCodes,
                   counters>>

(* A recovery code: the others of the copy are written back. *)
verifyRecoveryCodeMfa(c) ==
    /\ Open(c) /\ CallAt(c, "totp")
    /\ \E code \in call[c].user.codes :
          /\ user' = [user EXCEPT !.codes = call[c].user.codes \ {code}]
          /\ usedCodes' = usedCodes \cup {code}
          /\ reused' = (reused \/ code \in usedCodes)
    /\ Go(c, [call[c] EXCEPT !.pc = "consume"])
    /\ UNCHANGED <<sessions, mfa, challenges, now, closings, wrong, given, lastStep,
                   counters>>

(* completeMfaVerification: the challenge is consumed, if one was found ... *)
MfaConsume(c) ==
    /\ CallAt(c, "consume")
    /\ mfa' = IF Found(call[c])
              THEN [mfa EXCEPT ![call[c].id] = [call[c].challenge EXCEPT !.open = FALSE]]
              ELSE mfa
    /\ Go(c, [call[c] EXCEPT !.pc = "verified"])
    /\ UNCHANGED <<user, sessions, challenges, now, history, counters>>

(* ... and the copy of the session is written back, revokedAt and all. *)
updateSession(c) ==
    /\ CallAt(c, "verified")
    /\ sessions' = [sessions EXCEPT ![call[c].id] =
                       [call[c].session EXCEPT !.verified = TRUE]]
    /\ Done(c)
    /\ UNCHANGED <<user, mfa, challenges, now, history, counters>>
-----------------------------------------------------------------------------
(* The authenticator, for a session with a second factor. *)

Manage(c, pc) ==
    /\ \E i \in DOMAIN sessions : requireSession(sessions[i]) /\ sessions[i].verified
    /\ Enter(c, [pc |-> pc, user |-> user])
    /\ UNCHANGED <<user, sessions, mfa, challenges, now, history>>

enrollTotp(c) == Manage(c, "enroll")

EnrollSave(c) ==
    /\ CallAt(c, "enroll")
    /\ user' = [user EXCEPT !.pending = TRUE]
    /\ Done(c)
    /\ UNCHANGED <<sessions, mfa, challenges, now, history, counters>>

Generation == IF given = {} THEN 1 ELSE (CHOOSE x \in given : TRUE)[1] + 1
NewCodes == {<<Generation, n>> : n \in 1..CodesPerSet}

confirmTotpEnrollment(c) == user.pending /\ Generation <= MaxCodeSets /\ Manage(c, "confirm")

ConfirmSave(c) ==
    /\ CallAt(c, "confirm")
    /\ \E s \in Steps(call[c].user.last) :
          /\ user' = [user EXCEPT !.totp = TRUE, !.pending = FALSE, !.last = s,
                                  !.codes = NewCodes]
          /\ Passed(s)
    /\ given' = NewCodes
    /\ Done(c)
    /\ UNCHANGED <<sessions, mfa, challenges, now, closings, wrong, usedCodes, counters>>

regenerateRecoveryCodes(c) == user.totp /\ Generation <= MaxCodeSets /\ Manage(c, "regenerate")

RegenerateSave(c) ==
    /\ CallAt(c, "regenerate")
    /\ user' = [user EXCEPT !.codes = NewCodes]
    /\ given' = NewCodes
    /\ Done(c)
    /\ UNCHANGED <<sessions, mfa, challenges, now, closings, wrong, usedCodes, lastStep, reused,
                   counters>>
-----------------------------------------------------------------------------
Crash(c) ==
    /\ overlaps + faults < MaxTrouble /\ ~CallAt(c, "idle")
    /\ faults' = faults + 1
    /\ Done(c)
    /\ UNCHANGED <<user, sessions, mfa, challenges, now, history, overlaps>>

SignIn(c) == \/ Login(c) \/ exchangeHostedIdentity(c)
             \/ createSession(c) \/ createMfaChallenge(c)
Challenge(c) == \/ verifyPhoneOtp(c) \/ confirmEmailVerification(c) \/ confirmPasswordReset(c)
                \/ updateAccountChallenge(c) \/ updateUserPassword(c) \/ revokeSessionsForUser(c)
Mfa(c) == \/ verifyMfa(c) \/ Refuse(c) \/ WrongCode(c) \/ RightCode(c)
          \/ verifyAuthenticatorMfa(c) \/ verifyRecoveryCodeMfa(c)
          \/ MfaConsume(c) \/ updateSession(c)
Authenticator(c) == \/ enrollTotp(c) \/ EnrollSave(c) \/ confirmTotpEnrollment(c)
                    \/ ConfirmSave(c) \/ regenerateRecoveryCodes(c) \/ RegenerateSave(c)

Next == \/ Tick \/ revokeSessionsForAccountDeletion
        \/ \E p \in {"PHONE_LOGIN", "EMAIL_VERIFICATION", "PASSWORD_RESET"} :
              createAccountChallenge(p)
        \/ \E c \in Calls : SignIn(c) \/ Challenge(c) \/ Mfa(c) \/ Authenticator(c) \/ Crash(c)

Spec == Init /\ [][Next]_vars
-----------------------------------------------------------------------------
(* Properties.                                                             *)

TypeOK ==
    /\ \A i \in DOMAIN sessions : sessions[i].verified \in BOOLEAN /\ sessions[i].since <= closings
    /\ DOMAIN mfa = DOMAIN sessions /\ DOMAIN wrong = DOMAIN sessions
    /\ \A i \in DOMAIN mfa : mfa[i].failed \in Nat

(* A password reset, or the deletion of the account, leaves no session that    *)
(* was earned before it, and none comes back: of calls that came one at a time *)
(* and all finished.  A sign-in or a second factor that overlaps writes its    *)
(* session after the closing; a reset that dies closes none.                   *)
ResetClosesSessions ==
    overlaps = 0 /\ faults = 0 /\ Quiet =>
        \A i \in DOMAIN sessions : sessions[i].since < closings => sessions[i].revoked

(* What is for one use is used once, of calls that come one at a time, even if *)
(* some of them die: a phone code or a mailed token, a recovery code, and the  *)
(* code that the authenticator showed last; and what was not used is kept.     *)
OneTimeOnce ==
    overlaps = 0 =>
        /\ \A i \in DOMAIN challenges : challenges[i].uses <= 1
        /\ ~reused
        /\ user.codes = given \ usedCodes

(* A session's second factor is guessed at most MaxFailed times, and as many   *)
(* times again for each call that overlaps another, whose stale count may be   *)
(* written over the newer one; unless a call dies and takes the challenge.     *)
GuessesBounded ==
    faults = 0 => \A i \in DOMAIN wrong : wrong[i] <= MaxFailed * (1 + overlaps)

(* Codes do what they are for: once, and not by guessing. *)
CodesHold == OneTimeOnce /\ GuessesBounded
=============================================================================
