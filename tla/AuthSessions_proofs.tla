-------------------------- MODULE AuthSessions_proofs --------------------------
(***************************************************************************)
(* Theorems about one user's sessions and codes, for any number of calls   *)
(* in progress, sessions, challenges and tries; and about memberships and  *)
(* invites (M), for any number of people, tenants and requests.            *)
(***************************************************************************)
EXTENDS MCAuthSessions, FiniteSetTheorems, WellFoundedInduction, TLAPS

(* Rows and calls. *)
Session == [expires : Nat, verified : BOOLEAN, revoked : BOOLEAN, since : Nat]
MfaRow == [open : BOOLEAN, expires : Nat, failed : Nat]
Purposes == {"PHONE_LOGIN", "EMAIL_VERIFICATION", "PASSWORD_RESET"}
ChallengeRow == [purpose : Purposes, consumed : BOOLEAN, expires : Nat, uses : Nat]
Codes == Nat \X Nat
User == [totp : BOOLEAN, pending : BOOLEAN, last : Int, codes : SUBSET Codes]

SigningIn == [pc : {"session"}, verified : BOOLEAN, since : Nat]
After == SigningIn \cup {IdleCall, [pc |-> "password"]}
Opening == [pc : {"mfa"}, id : Nat]
Presenting == [pc : {"challenge"}, id : Nat, then : After]
Verifying == [pc : {"code", "totp", "consume", "verified"}, id : Nat,
              session : Session, user : User, challenge : MfaRow]
Managing == [pc : {"enroll", "confirm", "regenerate"}, user : User]
CallState == After \cup {[pc |-> "revoke"]} \cup Opening \cup Presenting \cup Verifying \cup Managing

RowsTyped ==
    /\ user \in User
    /\ sessions \in Seq(Session) /\ mfa \in Seq(MfaRow) /\ wrong \in Seq(Nat)
    /\ challenges \in Seq(ChallengeRow)
    /\ Len(mfa) = Len(sessions) /\ Len(wrong) = Len(sessions)
    /\ now \in Nat /\ closings \in Nat
    /\ given \in SUBSET Codes /\ usedCodes \in SUBSET Codes
    /\ lastStep \in Int /\ reused \in BOOLEAN
    /\ overlaps \in Nat /\ faults \in Nat

SessionCall == {"mfa", "code", "totp", "consume", "verified"}

Typed ==
    /\ RowsTyped
    /\ call \in [Calls -> CallState]
    /\ \A c \in Calls :
          /\ call[c].pc \in SessionCall => call[c].id \in DOMAIN sessions
          /\ call[c].pc = "challenge" => call[c].id \in DOMAIN challenges

(* What a program counter says of a call's locals. *)
LEMMA Shapes ==
    ASSUME NEW k \in CallState
    PROVE  /\ k.pc = "idle" => k = IdleCall
           /\ k.pc = "session" => k \in SigningIn
           /\ k.pc = "mfa" => k \in Opening
           /\ k.pc = "challenge" => k \in Presenting
           /\ k.pc \in {"code", "totp", "consume", "verified"} => k \in Verifying
           /\ k.pc \in {"enroll", "confirm", "regenerate"} => k \in Managing
  BY DEF CallState, After, IdleCall, SigningIn, Opening, Presenting, Verifying, Managing

(* The sequences of rows: one more, one replaced, all of them changed. *)
LEMMA Appended ==
    ASSUME NEW S, NEW s \in Seq(S), NEW x \in S
    PROVE  /\ Append(s, x) \in Seq(S) /\ Len(Append(s, x)) = Len(s) + 1
           /\ DOMAIN Append(s, x) = DOMAIN s \cup {Len(s) + 1}
           /\ Len(s) + 1 \notin DOMAIN s
           /\ DOMAIN s = 1..Len(s)
           /\ \A i \in DOMAIN s : Append(s, x)[i] = s[i]
           /\ Append(s, x)[Len(s) + 1] = x
  OBVIOUS

LEMMA Replaced ==
    ASSUME NEW S, NEW s \in Seq(S), NEW n \in DOMAIN s, NEW x \in S
    PROVE  /\ [s EXCEPT ![n] = x] \in Seq(S) /\ Len([s EXCEPT ![n] = x]) = Len(s)
           /\ DOMAIN [s EXCEPT ![n] = x] = DOMAIN s
           /\ [s EXCEPT ![n] = x][n] = x
           /\ \A i \in DOMAIN s \ {n} : [s EXCEPT ![n] = x][i] = s[i]
  OBVIOUS

LEMMA AllRevoked ==
    ASSUME NEW s \in Seq(Session), NEW t, t = [i \in DOMAIN s |-> Revoked(s[i])]
    PROVE  /\ t \in Seq(Session) /\ Len(t) = Len(s) /\ DOMAIN t = DOMAIN s
           /\ \A i \in DOMAIN s : t[i].revoked /\ t[i].since = s[i].since /\ t[i].verified = s[i].verified
<1>1. \A i \in DOMAIN s : s[i] \in Session
  OBVIOUS
<1>2. \A i \in DOMAIN s : /\ Revoked(s[i]) \in Session /\ Revoked(s[i]).revoked
                          /\ Revoked(s[i]).since = s[i].since /\ Revoked(s[i]).verified = s[i].verified
  BY <1>1 DEF Session, Revoked
<1>3. t \in [1..Len(s) -> Session]
  BY <1>2
<1>4. t \in Seq(Session) /\ Len(t) = Len(s)
  BY <1>3
<1> QED BY <1>2, <1>4

(* A call that goes on to k leaves the others where they are. *)
LEMMA Goes ==
    ASSUME Typed, NEW c \in Calls, NEW k, Go(c, k)
    PROVE  /\ call'[c] = k /\ \A d \in Calls \ {c} : call'[d] = call[d]
           /\ k \in CallState => call' \in [Calls -> CallState]
  BY DEF Typed, Go

(* Of a step that types the rows and loses none, the call is what is left. *)
LEMMA CallTyped ==
    ASSUME Typed, RowsTyped', NEW c \in Calls, NEW k \in CallState, Go(c, k),
           DOMAIN sessions \subseteq DOMAIN sessions', DOMAIN challenges \subseteq DOMAIN challenges',
           k.pc \in SessionCall => k.id \in DOMAIN sessions',
           k.pc = "challenge" => k.id \in DOMAIN challenges'
    PROVE  Typed'
<1>1. call'[c] = k /\ (\A d \in Calls \ {c} : call'[d] = call[d]) /\ call' \in [Calls -> CallState]
  BY Goes
<1> QED BY <1>1 DEF Typed
-----------------------------------------------------------------------------
LEMMA NowPlus == ASSUME Typed PROVE /\ now + SessionLife \in Nat /\ now + MfaLife \in Nat
                                    /\ now + ChallengeLife \in Nat
  BY LivesAssumption DEF Typed, RowsTyped

(* A call that verifies a session goes on with the copies it has. *)
Moved(k, pc) == [k EXCEPT !.pc = pc]
LEMMA Moves ==
    ASSUME NEW k \in Verifying, NEW pc \in {"consume", "verified"}
    PROVE  /\ Moved(k, pc) \in Verifying /\ Moved(k, pc).pc = pc
           /\ Moved(k, pc).id = k.id /\ Moved(k, pc).session = k.session
           /\ Moved(k, pc).user = k.user /\ Moved(k, pc).challenge = k.challenge
  BY DEF Moved, Verifying

(* The copies of a call, and what it writes back of them. *)
LEMMA Copies ==
    ASSUME NEW k \in Verifying
    PROVE  /\ k.id \in Nat /\ k.user \in User /\ k.session \in Session /\ k.challenge \in MfaRow
           /\ Failed(k.challenge) \in MfaRow
           /\ Failed(k.challenge).failed = k.challenge.failed + 1
           /\ Failed(k.challenge).open = k.challenge.open
           /\ [k.challenge EXCEPT !.open = FALSE] \in MfaRow
           /\ [k.challenge EXCEPT !.open = FALSE].failed = k.challenge.failed
           /\ [k.challenge EXCEPT !.open = FALSE].open = FALSE
           /\ [k.session EXCEPT !.verified = TRUE] \in Session
           /\ [k.session EXCEPT !.verified = TRUE].since = k.session.since
           /\ [k.session EXCEPT !.verified = TRUE].revoked = k.session.revoked
           /\ [k.session EXCEPT !.verified = TRUE].verified = TRUE
<1>1. k.id \in Nat /\ k.user \in User /\ k.session \in Session /\ k.challenge \in MfaRow
  BY DEF Verifying
<1>3. /\ Failed(k.challenge) \in MfaRow
      /\ Failed(k.challenge).failed = k.challenge.failed + 1
      /\ Failed(k.challenge).open = k.challenge.open
  <2> DEFINE r == k.challenge row == [r EXCEPT !.failed = @ + 1]
  <2> HIDE DEF r
  <2>1. r \in MfaRow /\ r.failed + 1 \in Nat
    BY <1>1 DEF MfaRow, r
  <2>2. row \in MfaRow
    BY <2>1 DEF MfaRow
  <2>3. row.failed = r.failed + 1
    BY <2>1 DEF MfaRow
  <2>4. row.open = r.open
    BY <2>1 DEF MfaRow
  <2> QED BY <2>2, <2>3, <2>4 DEF r, Failed
<1>4. /\ [k.challenge EXCEPT !.open = FALSE] \in MfaRow
      /\ [k.challenge EXCEPT !.open = FALSE].failed = k.challenge.failed
      /\ [k.challenge EXCEPT !.open = FALSE].open = FALSE
  BY <1>1 DEF MfaRow
<1>5. /\ [k.session EXCEPT !.verified = TRUE] \in Session
      /\ [k.session EXCEPT !.verified = TRUE].since = k.session.since
      /\ [k.session EXCEPT !.verified = TRUE].revoked = k.session.revoked
      /\ [k.session EXCEPT !.verified = TRUE].verified = TRUE
  BY <1>1 DEF Session
<1> QED BY <1>1, <1>3, <1>4, <1>5

LEMMA UserLast ==
    ASSUME NEW u \in User, NEW n \in Int
    PROVE  /\ [u EXCEPT !.last = n] \in User
           /\ [u EXCEPT !.last = n].last = n /\ [u EXCEPT !.last = n].codes = u.codes
  BY DEF User

LEMMA UserCodes ==
    ASSUME NEW u \in User, NEW S \in SUBSET Codes
    PROVE  /\ [u EXCEPT !.codes = S] \in User
           /\ [u EXCEPT !.codes = S].last = u.last /\ [u EXCEPT !.codes = S].codes = S
  BY DEF User

LEMMA UserPending ==
    ASSUME NEW u \in User
    PROVE  /\ [u EXCEPT !.pending = TRUE] \in User
           /\ [u EXCEPT !.pending = TRUE].last = u.last /\ [u EXCEPT !.pending = TRUE].codes = u.codes
  BY DEF User

LEMMA UserEnrolled ==
    ASSUME NEW u \in User, NEW n \in Int, NEW S \in SUBSET Codes
    PROVE  /\ [u EXCEPT !.totp = TRUE, !.pending = FALSE, !.last = n, !.codes = S] \in User
           /\ [u EXCEPT !.totp = TRUE, !.pending = FALSE, !.last = n, !.codes = S].last = n
           /\ [u EXCEPT !.totp = TRUE, !.pending = FALSE, !.last = n, !.codes = S].codes = S
  BY DEF User

(* The codes that are generated are of the generation after the last.      *)
LEMMA NewCodesTyped ==
    ASSUME Typed PROVE Generation \in Nat /\ NewCodes \in SUBSET Codes
<1>1. CASE given = {}
  BY <1>1, LivesAssumption DEF Generation, NewCodes, Codes
<1>2. CASE given # {}
  <2> DEFINE x == CHOOSE y \in given : TRUE
  <2>1. x \in given
    BY <1>2
  <2> HIDE DEF x
  <2>2. x[1] \in Nat
    BY <2>1 DEF Typed, RowsTyped, Codes
  <2>3. Generation = x[1] + 1
    BY <1>2 DEF Generation, x
  <2> QED BY <2>2, <2>3, LivesAssumption DEF NewCodes, Codes
<1> QED BY <1>1, <1>2

(* The challenge a call was let in with is used up. *)
LEMMA Consumed ==
    ASSUME Typed, NEW c \in Calls, updateAccountChallenge(c), call[c].id \in DOMAIN challenges
    PROVE  /\ challenges' \in Seq(ChallengeRow) /\ DOMAIN challenges' = DOMAIN challenges
           /\ challenges'[call[c].id].consumed = TRUE
           /\ challenges'[call[c].id].uses = challenges[call[c].id].uses + 1
           /\ \A i \in DOMAIN challenges \ {call[c].id} : challenges'[i] = challenges[i]
<1> DEFINE n == call[c].id
           one == [challenges[n] EXCEPT !.consumed = TRUE]
           row == [one EXCEPT !.uses = @ + 1]
<1>1. challenges[n] \in ChallengeRow /\ challenges \in Seq(ChallengeRow)
  BY DEF Typed, RowsTyped
<1>2. one \in ChallengeRow /\ one.consumed = TRUE /\ one.uses = challenges[n].uses
  BY <1>1 DEF ChallengeRow
<1>3. challenges' = [challenges EXCEPT ![n] = row]
  BY DEF updateAccountChallenge
<1> HIDE DEF one
<1>4. row \in ChallengeRow /\ row.consumed = TRUE /\ row.uses = challenges[n].uses + 1
  <2>1. one.uses + 1 \in Nat /\ one.uses \in Nat
    BY <1>2 DEF ChallengeRow
  <2>2. row.uses = challenges[n].uses + 1
    BY <1>2 DEF ChallengeRow
  <2>3. row.consumed = TRUE
    BY <1>2 DEF ChallengeRow
  <2>4. row \in ChallengeRow
    BY <1>2, <2>1 DEF ChallengeRow
  <2> QED BY <2>2, <2>3, <2>4
<1> HIDE DEF row, n
<1>5. n \in DOMAIN challenges
  BY DEF n
<1>6. /\ challenges' \in Seq(ChallengeRow) /\ DOMAIN challenges' = DOMAIN challenges /\ challenges'[n] = row
      /\ \A i \in DOMAIN challenges \ {n} : challenges'[i] = challenges[i]
  BY <1>1, <1>3, <1>4, <1>5, Replaced
<1> QED BY <1>4, <1>6 DEF n

(* The actions that begin a call: they write no row.                       *)
Enters(c) ==
    \/ Login(c) \/ exchangeHostedIdentity(c)
    \/ verifyPhoneOtp(c) \/ confirmEmailVerification(c) \/ confirmPasswordReset(c)
    \/ verifyMfa(c) \/ enrollTotp(c) \/ confirmTotpEnrollment(c) \/ regenerateRecoveryCodes(c)

(* What a call knows that has just begun.                                  *)
Entered(k) ==
    \/ k \in SigningIn /\ k.since = closings
    \/ /\ k \in Presenting /\ k.id \in DOMAIN challenges /\ ~challenges[k.id].consumed
       /\ k.then.pc = "session" => k.then.since = closings
    \/ /\ k \in Verifying /\ k.id \in DOMAIN sessions /\ k.pc \in {"code", "totp"}
       /\ k.session = sessions[k.id] /\ k.user = user /\ k.challenge = mfa[k.id]
       /\ ~k.session.verified /\ ~k.session.revoked
    \/ k \in Managing /\ k.user = user

LEMMA Entering ==
    ASSUME Typed, NEW c \in Calls, Enters(c)
    PROVE  /\ UNCHANGED <<user, sessions, mfa, challenges, now, history>> /\ Begin
           /\ call[c].pc = "idle"
           /\ \E k : Go(c, k) /\ Entered(k)
<1>1. UNCHANGED <<user, sessions, mfa, challenges, now, history>> /\ Begin /\ call[c].pc = "idle"
  BY DEF Enters, Login, exchangeHostedIdentity, verifyPhoneOtp, confirmEmailVerification,
         confirmPasswordReset, Present, verifyMfa, enrollTotp, confirmTotpEnrollment,
         regenerateRecoveryCodes, Manage, Enter, CallAt
<1>2. CASE Login(c) \/ exchangeHostedIdentity(c)
  <2>1. \E v \in BOOLEAN : Go(c, [pc |-> "session", verified |-> v, since |-> closings])
    BY <1>2 DEF Login, exchangeHostedIdentity, Enter
  <2>2. \A v \in BOOLEAN : Entered([pc |-> "session", verified |-> v, since |-> closings])
    BY DEF Typed, RowsTyped, Entered, SigningIn
  <2> QED BY <1>1, <2>1, <2>2
<1>3. CASE verifyPhoneOtp(c) \/ confirmEmailVerification(c) \/ confirmPasswordReset(c)
  <2>1. PICK then \in {[pc |-> "session", verified |-> FALSE, since |-> closings], IdleCall, [pc |-> "password"]},
             purpose \in Purposes : Present(c, purpose, then)
    BY <1>3 DEF verifyPhoneOtp, confirmEmailVerification, confirmPasswordReset, Purposes
  <2>2. then \in After /\ (then.pc = "session" => then.since = closings)
    <3>1. [pc |-> "session", verified |-> FALSE, since |-> closings] \in SigningIn
      BY DEF SigningIn, Typed, RowsTyped
    <3>2. then \in After
      BY <2>1, <3>1 DEF After
    <3>3. then.pc = "session" => then.since = closings
      BY <2>1 DEF IdleCall
    <3> QED BY <3>2, <3>3
  <2>3. PICK i \in DOMAIN challenges :
           ~challenges[i].consumed /\ Go(c, [pc |-> "challenge", id |-> i, then |-> then])
    BY <2>1 DEF Present, requireAccountChallenge, Enter
  <2>4. i \in Nat
    BY DEF Typed, RowsTyped
  <2>5. Entered([pc |-> "challenge", id |-> i, then |-> then])
    BY <2>2, <2>3, <2>4 DEF Entered, Presenting
  <2> QED BY <1>1, <2>3, <2>5
<1>4. CASE verifyMfa(c)
  <2>1. PICK i \in DOMAIN sessions :
           /\ ~sessions[i].revoked /\ ~sessions[i].verified
           /\ Go(c, [pc |-> IF user.totp THEN "totp" ELSE "code", id |-> i,
                     session |-> sessions[i], user |-> user, challenge |-> mfa[i]])
    BY <1>4 DEF verifyMfa, requireSession, Enter
  <2> DEFINE k == [pc |-> IF user.totp THEN "totp" ELSE "code", id |-> i,
                   session |-> sessions[i], user |-> user, challenge |-> mfa[i]]
  <2>2. i \in Nat /\ sessions[i] \in Session /\ mfa[i] \in MfaRow /\ user \in User
    BY DEF Typed, RowsTyped
  <2>3. k \in Verifying /\ k.pc \in {"code", "totp"} /\ k.id = i /\ k.session = sessions[i]
        /\ k.user = user /\ k.challenge = mfa[i]
    BY <2>2 DEF Verifying
  <2> HIDE DEF k
  <2>4. Entered(k)
    BY <2>1, <2>3 DEF Entered
  <2> QED BY <1>1, <2>1, <2>4 DEF k
<1>5. CASE enrollTotp(c) \/ confirmTotpEnrollment(c) \/ regenerateRecoveryCodes(c)
  <2>1. PICK pc \in {"enroll", "confirm", "regenerate"} : Go(c, [pc |-> pc, user |-> user])
    BY <1>5 DEF enrollTotp, confirmTotpEnrollment, regenerateRecoveryCodes, Manage, Enter
  <2>2. Entered([pc |-> pc, user |-> user])
    BY DEF Entered, Managing, Typed, RowsTyped
  <2> QED BY <1>1, <2>1, <2>2
<1> QED BY <1>2, <1>3, <1>4, <1>5 DEF Enters

LEMMA EnteredTyped ==
    ASSUME Typed, NEW k, Entered(k)
    PROVE  /\ k \in CallState
           /\ k.pc \in SessionCall => k.id \in DOMAIN sessions
           /\ k.pc = "challenge" => k.id \in DOMAIN challenges
  BY DEF Entered, CallState, After, SigningIn, Presenting, Verifying, Managing, SessionCall

LEMMA Resting == /\ IdleCall \in CallState /\ IdleCall.pc = "idle"
                 /\ [pc |-> "revoke"] \in CallState /\ [pc |-> "password"] \in CallState
  BY DEF IdleCall, CallState, After

LEMMA EnterTyped ==
    ASSUME Typed, NEW c \in Calls, Enters(c)
    PROVE  Typed'
<1>1. UNCHANGED <<user, sessions, mfa, challenges, now, history>> /\ Begin
  BY Entering
<1>2. PICK k : Go(c, k) /\ Entered(k)
  BY Entering
<1>3. RowsTyped'
  BY <1>1 DEF Typed, RowsTyped, Begin, history
<1> QED BY <1>1, <1>2, <1>3, EnteredTyped, CallTyped

LEMMA SignInTyped ==
    ASSUME Typed, NEW c \in Calls, createSession(c) \/ createMfaChallenge(c)
    PROVE  Typed'
<1> DEFINE k == call[c]
<1>0. k \in CallState
  BY DEF Typed
<1>1. CASE createSession(c)
  <2> DEFINE row == [expires |-> now + SessionLife, verified |-> k.verified, revoked |-> FALSE, since |-> k.since]
             next == IF k.verified THEN IdleCall ELSE [pc |-> "mfa", id |-> Len(sessions) + 1]
  <2>1. k \in SigningIn
    BY <1>0, <1>1, Shapes DEF createSession, CallAt
  <2>2. row \in Session /\ NoChallenge \in MfaRow
    BY <2>1, NowPlus DEF SigningIn, Session, NoChallenge, MfaRow
  <2>3. next \in CallState /\ (next.pc \in SessionCall => next.id = Len(sessions) + 1) /\ next.pc # "challenge"
    BY <2>1 DEF Typed, RowsTyped, CallState, After, Opening, IdleCall, SessionCall, SigningIn
  <2>4. /\ sessions' = Append(sessions, row) /\ mfa' = Append(mfa, NoChallenge) /\ wrong' = Append(wrong, 0)
        /\ Go(c, next)
        /\ UNCHANGED <<user, challenges, now, closings, given, usedCodes, lastStep, reused, counters>>
    BY <1>1 DEF createSession
  <2> HIDE DEF row, next
  <2>5. RowsTyped'
    BY <2>2, <2>4, Appended DEF Typed, RowsTyped, counters
  <2>6. DOMAIN sessions' = DOMAIN sessions \cup {Len(sessions) + 1} /\ challenges' = challenges
    BY <2>2, <2>4, Appended DEF Typed, RowsTyped
  <2> QED BY <2>3, <2>4, <2>5, <2>6, CallTyped
<1>2. CASE createMfaChallenge(c)
  <2> DEFINE row == [open |-> TRUE, expires |-> now + MfaLife, failed |-> 0]
  <2>1. k.id \in DOMAIN mfa /\ row \in MfaRow
    BY <1>2, NowPlus DEF createMfaChallenge, CallAt, Typed, RowsTyped, SessionCall, MfaRow
  <2>2. /\ mfa' = [mfa EXCEPT ![k.id] = row] /\ Go(c, IdleCall)
        /\ UNCHANGED <<user, sessions, challenges, now, history, counters>>
    BY <1>2 DEF createMfaChallenge, Done
  <2> HIDE DEF row
  <2>3. RowsTyped'
    BY <2>1, <2>2, Replaced DEF Typed, RowsTyped, counters, history
  <2> QED BY <2>2, <2>3, Resting, CallTyped DEF SessionCall
<1> QED BY <1>1, <1>2

LEMMA ChallengeTyped ==
    ASSUME Typed, NEW c \in Calls,
           updateAccountChallenge(c) \/ updateUserPassword(c) \/ revokeSessionsForUser(c)
    PROVE  Typed'
<1> DEFINE k == call[c]
<1>0. k \in CallState
  BY DEF Typed
<1>1. CASE updateAccountChallenge(c)
  <2>1. k.id \in DOMAIN challenges /\ k \in Presenting
    BY <1>0, <1>1, Shapes DEF updateAccountChallenge, CallAt, Typed
  <2>2. k.then \in CallState /\ k.then.pc \notin SessionCall /\ k.then.pc # "challenge"
    BY <2>1 DEF Presenting, CallState, After, IdleCall, SigningIn, SessionCall
  <2>3. /\ challenges' = [challenges EXCEPT ![k.id].consumed = TRUE, ![k.id].uses = @ + 1]
        /\ Go(c, k.then)
        /\ UNCHANGED <<user, sessions, mfa, now, history, counters>>
    BY <1>1 DEF updateAccountChallenge
  <2>4. challenges' \in Seq(ChallengeRow) /\ DOMAIN challenges' = DOMAIN challenges
    BY <1>1, <2>1, Consumed
  <2>5. RowsTyped'
    BY <2>3, <2>4 DEF Typed, RowsTyped, history, counters
  <2> QED BY <2>2, <2>3, <2>4, <2>5, CallTyped
<1>2. CASE updateUserPassword(c)
  <2>1. RowsTyped' /\ Go(c, [pc |-> "revoke"]) /\ UNCHANGED <<sessions, challenges>>
    BY <1>2 DEF updateUserPassword, Typed, RowsTyped, counters
  <2> QED BY <2>1, Resting, CallTyped DEF SessionCall
<1>3. CASE revokeSessionsForUser(c)
  <2>1. sessions' \in Seq(Session) /\ Len(sessions') = Len(sessions) /\ DOMAIN sessions' = DOMAIN sessions
    BY <1>3, AllRevoked DEF revokeSessionsForUser, Typed, RowsTyped
  <2>2. Go(c, IdleCall) /\ UNCHANGED <<user, mfa, challenges, now, history, counters>>
    BY <1>3 DEF revokeSessionsForUser, Done
  <2>3. RowsTyped'
    BY <2>1, <2>2 DEF Typed, RowsTyped, history, counters
  <2> QED BY <2>1, <2>2, <2>3, Resting, CallTyped DEF SessionCall
<1> QED BY <1>1, <1>2, <1>3

LEMMA MfaTyped ==
    ASSUME Typed, NEW c \in Calls,
           \/ Refuse(c) \/ WrongCode(c) \/ RightCode(c) \/ verifyAuthenticatorMfa(c)
           \/ verifyRecoveryCodeMfa(c) \/ MfaConsume(c) \/ updateSession(c)
    PROVE  Typed'
<1> DEFINE k == call[c]
<1>0. k \in Verifying /\ k.id \in DOMAIN sessions /\ DOMAIN mfa = DOMAIN sessions /\ DOMAIN wrong = DOMAIN sessions
  <2>1. k \in CallState /\ k.pc \in {"code", "totp", "consume", "verified"}
    BY DEF Typed, Refuse, Locked, WrongCode, RightCode, verifyAuthenticatorMfa, verifyRecoveryCodeMfa,
           MfaConsume, updateSession, Open, CallAt
  <2> QED BY <2>1, Shapes DEF Typed, RowsTyped, SessionCall
<1>n. \A pc \in {"consume", "verified"} : Moved(k, pc) \in CallState /\ Moved(k, pc).id = k.id
                                        /\ Moved(k, pc).pc # "challenge"
  BY <1>0, Moves DEF CallState
<1>1. CASE Refuse(c)
  <2>1. RowsTyped' /\ Go(c, IdleCall) /\ UNCHANGED <<sessions, challenges>>
    BY <1>1 DEF Refuse, Done, Typed, RowsTyped, history, counters
  <2> QED BY <2>1, Resting, CallTyped DEF SessionCall
<1>2. CASE WrongCode(c)
  <2> DEFINE row == Failed(k.challenge)
  <2>1. row \in MfaRow
    BY <1>0, Copies
  <2>2. /\ wrong' = [wrong EXCEPT ![k.id] = wrong[k.id] + 1]
        /\ mfa' = (IF Found(k) THEN [mfa EXCEPT ![k.id] = row] ELSE mfa)
        /\ Go(c, IdleCall)
        /\ UNCHANGED <<user, sessions, challenges, now, closings, given, usedCodes, lastStep, reused, counters>>
    BY <1>2 DEF WrongCode, Done
  <2> HIDE DEF row
  <2>3. mfa' \in Seq(MfaRow) /\ Len(mfa') = Len(mfa)
    BY <1>0, <2>1, <2>2, Replaced DEF Typed, RowsTyped
  <2>a. wrong[k.id] + 1 \in Nat
    BY <1>0 DEF Typed, RowsTyped
  <2>4. wrong' \in Seq(Nat) /\ Len(wrong') = Len(wrong)
    BY <1>0, <2>a, <2>2, Replaced DEF Typed, RowsTyped
  <2>5. RowsTyped'
    BY <2>2, <2>3, <2>4 DEF Typed, RowsTyped, counters
  <2> QED BY <2>2, <2>5, Resting, CallTyped DEF SessionCall
<1>3. CASE RightCode(c)
  <2>1. RowsTyped' /\ Go(c, Moved(k, "consume")) /\ UNCHANGED <<sessions, challenges>>
    BY <1>3 DEF RightCode, Moved, Typed, RowsTyped, history, counters
  <2> QED BY <1>0, <1>n, <2>1, CallTyped
<1>4. CASE verifyAuthenticatorMfa(c)
  <2>1. PICK s \in Int : user' = [user EXCEPT !.last = s] /\ Passed(s)
    <3>1. Steps(k.user.last) \subseteq Int
      BY DEF Steps, Typed, RowsTyped
    <3> QED BY <1>4, <3>1 DEF verifyAuthenticatorMfa
  <2>2. Go(c, Moved(k, "consume")) /\ UNCHANGED <<sessions, mfa, challenges, now, closings, wrong, given, usedCodes, counters>>
    BY <1>4 DEF verifyAuthenticatorMfa, Moved
  <2>3. user' \in User
    BY <2>1, UserLast DEF Typed, RowsTyped
  <2>4. lastStep' \in Int /\ reused' \in BOOLEAN
    BY <2>1 DEF Passed
  <2>5. RowsTyped'
    BY <2>2, <2>3, <2>4 DEF Typed, RowsTyped, counters
  <2> QED BY <1>0, <1>n, <2>2, <2>5, CallTyped
<1>5. CASE verifyRecoveryCodeMfa(c)
  <2>1. PICK code \in k.user.codes :
           /\ user' = [user EXCEPT !.codes = k.user.codes \ {code}]
           /\ usedCodes' = usedCodes \cup {code} /\ reused' = (reused \/ code \in usedCodes)
    BY <1>5 DEF verifyRecoveryCodeMfa
  <2>2. Go(c, Moved(k, "consume")) /\ UNCHANGED <<sessions, mfa, challenges, now, closings, wrong, given, lastStep, counters>>
    BY <1>5 DEF verifyRecoveryCodeMfa, Moved
  <2>3. k.user.codes \in SUBSET Codes /\ \A x : k.user.codes \ {x} \in SUBSET Codes
    BY <1>0, Copies DEF User
  <2>4. user' \in User /\ usedCodes' \in SUBSET Codes
    BY <2>1, <2>3, UserCodes DEF Typed, RowsTyped
  <2>5. reused' \in BOOLEAN
    BY <2>1
  <2>6. RowsTyped'
    BY <2>2, <2>4, <2>5 DEF Typed, RowsTyped, counters
  <2> QED BY <1>0, <1>n, <2>2, <2>6, CallTyped
<1>6. CASE MfaConsume(c)
  <2> DEFINE row == [k.challenge EXCEPT !.open = FALSE]
  <2>1. row \in MfaRow
    BY <1>0, Copies
  <2>2. /\ mfa' = (IF Found(k) THEN [mfa EXCEPT ![k.id] = row] ELSE mfa)
        /\ Go(c, Moved(k, "verified"))
        /\ UNCHANGED <<user, sessions, challenges, now, history, counters>>
    BY <1>6 DEF MfaConsume, Moved
  <2> HIDE DEF row
  <2>3. mfa' \in Seq(MfaRow) /\ Len(mfa') = Len(mfa)
    BY <1>0, <2>1, <2>2, Replaced DEF Typed, RowsTyped
  <2>4. RowsTyped'
    BY <2>2, <2>3 DEF Typed, RowsTyped, history, counters
  <2> QED BY <1>0, <1>n, <2>2, <2>4, CallTyped
<1>7. CASE updateSession(c)
  <2> DEFINE row == [k.session EXCEPT !.verified = TRUE]
  <2>1. row \in Session
    BY <1>0, Copies
  <2>2. /\ sessions' = [sessions EXCEPT ![k.id] = row] /\ Go(c, IdleCall)
        /\ UNCHANGED <<user, mfa, challenges, now, history, counters>>
    BY <1>7 DEF updateSession, Done
  <2> HIDE DEF row
  <2>3. sessions' \in Seq(Session) /\ Len(sessions') = Len(sessions) /\ DOMAIN sessions' = DOMAIN sessions
    BY <1>0, <2>1, <2>2, Replaced DEF Typed, RowsTyped
  <2>4. RowsTyped'
    BY <2>2, <2>3 DEF Typed, RowsTyped, history, counters
  <2> QED BY <2>2, <2>3, <2>4, Resting, CallTyped DEF SessionCall
<1> QED BY <1>1, <1>2, <1>3, <1>4, <1>5, <1>6, <1>7

LEMMA ManageTyped ==
    ASSUME Typed, NEW c \in Calls, EnrollSave(c) \/ ConfirmSave(c) \/ RegenerateSave(c)
    PROVE  Typed'
<1>0. user \in User /\ NewCodes \in SUBSET Codes
  BY NewCodesTyped DEF Typed, RowsTyped
<1>1. Go(c, IdleCall) /\ UNCHANGED <<sessions, mfa, challenges, now, closings, wrong, usedCodes, counters>>
  BY DEF EnrollSave, ConfirmSave, RegenerateSave, Done, history
<1>2. user' \in User /\ given' \in SUBSET Codes /\ lastStep' \in Int /\ reused' \in BOOLEAN
  <2>1. CASE EnrollSave(c)
    BY <1>0, <2>1, UserPending DEF EnrollSave, history, Typed, RowsTyped
  <2>2. CASE ConfirmSave(c)
    <3>1. Steps(call[c].user.last) \subseteq Int
      BY DEF Steps, Typed, RowsTyped
    <3>2. PICK s \in Int :
             /\ user' = [user EXCEPT !.totp = TRUE, !.pending = FALSE, !.last = s, !.codes = NewCodes]
             /\ Passed(s)
      BY <2>2, <3>1 DEF ConfirmSave
    <3>3. user' \in User
      BY <1>0, <3>2, UserEnrolled
    <3> QED BY <1>0, <2>2, <3>2, <3>3 DEF ConfirmSave, Passed
  <2>3. CASE RegenerateSave(c)
    BY <1>0, <2>3, UserCodes DEF RegenerateSave, Typed, RowsTyped
  <2> QED BY <2>1, <2>2, <2>3
<1>3. RowsTyped'
  BY <1>1, <1>2 DEF Typed, RowsTyped, counters
<1> QED BY <1>1, <1>3, Resting, CallTyped DEF SessionCall

(* The steps that are not of a call, and the one that ends it.             *)
LEMMA OtherTyped ==
    ASSUME Typed,
           \/ Tick \/ revokeSessionsForAccountDeletion \/ UNCHANGED vars
           \/ \E p \in Purposes : createAccountChallenge(p)
           \/ \E c \in Calls : Crash(c)
    PROVE  Typed'
<1>1. CASE Tick \/ UNCHANGED vars
  <2>1. /\ now' \in Nat
        /\ UNCHANGED <<user, sessions, mfa, challenges, call, closings, wrong, given, usedCodes, lastStep,
                       reused, overlaps, faults>>
    BY <1>1 DEF Tick, vars, history, counters, Typed, RowsTyped
  <2> QED BY <2>1 DEF Typed, RowsTyped
<1>2. CASE revokeSessionsForAccountDeletion
  <2>1. sessions' \in Seq(Session) /\ Len(sessions') = Len(sessions) /\ DOMAIN sessions' = DOMAIN sessions
    BY <1>2, AllRevoked DEF revokeSessionsForAccountDeletion, Typed, RowsTyped
  <2>2. /\ closings' = closings + 1 /\ overlaps' \in Nat
        /\ UNCHANGED <<user, mfa, challenges, now, call, wrong, given, usedCodes, lastStep, reused, faults>>
    BY <1>2 DEF revokeSessionsForAccountDeletion, Begin, Typed, RowsTyped
  <2> QED BY <2>1, <2>2 DEF Typed, RowsTyped
<1>3. ASSUME NEW p \in Purposes, createAccountChallenge(p) PROVE Typed'
  <2> DEFINE row == [purpose |-> p, consumed |-> FALSE, expires |-> now + ChallengeLife, uses |-> 0]
  <2>1. row \in ChallengeRow
    BY NowPlus DEF ChallengeRow
  <2>2. challenges' = Append(challenges, row) /\ UNCHANGED <<user, sessions, mfa, now, call, history, counters>>
    BY <1>3 DEF createAccountChallenge
  <2> HIDE DEF row
  <2>3. challenges' \in Seq(ChallengeRow) /\ DOMAIN challenges \subseteq DOMAIN challenges'
    BY <2>1, <2>2, Appended DEF Typed, RowsTyped
  <2> QED BY <2>2, <2>3 DEF Typed, RowsTyped, history, counters
<1>4. ASSUME NEW c \in Calls, Crash(c) PROVE Typed'
  <2>1. RowsTyped' /\ Go(c, IdleCall) /\ UNCHANGED <<sessions, challenges>>
    BY <1>4 DEF Crash, Done, Typed, RowsTyped, history
  <2> QED BY <2>1, Resting, CallTyped DEF SessionCall
<1> QED BY <1>1, <1>2, <1>3, <1>4

(* Every step is one of these. *)
LEMMA StepCases ==
    ASSUME [Next]_vars
    PROVE  \/ Tick \/ revokeSessionsForAccountDeletion \/ UNCHANGED vars
           \/ \E p \in Purposes : createAccountChallenge(p)
           \/ \E c \in Calls :
                 \/ Enters(c) \/ createSession(c) \/ createMfaChallenge(c)
                 \/ updateAccountChallenge(c) \/ updateUserPassword(c) \/ revokeSessionsForUser(c)
                 \/ Refuse(c) \/ WrongCode(c) \/ RightCode(c) \/ verifyAuthenticatorMfa(c)
                 \/ verifyRecoveryCodeMfa(c) \/ MfaConsume(c) \/ updateSession(c)
                 \/ EnrollSave(c) \/ ConfirmSave(c) \/ RegenerateSave(c) \/ Crash(c)
  BY DEF Next, Enters, SignIn, Challenge, Mfa, Authenticator, Purposes

LEMMA TypedInvariant == Spec => []Typed
<1>1. Init => Typed
  <2> SUFFICES ASSUME Init PROVE Typed
    OBVIOUS
  <2>1. user \in User
    BY DEF Init, User, NoStep
  <2>2. call \in [Calls -> CallState] /\ \A c \in Calls : call[c].pc = "idle"
    BY Resting DEF Init
  <2>3. RowsTyped
    <3>1. /\ sessions \in Seq(Session) /\ mfa \in Seq(MfaRow) /\ wrong \in Seq(Nat)
          /\ challenges \in Seq(ChallengeRow) /\ Len(mfa) = Len(sessions) /\ Len(wrong) = Len(sessions)
      BY DEF Init
    <3>2. now \in Nat /\ closings \in Nat /\ overlaps \in Nat /\ faults \in Nat
      BY DEF Init
    <3>a. lastStep \in Int
      BY DEF Init, NoStep
    <3>b. reused \in BOOLEAN
      BY DEF Init
    <3>3. given \in SUBSET Codes /\ usedCodes \in SUBSET Codes
      BY DEF Init
    <3> QED BY <2>1, <3>1, <3>2, <3>a, <3>b, <3>3 DEF RowsTyped
  <2> QED BY <2>2, <2>3 DEF Typed, SessionCall
<1>2. Typed /\ [Next]_vars => Typed'
  BY StepCases, EnterTyped, SignInTyped, ChallengeTyped, MfaTyped, ManageTyped, OtherTyped
<1> QED BY <1>1, <1>2, PTL DEF Spec
-----------------------------------------------------------------------------
(* Calls that come one at a time: at most one is in progress, its copies   *)
(* are what the rows say, and what is for one use is used once.            *)
Single == \A c, d \in Calls : call[c].pc # "idle" /\ call[d].pc # "idle" => c = d

OnceRows ==
    /\ \A i \in DOMAIN challenges :
          challenges[i].uses <= 1 /\ (~challenges[i].consumed => challenges[i].uses = 0)
    /\ ~reused /\ user.last = lastStep
    /\ user.codes = given \ usedCodes
    /\ \E g \in Nat : (\A x \in given : x[1] = g) /\ (\A x \in usedCodes : x[1] <= g)
    /\ given = {} => usedCodes = {}

Knows(c) ==
    /\ call[c].pc = "challenge" => ~challenges[call[c].id].consumed
    /\ call[c].pc \in {"code", "totp", "enroll", "confirm", "regenerate"} => call[c].user = user

ResetRows ==
    \A i \in DOMAIN sessions :
        sessions[i].since < closings => sessions[i].revoked \/ \E c \in Calls : call[c].pc = "revoke"

KnowsReset(c) ==
    /\ call[c].pc = "session" => call[c].since = closings
    /\ call[c].pc = "challenge" /\ call[c].then.pc = "session" => call[c].then.since = closings
    /\ call[c].pc \in {"code", "totp", "consume", "verified"} => call[c].session = sessions[call[c].id]

Alone ==
    overlaps = 0 =>
        /\ Single /\ OnceRows
        /\ \A c \in Calls : Knows(c)
        /\ faults = 0 => ResetRows /\ \A c \in Calls : KnowsReset(c)

(* While nothing overlaps, the call that takes a step is the only one.     *)
Steps1(c) == \/ Begin /\ call[c].pc = "idle"
             \/ call[c].pc # "idle" /\ UNCHANGED overlaps

LEMMA Solo ==
    ASSUME Typed, Alone, NEW c \in Calls, overlaps' = 0, Steps1(c)
    PROVE  overlaps = 0 /\ \A d \in Calls \ {c} : call[d].pc = "idle"
  BY DEF Typed, RowsTyped, Alone, Single, Begin, Quiet, Steps1

LEMMA AloneStep ==
    ASSUME Typed, Alone, NEW c \in Calls, NEW k, Go(c, k), Steps1(c),
           overlaps' = 0 => OnceRows' /\ Knows(c)',
           overlaps' = 0 /\ faults' = 0 => ResetRows' /\ KnowsReset(c)'
    PROVE  Alone'
<1> SUFFICES ASSUME overlaps' = 0
             PROVE  /\ Single' /\ \A d \in Calls : Knows(d)'
                    /\ faults' = 0 => \A d \in Calls : KnowsReset(d)'
  BY DEF Alone
<1>1. \A d \in Calls \ {c} : call'[d] = call[d] /\ call[d].pc = "idle"
  BY Goes, Solo
<1>2. Single'
  BY <1>1 DEF Single
<1>3. \A d \in Calls \ {c} : Knows(d)' /\ KnowsReset(d)'
  BY <1>1 DEF Knows, KnowsReset
<1> QED BY <1>2, <1>3

(* What alone says of the call that takes a step. *)
LEMMA AloneFacts ==
    ASSUME Typed, Alone, NEW c \in Calls, overlaps' = 0, Steps1(c)
    PROVE  /\ OnceRows /\ Knows(c)
           /\ faults = 0 => ResetRows /\ KnowsReset(c)
           /\ \A d \in Calls \ {c} : call[d].pc = "idle"
  BY Solo DEF Alone

LEMMA Ending ==
    ASSUME NEW c \in Calls, call'[c] = IdleCall
    PROVE  Knows(c)' /\ KnowsReset(c)'
  BY DEF IdleCall, Knows, KnowsReset

LEMMA EnterAlone ==
    ASSUME Typed, Alone, NEW c \in Calls, Enters(c)
    PROVE  Alone'
<1>1. /\ UNCHANGED <<user, sessions, mfa, challenges, closings, given, usedCodes, lastStep, reused, faults>>
      /\ Begin /\ call[c].pc = "idle"
  BY Entering DEF history, Begin
<1>2. PICK k : Go(c, k) /\ Entered(k)
  BY Entering
<1>3. call'[c] = k /\ \A d \in Calls \ {c} : call'[d] = call[d]
  BY <1>2, Goes
<1>4. Knows(c)'
  BY <1>1, <1>2, <1>3 DEF Knows, Entered, SigningIn, Presenting, Verifying, Managing
<1>5. KnowsReset(c)'
  BY <1>1, <1>2, <1>3 DEF KnowsReset, Entered, SigningIn, Presenting, Verifying, Managing
<1>6. Steps1(c)
  BY <1>1 DEF Steps1
<1>7. overlaps' = 0 => OnceRows'
  BY <1>1, <1>6, AloneFacts DEF OnceRows
<1>8. overlaps' = 0 /\ faults' = 0 => ResetRows'
  BY <1>1, <1>3, <1>6, AloneFacts DEF ResetRows
<1> QED BY <1>2, <1>4, <1>5, <1>6, <1>7, <1>8, AloneStep

LEMMA SignInAlone ==
    ASSUME Typed, Alone, NEW c \in Calls, createSession(c) \/ createMfaChallenge(c)
    PROVE  Alone'
<1> DEFINE k == call[c]
           next == IF createSession(c) /\ ~k.verified THEN [pc |-> "mfa", id |-> Len(sessions) + 1] ELSE IdleCall
<1>0. /\ Go(c, next) /\ k.pc \in {"session", "mfa"}
      /\ UNCHANGED <<user, challenges, closings, given, usedCodes, lastStep, reused, overlaps, faults>>
  BY DEF createSession, createMfaChallenge, Done, CallAt, history, counters
<1>1. next.pc \in {"idle", "mfa"}
  BY DEF IdleCall
<1> HIDE DEF next
<1>2. call'[c] = next /\ \A d \in Calls \ {c} : call'[d] = call[d]
  BY <1>0, Goes
<1>3. Knows(c)' /\ KnowsReset(c)' /\ Steps1(c)
  BY <1>0, <1>1, <1>2 DEF Knows, KnowsReset, Steps1
<1>4. overlaps' = 0 => OnceRows'
  BY <1>0, <1>3, AloneFacts DEF OnceRows
<1>5. ASSUME overlaps' = 0, faults' = 0 PROVE ResetRows'
  <2>1. ResetRows /\ KnowsReset(c) /\ \A d \in Calls : call[d].pc # "revoke"
    BY <1>0, <1>3, <1>5, AloneFacts
  <2>2. CASE createSession(c)
    <3> DEFINE row == [expires |-> now + SessionLife, verified |-> k.verified, revoked |-> FALSE, since |-> k.since]
    <3>1. k \in SigningIn /\ k.since = closings
      BY <2>1, <2>2, Shapes DEF createSession, CallAt, Typed, KnowsReset
    <3>2. row \in Session /\ row.since = closings
      BY <3>1, NowPlus DEF SigningIn, Session
    <3>3. sessions' = Append(sessions, row)
      BY <2>2 DEF createSession
    <3> HIDE DEF row
    <3>4. /\ DOMAIN sessions' = DOMAIN sessions \cup {Len(sessions) + 1}
          /\ \A i \in DOMAIN sessions : sessions'[i] = sessions[i]
          /\ sessions'[Len(sessions) + 1] = row
      BY <3>2, <3>3, Appended DEF Typed, RowsTyped
    <3>5. closings \in Nat
      BY DEF Typed, RowsTyped
    <3> QED BY <1>0, <2>1, <3>2, <3>4, <3>5 DEF ResetRows
  <2>3. CASE createMfaChallenge(c)
    BY <1>0, <2>1, <2>3 DEF createMfaChallenge, ResetRows
  <2> QED BY <2>2, <2>3
<1> QED BY <1>0, <1>3, <1>4, <1>5, AloneStep

LEMMA ChallengeAlone ==
    ASSUME Typed, Typed', Alone, NEW c \in Calls,
           updateAccountChallenge(c) \/ updateUserPassword(c) \/ revokeSessionsForUser(c)
    PROVE  Alone'
<1> DEFINE k == call[c]
<1>0. k \in CallState /\ k.pc \in {"challenge", "password", "revoke"} /\ Steps1(c) /\ UNCHANGED faults
  BY DEF updateAccountChallenge, updateUserPassword, revokeSessionsForUser, CallAt, Steps1, Typed, counters
<1>1. CASE updateAccountChallenge(c)
  <2>1. k.id \in DOMAIN challenges /\ k \in Presenting /\ k.pc = "challenge"
    BY <1>0, <1>1, Shapes DEF updateAccountChallenge, CallAt, Typed
  <2>2. k.then.pc \in {"session", "idle", "password"}
    BY <2>1 DEF Presenting, After, IdleCall, SigningIn
  <2>3. /\ Go(c, k.then) /\ k.then = call'[c] /\ \A d \in Calls \ {c} : call'[d] = call[d]
    BY <1>1, Goes DEF updateAccountChallenge
  <2>4. UNCHANGED <<user, sessions, closings, given, usedCodes, lastStep, reused, overlaps, faults>>
    BY <1>1 DEF updateAccountChallenge, history, counters
  <2>5. Knows(c)'
    BY <2>2, <2>3 DEF Knows
  <2>6. ASSUME overlaps' = 0 PROVE OnceRows'
    <3>1. OnceRows /\ ~challenges[k.id].consumed
      BY <1>0, <2>1, <2>6, AloneFacts DEF Knows
    <3>2. \A i \in DOMAIN challenges' :
             challenges'[i].uses <= 1 /\ (~challenges'[i].consumed => challenges'[i].uses = 0)
      <4>1. /\ DOMAIN challenges' = DOMAIN challenges
            /\ challenges'[k.id].consumed = TRUE /\ challenges'[k.id].uses = challenges[k.id].uses + 1
            /\ \A i \in DOMAIN challenges \ {k.id} : challenges'[i] = challenges[i]
        BY <1>1, <2>1, Consumed
      <4>2. challenges[k.id].uses = 0
        BY <2>1, <3>1 DEF OnceRows
      <4>3. challenges'[k.id].uses <= 1 /\ challenges'[k.id].consumed
        BY <4>1, <4>2
      <4> QED BY <3>1, <4>1, <4>3 DEF OnceRows
    <3> QED BY <2>4, <3>1, <3>2 DEF OnceRows
  <2>7. ASSUME overlaps' = 0, faults' = 0 PROVE ResetRows' /\ KnowsReset(c)'
    <3>1. ResetRows /\ KnowsReset(c) /\ \A d \in Calls : call[d].pc # "revoke"
      BY <1>0, <2>1, <2>7, AloneFacts
    <3>2. k.then.pc = "session" => k.then.since = closings
      BY <2>1, <3>1 DEF KnowsReset
    <3> QED BY <2>2, <2>3, <2>4, <3>1, <3>2 DEF ResetRows, KnowsReset
  <2> QED BY <1>0, <2>3, <2>5, <2>6, <2>7, AloneStep
<1>2. CASE updateUserPassword(c)
  <2>1. /\ Go(c, [pc |-> "revoke"]) /\ closings' = closings + 1
        /\ UNCHANGED <<user, sessions, challenges, given, usedCodes, lastStep, reused, overlaps>>
    BY <1>2 DEF updateUserPassword, counters
  <2>2. call'[c] = [pc |-> "revoke"]
    BY <2>1, Goes
  <2>3. Knows(c)' /\ KnowsReset(c)'
    BY <2>2 DEF Knows, KnowsReset
  <2>4. overlaps' = 0 => OnceRows'
    BY <1>0, <2>1, AloneFacts DEF OnceRows
  <2>5. ResetRows'
    BY <2>2 DEF ResetRows
  <2> QED BY <1>0, <2>1, <2>3, <2>4, <2>5, AloneStep
<1>3. CASE revokeSessionsForUser(c)
  <2>1. /\ Go(c, IdleCall) /\ sessions' = [i \in DOMAIN sessions |-> Revoked(sessions[i])]
        /\ UNCHANGED <<user, challenges, closings, given, usedCodes, lastStep, reused, overlaps>>
    BY <1>3 DEF revokeSessionsForUser, Done, history, counters
  <2>2. call'[c] = IdleCall
    BY <2>1, Goes
  <2>3. overlaps' = 0 => OnceRows'
    BY <1>0, <2>1, AloneFacts DEF OnceRows
  <2>4. ResetRows'
    BY <2>1, AllRevoked DEF ResetRows, Typed, RowsTyped
  <2> QED BY <1>0, <2>1, <2>2, <2>3, <2>4, Ending, AloneStep
<1> QED BY <1>1, <1>2, <1>3

LEMMA MfaAlone ==
    ASSUME Typed, Typed', Alone, NEW c \in Calls,
           \/ Refuse(c) \/ WrongCode(c) \/ RightCode(c) \/ verifyAuthenticatorMfa(c)
           \/ verifyRecoveryCodeMfa(c) \/ MfaConsume(c) \/ updateSession(c)
    PROVE  Alone'
<1> DEFINE k == call[c]
<1>0. k \in Verifying /\ k.id \in DOMAIN sessions /\ Steps1(c)
  <2>1. k \in CallState /\ k.pc \in {"code", "totp", "consume", "verified"} /\ UNCHANGED overlaps
    BY DEF Typed, Refuse, Locked, WrongCode, RightCode, verifyAuthenticatorMfa, verifyRecoveryCodeMfa,
           MfaConsume, updateSession, Open, CallAt, counters
  <2> QED BY <2>1, Shapes DEF Typed, RowsTyped, SessionCall, Steps1
<1>1. /\ UNCHANGED <<challenges, closings, given, overlaps, faults>>
      /\ updateSession(c) \/ UNCHANGED sessions
      /\ \E next \in {IdleCall, Moved(k, "consume"), Moved(k, "verified")} : Go(c, next)
  BY DEF Refuse, WrongCode, RightCode, verifyAuthenticatorMfa, verifyRecoveryCodeMfa,
         MfaConsume, updateSession, Done, Moved, history, counters
<1>2. PICK next \in {IdleCall, Moved(k, "consume"), Moved(k, "verified")} : Go(c, next)
  BY <1>1
<1>3. call'[c] = next /\ \A d \in Calls \ {c} : call'[d] = call[d]
  BY <1>2, Goes
<1>4. next.pc \in {"idle", "consume", "verified"} /\ (next.pc # "idle" => next.id = k.id /\ next.session = k.session)
  BY <1>0, Moves DEF IdleCall
<1>5. Knows(c)'
  BY <1>3, <1>4 DEF Knows
<1>6. ASSUME overlaps' = 0 PROVE OnceRows'
  <2>1. OnceRows /\ Knows(c)
    BY <1>0, <1>6, AloneFacts
  <2>2. CASE UNCHANGED <<user, usedCodes, lastStep, reused>>
    BY <1>1, <2>1, <2>2 DEF OnceRows
  <2>3. CASE verifyAuthenticatorMfa(c)
    <3>1. k.user = user
      BY <2>1, <2>3 DEF verifyAuthenticatorMfa, CallAt, Knows
    <3>2. PICK s \in Steps(k.user.last) : user' = [user EXCEPT !.last = s] /\ Passed(s)
      BY <2>3 DEF verifyAuthenticatorMfa
    <3>3. s \in Int /\ s # user.last
      BY <3>1 DEF Steps, Typed, RowsTyped
    <3>4. user'.last = s /\ user'.codes = user.codes
      BY <3>2, <3>3, UserLast DEF Typed, RowsTyped
    <3>5. ~reused' /\ lastStep' = s
      BY <2>1, <3>2, <3>3 DEF Passed, OnceRows
    <3>6. usedCodes' = usedCodes
      BY <2>3 DEF verifyAuthenticatorMfa
    <3> QED BY <1>1, <2>1, <3>4, <3>5, <3>6 DEF OnceRows
  <2>4. CASE verifyRecoveryCodeMfa(c)
    <3>1. k.user = user /\ user \in User
      BY <2>1, <2>4 DEF verifyRecoveryCodeMfa, CallAt, Knows, Typed, RowsTyped
    <3>2. PICK code \in user.codes :
             /\ user' = [user EXCEPT !.codes = user.codes \ {code}]
             /\ usedCodes' = usedCodes \cup {code} /\ reused' = (reused \/ code \in usedCodes)
      BY <2>4, <3>1 DEF verifyRecoveryCodeMfa
    <3>3. user.codes \ {code} \in SUBSET Codes
      BY <3>1 DEF User
    <3>4. user'.codes = user.codes \ {code} /\ user'.last = user.last
      BY <3>1, <3>2, <3>3, UserCodes
    <3>5. code \in given /\ code \notin usedCodes /\ lastStep' = lastStep
      BY <2>1, <2>4 DEF OnceRows, verifyRecoveryCodeMfa
    <3>6. user'.codes = given' \ usedCodes'
      BY <1>1, <2>1, <3>2, <3>4, <3>5 DEF OnceRows
    <3>7. ~reused'
      BY <2>1, <3>2, <3>5 DEF OnceRows
    <3>8. \E g \in Nat : (\A x \in given' : x[1] = g) /\ (\A x \in usedCodes' : x[1] <= g)
      <4>1. PICK g \in Nat : (\A x \in given : x[1] = g) /\ (\A x \in usedCodes : x[1] <= g)
        BY <2>1 DEF OnceRows
      <4>2. code[1] <= g
        BY <3>5, <4>1
      <4> QED BY <1>1, <3>2, <4>1, <4>2
    <3> QED BY <1>1, <2>1, <3>4, <3>5, <3>6, <3>7, <3>8 DEF OnceRows
  <2> QED BY <2>2, <2>3, <2>4 DEF Refuse, WrongCode, RightCode, MfaConsume, updateSession, history
<1>7. ASSUME overlaps' = 0, faults' = 0 PROVE ResetRows' /\ KnowsReset(c)'
  <2>1. ResetRows /\ KnowsReset(c) /\ \A d \in Calls \ {c} : call[d].pc = "idle"
    BY <1>0, <1>1, <1>7, AloneFacts
  <2>2. k.session = sessions[k.id] /\ \A d \in Calls : call[d].pc # "revoke"
    BY <1>0, <2>1 DEF KnowsReset, Verifying
  <2>3. CASE updateSession(c)
    <3> DEFINE row == [k.session EXCEPT !.verified = TRUE]
    <3>1. row \in Session /\ row.since = sessions[k.id].since /\ row.revoked = sessions[k.id].revoked
      BY <1>0, <2>2, Copies
    <3>2. sessions' = [sessions EXCEPT ![k.id] = row] /\ call'[c] = IdleCall
      BY <2>3, Goes DEF updateSession, Done
    <3> HIDE DEF row
    <3>3. \A i \in DOMAIN sessions' : i \in DOMAIN sessions /\ sessions'[i].since = sessions[i].since
                                     /\ sessions'[i].revoked = sessions[i].revoked
      BY <1>0, <3>1, <3>2, Replaced DEF Typed, RowsTyped
    <3>4. ResetRows'
      BY <1>1, <2>1, <2>2, <3>3 DEF ResetRows
    <3> QED BY <3>2, <3>4, Ending
  <2>4. CASE UNCHANGED sessions
    <3>1. ResetRows'
      BY <1>1, <2>1, <2>2, <2>4 DEF ResetRows
    <3>2. KnowsReset(c)'
      BY <1>3, <1>4, <2>2, <2>4 DEF KnowsReset
    <3> QED BY <3>1, <3>2
  <2> QED BY <1>1, <2>3, <2>4
<1> QED BY <1>0, <1>2, <1>5, <1>6, <1>7, AloneStep

(* New recovery codes are none that were used before. *)
LEMMA NewGeneration ==
    ASSUME Typed, OnceRows
    PROVE  /\ NewCodes # {} /\ NewCodes \ usedCodes = NewCodes
           /\ \A x \in NewCodes : x[1] = Generation
           /\ \A x \in usedCodes : x[1] <= Generation
           /\ Generation \in Nat
<1>1. PICK g \in Nat : (\A x \in given : x[1] = g) /\ (\A x \in usedCodes : x[1] <= g)
  BY DEF OnceRows
<1>2. Generation \in Nat /\ \A x \in usedCodes : x[1] < Generation
  <2>1. CASE given = {}
    BY <2>1 DEF OnceRows, Generation
  <2>2. CASE given # {}
    <3> DEFINE y == CHOOSE x \in given : TRUE
    <3>1. y \in given
      BY <2>2
    <3> HIDE DEF y
    <3>2. y[1] = g /\ Generation = y[1] + 1
      BY <1>1, <2>2, <3>1 DEF Generation, y
    <3>3. \A x \in usedCodes : x[1] \in Nat
      BY DEF Typed, RowsTyped, Codes
    <3> QED BY <1>1, <3>2, <3>3
  <2> QED BY <2>1, <2>2
<1>3. \A x \in usedCodes : x[1] \in Nat
  BY DEF Typed, RowsTyped, Codes
<1>4. \A x \in NewCodes : x[1] = Generation
  BY DEF NewCodes
<1>5. <<Generation, 1>> \in NewCodes
  BY LivesAssumption DEF NewCodes
<1> QED BY <1>2, <1>3, <1>4, <1>5

LEMMA ManageAlone ==
    ASSUME Typed, Typed', Alone, NEW c \in Calls, EnrollSave(c) \/ ConfirmSave(c) \/ RegenerateSave(c)
    PROVE  Alone'
<1>0. /\ Go(c, IdleCall) /\ call[c].pc \in {"enroll", "confirm", "regenerate"}
      /\ UNCHANGED <<sessions, challenges, closings, usedCodes, overlaps, faults>>
  BY DEF EnrollSave, ConfirmSave, RegenerateSave, Done, CallAt, history, counters
<1>1. Steps1(c) /\ call'[c] = IdleCall /\ user \in User /\ NewCodes \in SUBSET Codes
  BY <1>0, Goes, NewCodesTyped DEF Steps1, Typed, RowsTyped
<1>2. ASSUME overlaps' = 0 PROVE OnceRows'
  <2>1. OnceRows /\ call[c].user = user
    BY <1>0, <1>1, <1>2, AloneFacts DEF Knows
  <2>2. CASE EnrollSave(c)
    <3>1. user'.last = user.last /\ user'.codes = user.codes /\ UNCHANGED <<given, lastStep, reused>>
      BY <1>1, <2>2, UserPending DEF EnrollSave, history
    <3> QED BY <1>0, <2>1, <3>1 DEF OnceRows
  <2>3. ASSUME user'.codes = NewCodes, given' = NewCodes, user'.last = lastStep', ~reused' PROVE OnceRows'
    <3>1. \E g \in Nat : (\A x \in given' : x[1] = g) /\ (\A x \in usedCodes' : x[1] <= g)
      BY <1>0, <2>1, <2>3, NewGeneration
    <3> QED BY <1>0, <2>1, <2>3, <3>1, NewGeneration DEF OnceRows
  <2>4. CASE ConfirmSave(c)
    <3>1. PICK s \in Steps(user.last) :
             /\ user' = [user EXCEPT !.totp = TRUE, !.pending = FALSE, !.last = s, !.codes = NewCodes]
             /\ Passed(s)
      BY <2>1, <2>4 DEF ConfirmSave
    <3>2. s \in Int /\ s # user.last
      BY DEF Steps, Typed, RowsTyped
    <3>3. user'.last = s /\ user'.codes = NewCodes
      <4> DEFINE u == [user EXCEPT !.totp = TRUE, !.pending = FALSE, !.last = s, !.codes = NewCodes]
      <4>1. u.last = s /\ u.codes = NewCodes
        BY <1>1, <3>2 DEF User
      <4> HIDE DEF u
      <4>2. user' = u
        BY <3>1 DEF u
      <4> QED BY <4>1, <4>2
    <3>4. lastStep' = s /\ ~reused'
      BY <2>1, <3>1, <3>2 DEF Passed, OnceRows
    <3> QED BY <2>3, <2>4, <3>3, <3>4 DEF ConfirmSave
  <2>5. CASE RegenerateSave(c)
    <3>1. user'.last = user.last /\ user'.codes = NewCodes /\ given' = NewCodes /\ UNCHANGED <<lastStep, reused>>
      BY <1>1, <2>5, UserCodes DEF RegenerateSave
    <3> QED BY <2>1, <2>3, <3>1 DEF OnceRows
  <2> QED BY <2>2, <2>4, <2>5
<1>3. ASSUME overlaps' = 0, faults' = 0 PROVE ResetRows'
  <2>1. ResetRows /\ \A d \in Calls : call[d].pc # "revoke"
    BY <1>0, <1>1, <1>3, AloneFacts
  <2> QED BY <1>0, <2>1 DEF ResetRows
<1> QED BY <1>0, <1>1, <1>2, <1>3, Ending, AloneStep

LEMMA OtherAlone ==
    ASSUME Typed, Typed', Alone,
           \/ Tick \/ revokeSessionsForAccountDeletion \/ UNCHANGED vars
           \/ \E p \in Purposes : createAccountChallenge(p)
           \/ \E c \in Calls : Crash(c)
    PROVE  Alone'
<1>1. CASE Tick \/ UNCHANGED vars
  <2>1. UNCHANGED <<user, sessions, challenges, call, closings, given, usedCodes, lastStep, reused, overlaps, faults>>
    BY <1>1 DEF Tick, vars, history, counters
  <2>2. OnceRows => OnceRows'
    BY <2>1 DEF OnceRows
  <2>3. (ResetRows => ResetRows') /\ (Single => Single')
    BY <2>1 DEF ResetRows, Single
  <2>4. \A c \in Calls : (Knows(c) => Knows(c)') /\ (KnowsReset(c) => KnowsReset(c)')
    BY <2>1 DEF Knows, KnowsReset
  <2> QED BY <2>1, <2>2, <2>3, <2>4 DEF Alone
<1>2. CASE revokeSessionsForAccountDeletion
  <2> SUFFICES ASSUME overlaps' = 0
               PROVE  Single' /\ OnceRows' /\ ResetRows' /\ \A c \in Calls : Knows(c)' /\ KnowsReset(c)'
    BY DEF Alone
  <2>1. /\ overlaps = 0 /\ Quiet /\ sessions' = [i \in DOMAIN sessions |-> Revoked(sessions[i])]
        /\ UNCHANGED <<user, challenges, call, given, usedCodes, lastStep, reused>>
    BY <1>2 DEF revokeSessionsForAccountDeletion, Begin, Typed, RowsTyped
  <2>2. OnceRows'
    BY <2>1 DEF Alone, OnceRows
  <2>3. ResetRows'
    BY <2>1, AllRevoked DEF ResetRows, Typed, RowsTyped
  <2>4. Single' /\ \A c \in Calls : Knows(c)' /\ KnowsReset(c)'
    BY <2>1 DEF Quiet, Single, Knows, KnowsReset
  <2> QED BY <2>2, <2>3, <2>4
<1>3. ASSUME NEW p \in Purposes, createAccountChallenge(p) PROVE Alone'
  <2> DEFINE row == [purpose |-> p, consumed |-> FALSE, expires |-> now + ChallengeLife, uses |-> 0]
  <2>1. row \in ChallengeRow /\ row.uses = 0
    BY NowPlus DEF ChallengeRow
  <2>2. challenges' = Append(challenges, row) /\ UNCHANGED <<user, sessions, call, closings, given, usedCodes,
                                                             lastStep, reused, overlaps, faults>>
    BY <1>3 DEF createAccountChallenge, history, counters
  <2> HIDE DEF row
  <2>3. /\ DOMAIN challenges' = DOMAIN challenges \cup {Len(challenges) + 1}
        /\ \A i \in DOMAIN challenges : challenges'[i] = challenges[i]
        /\ challenges'[Len(challenges) + 1] = row
    BY <2>1, <2>2, Appended DEF Typed, RowsTyped
  <2>4. OnceRows => OnceRows'
    BY <2>1, <2>2, <2>3 DEF OnceRows
  <2>5. (ResetRows => ResetRows') /\ (Single => Single')
    BY <2>2 DEF ResetRows, Single
  <2>6. \A c \in Calls : (Knows(c) => Knows(c)') /\ (KnowsReset(c) => KnowsReset(c)')
    BY <2>2, <2>3 DEF Knows, KnowsReset, Typed
  <2> QED BY <2>2, <2>4, <2>5, <2>6 DEF Alone
<1>4. ASSUME NEW c \in Calls, Crash(c) PROVE Alone'
  <2>1. /\ Go(c, IdleCall) /\ Steps1(c) /\ faults' # 0
        /\ UNCHANGED <<user, challenges, given, usedCodes, lastStep, reused, overlaps>>
    BY <1>4 DEF Crash, CallAt, Done, Steps1, Typed, RowsTyped, history
  <2>2. overlaps' = 0 => OnceRows'
    BY <2>1, AloneFacts DEF OnceRows
  <2>3. Knows(c)'
    BY <2>1, Goes, Ending
  <2> QED BY <2>1, <2>2, <2>3, AloneStep
<1> QED BY <1>1, <1>2, <1>3, <1>4

LEMMA AloneInvariant == Spec => []Alone
<1>1. Init => Alone
  BY DEF Init, Alone, Single, OnceRows, ResetRows, Knows, KnowsReset, IdleCall
<1>2. Typed /\ Typed' /\ Alone /\ [Next]_vars => Alone'
  BY StepCases, EnterAlone, SignInAlone, ChallengeAlone, MfaAlone, ManageAlone, OtherAlone
<1> QED BY <1>1, <1>2, TypedInvariant, PTL DEF Spec

(* Of calls that come one at a time and all finished, a password reset or  *)
(* the deletion of the account leaves no session open that was earned      *)
(* before it (revokeSessionsForUser, revokeSessionsForAccountDeletion).    *)
THEOREM ResetInvariant == Spec => []ResetClosesSessions
<1>1. Alone => ResetClosesSessions
  BY DEF Alone, ResetRows, ResetClosesSessions, Quiet
<1> QED BY <1>1, AloneInvariant, PTL
-----------------------------------------------------------------------------
(* Guesses at the second factor of session i: the calls that looked at its *)
(* challenge and may still count a failure, or that found none to count it *)
(* on; stale are those whose count is no longer that of the row.           *)
Looking(k, i) == k.pc \in {"code", "totp", "consume"} /\ k.id = i
Counted(i) == {c \in Calls : Looking(call[c], i) /\ call[c].challenge.open}
Uncounted(i) == {c \in Calls : Looking(call[c], i) /\ ~call[c].challenge.open}
Stale(i) == {c \in Counted(i) : call[c].challenge.failed # mfa[i].failed}

(* How many of the overlaps so far these calls have yet to make use of: a  *)
(* write by a stale call, or one that is not counted, uses up one.  Of     *)
(* calls that are all up to date, the first to write uses none.            *)
Weight(C, S, U) ==
    Cardinality(U) + (IF C = {} THEN 0 ELSE IF S = {} THEN Cardinality(C) - 1 ELSE Cardinality(C))

Within(i, lost) ==
    /\ lost \in Nat
    /\ lost + Weight(Counted(i), Stale(i), Uncounted(i)) <= overlaps
    /\ wrong[i] <= mfa[i].failed + MaxFailed * lost
Guessed(i) == \E lost : Within(i, lost)

(* A session without a challenge is about to get one, or is verified.      *)
Tended(i) ==
    sessions[i].verified \/ mfa[i].open
    \/ \E c \in Calls : call[c].pc \in {"mfa", "verified"} /\ call[c].id = i

Pending(c) ==
    call[c].pc = "mfa" =>
        /\ mfa[call[c].id] = NoChallenge /\ Counted(call[c].id) = {}
        /\ \A d \in Calls \ {c} : call[d].pc = "mfa" => call[d].id # call[c].id

FailuresBounded ==
    /\ \A i \in DOMAIN mfa : mfa[i].failed <= MaxFailed
    /\ \A c \in Calls :
          call[c].pc \in {"code", "totp", "consume"} => call[c].challenge.failed <= MaxFailed

GuessSound ==
    /\ FailuresBounded
    /\ \A c \in Calls : Pending(c)
    /\ faults = 0 => \A i \in DOMAIN sessions : Tended(i) /\ Guessed(i)

(* The weight of calls that come and go. *)
LEMMA WeightLess ==
    ASSUME NEW C, IsFiniteSet(C), NEW U, IsFiniteSet(U), NEW S \in SUBSET C, NEW c \in C,
           NEW T \in SUBSET (C \ {c})
    PROVE  /\ Weight(C \ {c}, T, U) \in Nat /\ Weight(C, S, U) \in Nat
           /\ Weight(C \ {c}, T, U) <= Weight(C, S, U)
           /\ c \in S => Weight(C \ {c}, T, U) + 1 <= Weight(C, S, U)
<1>1. Cardinality(C) \in Nat /\ Cardinality(U) \in Nat /\ Cardinality(C \ {c}) = Cardinality(C) - 1
      /\ IsFiniteSet(C \ {c})
  BY FS_CardinalityType, FS_RemoveElement
<1>2. Cardinality(C \ {c}) \in Nat /\ (C \ {c} # {} => Cardinality(C \ {c}) # 0)
  BY <1>1, FS_CardinalityType, FS_EmptySet
<1>3. Weight(C, S, U) = Cardinality(U) + (IF S = {} THEN Cardinality(C) - 1 ELSE Cardinality(C))
  BY DEF Weight
<1>4. /\ Weight(C \ {c}, T, U) \in Nat
      /\ Weight(C \ {c}, T, U) <= Cardinality(U) + Cardinality(C \ {c})
  BY <1>1, <1>2 DEF Weight
<1> QED BY <1>1, <1>2, <1>3, <1>4

LEMMA WeightUncounted ==
    ASSUME NEW C, IsFiniteSet(C), NEW U, IsFiniteSet(U), NEW S \in SUBSET C, NEW c
    PROVE  /\ Weight(C, S, U) \in Nat
           /\ c \in U => Weight(C, S, U \ {c}) + 1 = Weight(C, S, U)
           /\ c \notin U => Weight(C, S, U \cup {c}) = Weight(C, S, U) + 1
<1> DEFINE w == IF C = {} THEN 0 ELSE IF S = {} THEN Cardinality(C) - 1 ELSE Cardinality(C)
<1>1. w \in Nat
  BY FS_CardinalityType, FS_EmptySet
<1>2. \A V : Weight(C, S, V) = Cardinality(V) + w
  BY DEF Weight
<1> HIDE DEF w
<1>3. Cardinality(U) \in Nat
  BY FS_CardinalityType
<1>4. c \in U => Cardinality(U \ {c}) = Cardinality(U) - 1
  BY FS_RemoveElement
<1>5. c \notin U => Cardinality(U \cup {c}) = Cardinality(U) + 1
  BY FS_AddElement
<1> QED BY <1>1, <1>2, <1>3, <1>4, <1>5

LEMMA WeightMore ==
    ASSUME NEW C, IsFiniteSet(C), NEW U, IsFiniteSet(U), NEW S \in SUBSET C, NEW c, c \notin C
    PROVE  /\ Weight(C, S, U) \in Nat /\ Weight(C \cup {c}, S, U) <= Weight(C, S, U) + 1
           /\ C = {} => Weight(C \cup {c}, S, U) = Weight(C, S, U)
<1>1. Cardinality(C \cup {c}) = Cardinality(C) + 1 /\ Cardinality(C) \in Nat /\ Cardinality(U) \in Nat
  BY FS_AddElement, FS_CardinalityType
<1>2. C = {} => Cardinality(C) = 0 /\ S = {}
  BY FS_EmptySet
<1>3. C # {} => Cardinality(C) # 0
  BY FS_EmptySet
<1> QED BY <1>1, <1>2, <1>3 DEF Weight

LEMMA GuessSets ==
    ASSUME NEW i
    PROVE  /\ IsFiniteSet(Counted(i)) /\ IsFiniteSet(Uncounted(i)) /\ Stale(i) \in SUBSET Counted(i)
           /\ Weight(Counted(i), Stale(i), Uncounted(i)) \in Nat
           /\ Stale(i)' \in SUBSET Counted(i)'
<1>1. Counted(i) \in SUBSET Calls /\ Uncounted(i) \in SUBSET Calls
  BY DEF Counted, Uncounted
<1>2. IsFiniteSet(Counted(i)) /\ IsFiniteSet(Uncounted(i))
  BY <1>1, CallsAssumption, FS_Subset
<1>3. Stale(i) \in SUBSET Counted(i) /\ Stale(i)' \in SUBSET Counted(i)'
  BY DEF Stale
<1> QED BY <1>2, <1>3, WeightUncounted

(* A call that goes on, and the sets of those that look at session i.      *)
LEMMA SetsStay ==
    ASSUME Typed, NEW c \in Calls, NEW k, Go(c, k), NEW i,
           Looking(call[c], i) => Looking(k, i) /\ k.challenge = call[c].challenge,
           Looking(k, i) => Looking(call[c], i)
    PROVE  /\ Counted(i)' = Counted(i) /\ Uncounted(i)' = Uncounted(i)
           /\ mfa[i].failed' = mfa[i].failed => Stale(i)' = Stale(i)
<1>1. call'[c] = k /\ \A d \in Calls \ {c} : call'[d] = call[d]
  BY Goes
<1>2. Counted(i)' = Counted(i) /\ Uncounted(i)' = Uncounted(i)
  BY <1>1 DEF Counted, Uncounted
<1>3. \A d \in Counted(i) : call'[d].challenge = call[d].challenge
  BY <1>1 DEF Counted
<1> QED BY <1>2, <1>3 DEF Stale

LEMMA SetsLess ==
    ASSUME Typed, NEW c \in Calls, NEW k, Go(c, k), NEW i, Looking(call[c], i), ~Looking(k, i)
    PROVE  /\ Counted(i)' = Counted(i) \ {c} /\ Uncounted(i)' = Uncounted(i) \ {c}
           /\ c \in Counted(i) <=> call[c].challenge.open
           /\ c \in Uncounted(i) <=> ~call[c].challenge.open
           /\ mfa[i].failed' = mfa[i].failed => Stale(i)' = Stale(i) \ {c}
<1>1. call'[c] = k /\ \A d \in Calls \ {c} : call'[d] = call[d]
  BY Goes
<1>2. Counted(i)' = Counted(i) \ {c} /\ Uncounted(i)' = Uncounted(i) \ {c}
  BY <1>1 DEF Counted, Uncounted
<1>3. \A d \in Counted(i) \ {c} : call'[d].challenge = call[d].challenge
  BY <1>1 DEF Counted
<1>4. (c \in Counted(i) <=> call[c].challenge.open) /\ (c \in Uncounted(i) <=> ~call[c].challenge.open)
  BY DEF Counted, Uncounted
<1> QED BY <1>2, <1>3, <1>4 DEF Stale

LEMMA SetsMore ==
    ASSUME Typed, NEW c \in Calls, NEW k, Go(c, k), NEW i, ~Looking(call[c], i), Looking(k, i),
           k.challenge = mfa[i], mfa' = mfa
    PROVE  /\ Counted(i)' = IF mfa[i].open THEN Counted(i) \cup {c} ELSE Counted(i)
           /\ Uncounted(i)' = IF mfa[i].open THEN Uncounted(i) ELSE Uncounted(i) \cup {c}
           /\ Stale(i)' = Stale(i) /\ c \notin Counted(i) /\ c \notin Uncounted(i)
<1>1. call'[c] = k /\ \A d \in Calls \ {c} : call'[d] = call[d]
  BY Goes
<1>2. c \notin Counted(i) /\ c \notin Uncounted(i)
  BY DEF Counted, Uncounted
<1>3. Counted(i)' = IF mfa[i].open THEN Counted(i) \cup {c} ELSE Counted(i)
  BY <1>1 DEF Counted
<1>4. Uncounted(i)' = IF mfa[i].open THEN Uncounted(i) ELSE Uncounted(i) \cup {c}
  BY <1>1 DEF Uncounted
<1>5. \A d \in Counted(i) : d # c /\ call'[d].challenge = call[d].challenge
  BY <1>1, <1>2 DEF Counted
<1>6. Stale(i)' = Stale(i)
  BY <1>1, <1>2, <1>3, <1>5 DEF Stale
<1> QED BY <1>2, <1>3, <1>4, <1>6

LEMMA Rows ==
    ASSUME Typed
    PROVE  /\ DOMAIN mfa = DOMAIN sessions /\ DOMAIN wrong = DOMAIN sessions
           /\ mfa \in Seq(MfaRow) /\ wrong \in Seq(Nat) /\ overlaps \in Nat
           /\ \A i \in DOMAIN sessions : wrong[i] \in Nat /\ mfa[i] \in MfaRow /\ mfa[i].failed \in Nat
<1>1. /\ sessions \in Seq(Session) /\ mfa \in Seq(MfaRow) /\ wrong \in Seq(Nat) /\ overlaps \in Nat
      /\ Len(mfa) = Len(sessions) /\ Len(wrong) = Len(sessions)
  BY DEF Typed, RowsTyped
<1>2. DOMAIN mfa = DOMAIN sessions /\ DOMAIN wrong = DOMAIN sessions
  BY <1>1
<1>3. \A i \in DOMAIN sessions : wrong[i] \in Nat /\ mfa[i] \in MfaRow
  BY <1>1, <1>2
<1>4. \A row \in MfaRow : row.failed \in Nat
  BY DEF MfaRow
<1> QED BY <1>1, <1>2, <1>3, <1>4

LEMMA WithinNext ==
    ASSUME Typed, Typed', NEW i \in DOMAIN sessions, NEW lost \in Nat,
           lost + Weight(Counted(i)', Stale(i)', Uncounted(i)') <= overlaps',
           wrong'[i] <= mfa'[i].failed + MaxFailed * lost
    PROVE  Guessed(i)'
<1>1. Weight(Counted(i), Stale(i), Uncounted(i))' = Weight(Counted(i)', Stale(i)', Uncounted(i)')
  BY DEF Weight
<1>2. Within(i, lost)'
  BY <1>1 DEF Within
<1> QED BY <1>2 DEF Guessed

(* A session that no step of this call touches, nor the call looks at.     *)
LEMMA GuessedStays ==
    ASSUME Typed, Typed', NEW c \in Calls, NEW k, Go(c, k), NEW i \in DOMAIN sessions, Guessed(i),
           Looking(call[c], i) => Looking(k, i) /\ k.challenge = call[c].challenge,
           Looking(k, i) => Looking(call[c], i),
           mfa'[i] = mfa[i], wrong'[i] = wrong[i], overlaps' >= overlaps
    PROVE  Guessed(i)'
<1>1. PICK lost : Within(i, lost)
  BY DEF Guessed
<1>2. Counted(i)' = Counted(i) /\ Uncounted(i)' = Uncounted(i) /\ Stale(i)' = Stale(i)
  BY SetsStay
<1>3. Weight(Counted(i), Stale(i), Uncounted(i)) \in Nat /\ overlaps \in Nat /\ overlaps' \in Nat
  BY GuessSets DEF Typed, RowsTyped
<1> QED BY <1>1, <1>2, <1>3, WithinNext DEF Within

LEMMA TendedStays ==
    ASSUME Typed, NEW c \in Calls, NEW k, Go(c, k), NEW i \in DOMAIN sessions, Tended(i),
           call[c].pc \in {"mfa", "verified"} => call[c].id # i,
           mfa'[i].open = mfa[i].open, sessions[i].verified => sessions'[i].verified
    PROVE  Tended(i)'
  BY Goes DEF Tended

(* The steps that leave the second factor alone.                           *)
Apart(k) == k.pc \notin SessionCall

LEMMA ApartGuess ==
    ASSUME Typed, Typed', GuessSound, NEW c \in Calls, NEW k, Go(c, k), Apart(call[c]), Apart(k),
           UNCHANGED <<mfa, wrong, faults>>, overlaps' >= overlaps, DOMAIN sessions' = DOMAIN sessions,
           \A i \in DOMAIN sessions : sessions[i].verified => sessions'[i].verified
    PROVE  GuessSound'
<1>1. call'[c] = k /\ \A d \in Calls \ {c} : call'[d] = call[d]
  BY Goes
<1>2. \A i : ~Looking(call[c], i) /\ ~Looking(k, i)
  BY DEF Apart, Looking, SessionCall
<1>3. FailuresBounded'
  BY <1>1 DEF GuessSound, FailuresBounded, Apart, SessionCall
<1>4. ASSUME NEW d \in Calls PROVE Pending(d)'
  <2>1. CASE d = c
    BY <1>1, <2>1 DEF Pending, Apart, SessionCall
  <2>2. CASE d # c
    <3>1. Pending(d) /\ call'[d] = call[d]
      BY <1>1, <2>2 DEF GuessSound
    <3>2. \A i : Counted(i)' = Counted(i)
      BY <1>2, SetsStay
    <3>3. \A e \in Calls : call'[e].pc = "mfa" => call'[e] = call[e]
      BY <1>1 DEF Apart, SessionCall
    <3>4. call[d].pc = "mfa" => Counted(call[d].id)' = {}
      BY <3>1, <3>2 DEF Pending
    <3> QED BY <3>1, <3>3, <3>4 DEF Pending
  <2> QED BY <2>1, <2>2
<1>5. ASSUME faults' = 0, NEW i \in DOMAIN sessions' PROVE Tended(i)' /\ Guessed(i)'
  <2>1. Tended(i) /\ Guessed(i) /\ i \in DOMAIN sessions
    BY <1>5 DEF GuessSound
  <2> QED BY <1>2, <2>1, TendedStays, GuessedStays DEF Apart, SessionCall
<1> QED BY <1>3, <1>4, <1>5 DEF GuessSound

(* Beginning a call: verifyMfa is let in for a session that is not         *)
(* verified, so that, if its challenge is not open, another call is at it. *)
LEMMA EnterGuess ==
    ASSUME Typed, Typed', GuessSound, NEW c \in Calls, Enters(c)
    PROVE  GuessSound'
<1>1. /\ UNCHANGED <<user, sessions, mfa, challenges, now, history>> /\ call[c].pc = "idle"
      /\ Begin /\ wrong' = wrong /\ faults' = faults /\ overlaps' \in Nat /\ overlaps \in Nat
  BY Entering DEF history, Begin, Typed, RowsTyped
<1>2. PICK k : Go(c, k) /\ Entered(k)
  BY Entering
<1>3. overlaps' >= overlaps /\ (~Quiet => overlaps' = overlaps + 1)
  BY <1>1 DEF Begin
<1>a. overlaps \in Nat /\ overlaps' \in Nat /\ overlaps' >= overlaps
      /\ (~Quiet => overlaps' = overlaps + 1)
  BY <1>1, <1>3
<1>4. \A i : ~Looking(call[c], i)
  BY <1>1 DEF Looking
<1>5. CASE Apart(k)
  BY <1>1, <1>2, <1>3, <1>5, ApartGuess DEF Apart, SessionCall
<1>6. CASE ~Apart(k)
  <2> DEFINE i == k.id
  <2>1. /\ k \in Verifying /\ i \in DOMAIN sessions /\ k.pc \in {"code", "totp"}
        /\ k.challenge = mfa[i] /\ ~k.session.verified /\ k.session = sessions[i]
    BY <1>2, <1>6 DEF Entered, Apart, SessionCall, SigningIn, Presenting, Managing
  <2>2. Looking(k, i) /\ ~sessions[i].verified /\ i \in DOMAIN mfa
    <3>1. Looking(k, i)
      BY <2>1 DEF Looking
    <3>2. ~sessions[i].verified
      BY <2>1
    <3>3. DOMAIN mfa = DOMAIN sessions
      BY DEF Typed, RowsTyped
    <3> QED BY <2>1, <3>1, <3>2, <3>3
  <2> HIDE DEF i
  <2>3. \A j : Looking(k, j) => j = i
    BY DEF Looking, i
  <2>4. call'[c] = k /\ \A d \in Calls \ {c} : call'[d] = call[d]
    BY <1>2, Goes
  <2>5. FailuresBounded'
    BY <1>1, <2>1, <2>2, <2>4 DEF GuessSound, FailuresBounded
  <2>6. /\ Counted(i)' = IF mfa[i].open THEN Counted(i) \cup {c} ELSE Counted(i)
        /\ Uncounted(i)' = IF mfa[i].open THEN Uncounted(i) ELSE Uncounted(i) \cup {c}
        /\ Stale(i)' = Stale(i) /\ c \notin Counted(i) /\ c \notin Uncounted(i)
    BY <1>1, <1>2, <1>4, <2>1, <2>2, SetsMore
  <2>7. \A j : j # i => Counted(j)' = Counted(j)
    BY <1>2, <1>4, <2>3, SetsStay
  <2>8. ASSUME NEW d \in Calls PROVE Pending(d)'
    <3>1. CASE d = c
      BY <2>1, <2>4, <3>1 DEF Pending
    <3>2. CASE d # c
      <4>1. Pending(d) /\ call'[d] = call[d]
        BY <2>4, <3>2 DEF GuessSound
      <4>2. \A e \in Calls : call'[e].pc = "mfa" => call'[e] = call[e]
        BY <2>1, <2>4
      <4>3. call[d].pc = "mfa" /\ call[d].id = i => Counted(i)' = {}
        BY <2>6, <4>1 DEF Pending, NoChallenge
      <4>4. call[d].pc = "mfa" => Counted(call[d].id)' = {}
        BY <2>7, <4>1, <4>3 DEF Pending
      <4> QED BY <1>1, <4>1, <4>2, <4>4 DEF Pending
    <3> QED BY <3>1, <3>2
  <2>9. ASSUME faults' = 0, NEW j \in DOMAIN sessions' PROVE Tended(j)' /\ Guessed(j)'
    <3>1. Tended(j) /\ Guessed(j) /\ j \in DOMAIN sessions
      BY <1>1, <2>9 DEF GuessSound
    <3>2. Tended(j)'
      BY <1>1, <1>2, <3>1, TendedStays
    <3>3. CASE j # i
      BY <1>1, <1>2, <1>3, <1>4, <2>3, <3>1, <3>2, <3>3, GuessedStays
    <3>4. CASE j = i
      <4>1. PICK lost : Within(i, lost)
        BY <3>1, <3>4 DEF Guessed
      <4>2. /\ IsFiniteSet(Counted(i)) /\ IsFiniteSet(Uncounted(i)) /\ Stale(i) \in SUBSET Counted(i)
            /\ Weight(Counted(i), Stale(i), Uncounted(i)) \in Nat
        BY GuessSets
      <4> DEFINE w == Weight(Counted(i), Stale(i), Uncounted(i))
                 v == Weight(Counted(i)', Stale(i)', Uncounted(i)')
      <4>3. v <= w + (overlaps' - overlaps)
        <5>1. CASE mfa[i].open
          <6>1. /\ Weight(Counted(i) \cup {c}, Stale(i), Uncounted(i)) <= w + 1
                /\ Counted(i) = {} => Weight(Counted(i) \cup {c}, Stale(i), Uncounted(i)) = w
            BY <2>6, <4>2, WeightMore
          <6>2. Counted(i)' = Counted(i) \cup {c} /\ Uncounted(i)' = Uncounted(i)
            BY <2>6, <5>1
          <6>3. v = Weight(Counted(i) \cup {c}, Stale(i), Uncounted(i))
            BY <2>6, <6>2
          <6>4. Counted(i) # {} => ~Quiet
            BY DEF Counted, Looking, Quiet
          <6> HIDE DEF v, w
          <6>5. w \in Nat
            BY <4>2 DEF w
          <6>6. CASE Counted(i) = {}
            <7>1. v = w
              BY <6>1, <6>3, <6>6
            <7>2. \A a, o, p \in Nat : p >= o => a <= a + (p - o)
              OBVIOUS
            <7>3. w <= w + (overlaps' - overlaps)
              BY <1>a, <6>5, <7>2
            <7> QED BY <7>1, <7>3
          <6>7. CASE Counted(i) # {}
            BY <1>a, <6>1, <6>3, <6>4, <6>5, <6>7
          <6> QED BY <6>6, <6>7
        <5>2. CASE ~mfa[i].open
          <6>1. Weight(Counted(i), Stale(i), Uncounted(i) \cup {c}) = w + 1
            BY <2>6, <4>2, WeightUncounted
          <6>2. v = w + 1
            BY <2>6, <5>2, <6>1
          <6>3. ~Quiet
            BY <2>2, <3>1, <3>4, <5>2 DEF Tended, Quiet
          <6> HIDE DEF v, w
          <6>4. w \in Nat
            BY <4>2 DEF w
          <6> QED BY <1>a, <6>2, <6>3, <6>4
        <5> QED BY <5>1, <5>2
      <4> HIDE DEF v, w
      <4>4. w \in Nat /\ lost \in Nat /\ lost + w <= overlaps
        BY <4>1, <4>2 DEF Within, w
      <4>5. v \in Int
        <5>1. Weight(Counted(i), Stale(i), Uncounted(i) \cup {c}) \in Nat
          BY <2>6, <4>2, <4>4, WeightUncounted DEF w
        <5>2. CASE ~mfa[i].open
          BY <2>6, <5>1, <5>2 DEF v
        <5>3. CASE mfa[i].open
          <6>1. IsFiniteSet(Counted(i) \cup {c}) /\ Stale(i) \in SUBSET (Counted(i) \cup {c})
            BY <4>2, FS_AddElement
          <6>2. Weight(Counted(i) \cup {c}, Stale(i), Uncounted(i)) \in Nat
            BY <4>2, <6>1, WeightUncounted
          <6> QED BY <2>6, <5>3, <6>2 DEF v
        <5> QED BY <5>2, <5>3
      <4>6. lost + v <= overlaps'
        <5>1. \A o, p \in Nat, a \in Nat, b \in Int : a + lost <= o /\ b <= a + (p - o) => lost + b <= p
          BY <4>4
        <5>2. w + lost <= overlaps
          BY <1>a, <4>4
        <5> QED BY <1>a, <4>3, <4>4, <4>5, <5>1, <5>2
      <4>7. wrong'[i] <= mfa'[i].failed + MaxFailed * lost
        BY <1>1, <4>1 DEF Within
      <4> QED BY <3>1, <3>2, <3>4, <4>4, <4>6, <4>7, WithinNext DEF v
    <3> QED BY <3>2, <3>3, <3>4
  <2> QED BY <2>5, <2>8, <2>9 DEF GuessSound
<1> QED BY <1>5, <1>6

(* The challenge of a new session, and then its code.                      *)
LEMMA SignInGuess ==
    ASSUME Typed, Typed', GuessSound, NEW c \in Calls, createSession(c) \/ createMfaChallenge(c)
    PROVE  GuessSound'
<1> DEFINE k == call[c]
<1>0. k \in CallState /\ overlaps \in Nat
  BY DEF Typed, RowsTyped
<1>1. CASE createSession(c)
  <2>0. PICK n : n = Len(sessions) + 1
    OBVIOUS
  <2> DEFINE row == [expires |-> now + SessionLife, verified |-> k.verified, revoked |-> FALSE, since |-> k.since]
             next == IF k.verified THEN IdleCall ELSE [pc |-> "mfa", id |-> n]
  <2>1. k \in SigningIn /\ k.pc = "session"
    BY <1>0, <1>1, Shapes DEF createSession, CallAt
  <2>2. row \in Session /\ row.verified = k.verified /\ NoChallenge \in MfaRow
    BY <2>1, NowPlus DEF SigningIn, Session, NoChallenge, MfaRow
  <2>3. /\ next.pc \in {"idle", "mfa"} /\ (next.pc = "mfa" => next.id = n)
        /\ row.verified = TRUE \/ next.pc = "mfa"
    BY <2>1, <2>2 DEF IdleCall, SigningIn
  <2>4. /\ sessions' = Append(sessions, row) /\ mfa' = Append(mfa, NoChallenge) /\ wrong' = Append(wrong, 0)
        /\ Go(c, next) /\ UNCHANGED <<overlaps, faults>>
    BY <1>1, <2>0 DEF createSession, counters
  <2> HIDE DEF row, next
  <2>5. call'[c] = next /\ \A d \in Calls \ {c} : call'[d] = call[d]
    BY <2>4, Goes
  <2>6. /\ DOMAIN sessions' = DOMAIN sessions \cup {n} /\ n \notin DOMAIN sessions /\ sessions'[n] = row
        /\ \A i \in DOMAIN sessions : sessions'[i] = sessions[i]
    BY <2>0, <2>2, <2>4, Appended DEF Typed, RowsTyped
  <2>7. /\ DOMAIN mfa' = DOMAIN sessions' /\ DOMAIN mfa = DOMAIN sessions /\ mfa'[n] = NoChallenge
        /\ \A i \in DOMAIN sessions : mfa'[i] = mfa[i]
    BY <2>0, <2>2, <2>4, Appended DEF Typed, RowsTyped
  <2>8. wrong'[n] = 0 /\ \A i \in DOMAIN sessions : wrong'[i] = wrong[i]
    BY <2>0, <2>4, Appended DEF Typed, RowsTyped
  <2>9. \A i : ~Looking(k, i) /\ ~Looking(next, i)
    BY <2>1, <2>3 DEF Looking
  <2>10. \A i : Counted(i)' = Counted(i) /\ Uncounted(i)' = Uncounted(i)
    BY <2>4, <2>9, SetsStay
  <2>11. \A d \in Calls : call[d].pc \in SessionCall => call[d].id \in DOMAIN sessions /\ call[d].id # n
    BY <2>6 DEF Typed
  <2>12. Counted(n) = {} /\ Uncounted(n) = {}
    BY <2>11 DEF Counted, Uncounted, Looking, SessionCall
  <2>13. FailuresBounded'
    BY <2>3, <2>5, <2>6, <2>7, LivesAssumption DEF GuessSound, FailuresBounded, NoChallenge
  <2>14. ASSUME NEW d \in Calls PROVE Pending(d)'
    <3>1. CASE d = c
      <4>1. \A e \in Calls \ {c} : call'[e].pc = "mfa" => call'[e].id # n
        BY <2>5, <2>11 DEF SessionCall
      <4> QED BY <2>3, <2>5, <2>7, <2>10, <2>12, <3>1, <4>1 DEF Pending
    <3>2. CASE d # c
      <4>1. Pending(d) /\ call'[d] = call[d]
        BY <2>5, <3>2 DEF GuessSound
      <4>2. call[d].pc = "mfa" => call[d].id \in DOMAIN sessions /\ call[d].id # n
        BY <2>11 DEF SessionCall
      <4>3. call[d].pc = "mfa" => mfa'[call[d].id] = NoChallenge /\ Counted(call[d].id)' = {}
        BY <2>7, <2>10, <4>1, <4>2 DEF Pending
      <4>4. call[d].pc = "mfa" => \A e \in Calls \ {d} : call'[e].pc = "mfa" => call'[e].id # call[d].id
        BY <2>3, <2>5, <4>1, <4>2 DEF Pending
      <4> QED BY <4>1, <4>3, <4>4 DEF Pending
    <3> QED BY <3>1, <3>2
  <2>15. ASSUME faults' = 0, NEW i \in DOMAIN sessions' PROVE Tended(i)' /\ Guessed(i)'
    <3>1. CASE i = n
      <4>1. Tended(n)'
        BY <2>3, <2>5, <2>6 DEF Tended
      <4>2. Weight({}, {}, {}) = 0
        BY FS_EmptySet DEF Weight
      <4>3. Weight(Counted(n), Stale(n), Uncounted(n))' = Weight(Counted(n)', Stale(n)', Uncounted(n)')
        BY DEF Weight
      <4>4. Counted(n)' = {} /\ Uncounted(n)' = {} /\ Stale(n)' = {}
        BY <2>10, <2>12, GuessSets
      <4>a. mfa'[n].failed = 0
        BY <2>7 DEF NoChallenge
      <4>b. overlaps' \in Nat
        BY <1>0, <2>4
      <4>5. mfa'[n].failed = 0 /\ overlaps' \in Nat /\ MaxFailed * 0 = 0
        BY <4>a, <4>b, LivesAssumption
      <4>6. Within(n, 0)'
        BY <2>8, <4>2, <4>3, <4>4, <4>5 DEF Within
      <4> QED BY <3>1, <4>1, <4>6 DEF Guessed
    <3>2. CASE i # n
      <4>1. i \in DOMAIN sessions /\ Tended(i) /\ Guessed(i)
        BY <2>4, <2>6, <2>15, <3>2 DEF GuessSound
      <4>2. mfa'[i] = mfa[i] /\ wrong'[i] = wrong[i] /\ sessions'[i] = sessions[i]
        BY <2>6, <2>7, <2>8, <4>1
      <4>a. overlaps' >= overlaps
        BY <1>0, <2>4
      <4>3. Tended(i)'
        BY <2>1, <2>4, <4>1, <4>2, TendedStays
      <4>4. Guessed(i)'
        BY <2>4, <2>9, <4>1, <4>2, <4>a, GuessedStays
      <4> QED BY <4>3, <4>4
    <3> QED BY <3>1, <3>2
  <2> QED BY <2>13, <2>14, <2>15 DEF GuessSound
<1>2. CASE createMfaChallenge(c)
  <2> DEFINE row == [open |-> TRUE, expires |-> now + MfaLife, failed |-> 0]
             n == k.id
  <2>1. n \in DOMAIN mfa /\ row \in MfaRow /\ row.open = TRUE /\ row.failed = 0 /\ k.pc = "mfa"
    BY <1>2, NowPlus DEF createMfaChallenge, CallAt, Typed, RowsTyped, SessionCall, MfaRow
  <2>2. mfa' = [mfa EXCEPT ![n] = row] /\ Go(c, IdleCall) /\ UNCHANGED <<sessions, wrong, overlaps, faults>>
    BY <1>2 DEF createMfaChallenge, Done, history, counters
  <2> HIDE DEF row
  <2>3. call'[c] = IdleCall /\ \A d \in Calls \ {c} : call'[d] = call[d]
    BY <2>2, Goes
  <2>4. /\ DOMAIN mfa' = DOMAIN mfa /\ mfa'[n] = row
        /\ \A i \in DOMAIN mfa \ {n} : mfa'[i] = mfa[i]
    BY <2>1, <2>2, Replaced DEF Typed, RowsTyped
  <2>5. mfa[n] = NoChallenge /\ \A d \in Calls \ {c} : call[d].pc = "mfa" => call[d].id # n
    BY <2>1 DEF GuessSound, Pending
  <2> HIDE DEF n
  <2>6. \A i : ~Looking(k, i) /\ ~Looking(IdleCall, i)
    BY <2>1 DEF Looking, IdleCall
  <2>7. /\ \A i : Counted(i)' = Counted(i) /\ Uncounted(i)' = Uncounted(i)
        /\ \A i \in DOMAIN mfa : mfa'[i].failed = mfa[i].failed
    BY <2>1, <2>2, <2>4, <2>5, <2>6, SetsStay DEF NoChallenge
  <2>8. FailuresBounded'
    BY <2>3, <2>4, <2>7 DEF GuessSound, FailuresBounded, IdleCall
  <2>9. ASSUME NEW d \in Calls PROVE Pending(d)'
    <3>1. CASE d = c
      BY <2>3, <3>1 DEF Pending, IdleCall
    <3>2. CASE d # c
      <4>1. Pending(d) /\ call'[d] = call[d]
        BY <2>3, <3>2 DEF GuessSound
      <4>2. call[d].pc = "mfa" => call[d].id \in DOMAIN mfa \ {n}
        BY <2>5, <3>2 DEF Typed, RowsTyped, SessionCall
      <4>3. call[d].pc = "mfa" => mfa'[call[d].id] = NoChallenge /\ Counted(call[d].id)' = {}
        BY <2>4, <2>7, <4>1, <4>2 DEF Pending
      <4>4. \A e \in Calls : call'[e].pc = "mfa" => call'[e] = call[e]
        BY <2>3 DEF IdleCall
      <4> QED BY <4>1, <4>3, <4>4 DEF Pending
    <3> QED BY <3>1, <3>2
  <2>10. ASSUME faults' = 0, NEW i \in DOMAIN sessions' PROVE Tended(i)' /\ Guessed(i)'
    <3>1. i \in DOMAIN sessions /\ i \in DOMAIN mfa /\ Tended(i) /\ Guessed(i)
      BY <2>2, <2>10 DEF GuessSound, Typed, RowsTyped
    <3>2. Tended(i)'
      <4>1. CASE i = n
        BY <2>1, <2>4, <4>1 DEF Tended
      <4>2. CASE i # n
        <5>1. mfa'[i] = mfa[i] /\ (k.pc \in {"mfa", "verified"} => k.id # i)
          BY <2>4, <3>1, <4>2 DEF n
        <5> QED BY <2>2, <3>1, <5>1, TendedStays
      <4> QED BY <4>1, <4>2
    <3>3. Guessed(i)'
      <4>1. PICK lost : Within(i, lost)
        BY <3>1 DEF Guessed
      <4>2. Stale(i)' = Stale(i)
        BY <2>2, <2>6, <2>7, <3>1, SetsStay
      <4> QED BY <2>2, <2>7, <3>1, <4>1, <4>2, WithinNext DEF Within
    <3> QED BY <3>2, <3>3
  <2> QED BY <2>8, <2>9, <2>10 DEF GuessSound
<1> QED BY <1>1, <1>2

(* A call that looked at session i and no longer does.                     *)
LEMMA LeaveWeight ==
    ASSUME Typed, NEW c \in Calls, NEW k, Go(c, k), NEW i, Looking(call[c], i), ~Looking(k, i),
           NEW w, w = Weight(Counted(i), Stale(i), Uncounted(i)),
           NEW v, v = Weight(Counted(i)', Stale(i)', Uncounted(i)')
    PROVE  /\ v \in Nat /\ w \in Nat
           /\ call[c].challenge.open => v <= w
           /\ call[c].challenge.open /\ call[c].challenge.failed # mfa[i].failed => v + 1 <= w
           /\ ~call[c].challenge.open /\ mfa'[i] = mfa[i] => v + 1 <= w
           /\ v <= w \/ mfa'[i] # mfa[i]
<1>1. /\ Counted(i)' = Counted(i) \ {c} /\ Uncounted(i)' = Uncounted(i) \ {c}
      /\ c \in Counted(i) <=> call[c].challenge.open
      /\ c \in Uncounted(i) <=> ~call[c].challenge.open
      /\ mfa[i].failed' = mfa[i].failed => Stale(i)' = Stale(i) \ {c}
  BY SetsLess
<1>2. /\ IsFiniteSet(Counted(i)) /\ IsFiniteSet(Uncounted(i)) /\ Stale(i) \in SUBSET Counted(i)
      /\ w \in Nat /\ Stale(i)' \in SUBSET Counted(i)'
  BY GuessSets
<1>3. CASE call[c].challenge.open
  <2>1. c \in Counted(i) /\ Uncounted(i)' = Uncounted(i) /\ Stale(i)' \in SUBSET (Counted(i) \ {c})
    BY <1>1, <1>2, <1>3
  <2>2. v = Weight(Counted(i) \ {c}, Stale(i)', Uncounted(i))
    BY <1>1, <2>1
  <2>3. v \in Nat /\ v <= w /\ (c \in Stale(i) => v + 1 <= w)
    <3> DEFINE C == Counted(i) U == Uncounted(i) S == Stale(i) T == Stale(i)'
    <3>1. IsFiniteSet(C) /\ IsFiniteSet(U) /\ S \in SUBSET C /\ c \in C /\ T \in SUBSET (C \ {c})
      BY <1>2, <2>1
    <3>2. v = Weight(C \ {c}, T, U) /\ w = Weight(C, S, U)
      BY <2>2
    <3> HIDE DEF C, U, S, T
    <3>3. v \in Nat /\ v <= w /\ (c \in S => v + 1 <= w)
      BY <3>1, <3>2, WeightLess
    <3> QED BY <3>3 DEF S
  <2>4. call[c].challenge.failed # mfa[i].failed => c \in Stale(i)
    BY <2>1 DEF Stale
  <2> QED BY <1>2, <1>3, <2>3, <2>4
<1>4. CASE ~call[c].challenge.open
  <2>1. Counted(i)' = Counted(i) /\ c \in Uncounted(i) /\ c \notin Counted(i)
    BY <1>1, <1>4 DEF Counted
  <2>2. v \in Nat
    <3>1. IsFiniteSet(Uncounted(i) \ {c})
      BY <1>2, FS_Subset
    <3> DEFINE C == Counted(i)' U == Uncounted(i)' T == Stale(i)'
    <3>2. IsFiniteSet(C) /\ IsFiniteSet(U) /\ T \in SUBSET C /\ v = Weight(C, T, U)
      BY <1>1, <1>2, <2>1, <3>1
    <3> HIDE DEF C, T, U
    <3> QED BY <3>2, WeightUncounted
  <2>3. mfa'[i] = mfa[i] => v + 1 = w
    <3>1. mfa'[i] = mfa[i] => Stale(i)' = Stale(i)
      BY <1>1, <1>2, <2>1
    <3>2. Weight(Counted(i), Stale(i), Uncounted(i) \ {c}) + 1 = w
      BY <1>2, <2>1, WeightUncounted
    <3> QED BY <1>1, <2>1, <3>1, <3>2
  <2> QED BY <1>2, <1>4, <2>2, <2>3
<1> QED BY <1>3, <1>4

(* What the leaving call writes: nothing; a guess that nothing counts; or  *)
(* its copy of the challenge, with the guess counted if it was one.        *)
Leaves(c, next, i) ==
    \/ UNCHANGED <<mfa, wrong>>
    \/ /\ ~call[c].challenge.open /\ mfa' = mfa
       /\ wrong' = [wrong EXCEPT ![i] = wrong[i] + 1]
    \/ /\ call[c].challenge.open
       /\ \E row \in MfaRow, n \in {0, 1} :
             /\ mfa' = [mfa EXCEPT ![i] = row] /\ row.failed = call[c].challenge.failed + n
             /\ row.failed <= MaxFailed
             /\ wrong' = [wrong EXCEPT ![i] = wrong[i] + n]
             /\ row.open \/ next.pc = "verified"

LEMMA LeaveGuess ==
    ASSUME Typed, Typed', GuessSound, NEW c \in Calls, NEW next, Go(c, next), NEW i \in DOMAIN sessions,
           call[c] \in Verifying, Looking(call[c], i), next.pc \in {"idle", "verified"},
           next.pc = "verified" => next.id = i,
           UNCHANGED <<sessions, overlaps, faults>>, Leaves(c, next, i)
    PROVE  GuessSound'
<1> DEFINE k == call[c]
<1>0. /\ k.challenge \in MfaRow /\ DOMAIN mfa = DOMAIN sessions /\ DOMAIN wrong = DOMAIN sessions
      /\ mfa \in Seq(MfaRow) /\ wrong \in Seq(Nat) /\ wrong[i] \in Nat /\ mfa[i].failed \in Nat
  BY Copies, Rows
<1>1. call'[c] = next /\ \A d \in Calls \ {c} : call'[d] = call[d]
  BY Goes
<1>2. /\ ~Looking(next, i) /\ k.pc \in {"code", "totp", "consume"} /\ k.id = i
      /\ \A j : j # i => ~Looking(k, j) /\ ~Looking(next, j)
  BY DEF Looking
<1>3. \A j \in DOMAIN sessions \ {i} : mfa'[j] = mfa[j] /\ wrong'[j] = wrong[j]
  BY <1>0 DEF Leaves
<1>4. DOMAIN mfa' = DOMAIN mfa
  BY <1>0 DEF Leaves
<1>5. \/ mfa' = mfa
      \/ /\ k.challenge.open /\ mfa'[i].failed <= MaxFailed
         /\ mfa'[i].open \/ next.pc = "verified"
  BY <1>0, Replaced DEF Leaves
<1>6. FailuresBounded'
  BY <1>0, <1>1, <1>3, <1>4, <1>5 DEF GuessSound, FailuresBounded
<1>7. Counted(i)' = Counted(i) \ {c} /\ (c \in Counted(i) <=> k.challenge.open)
  BY <1>2, SetsLess
<1>8. \A j : j # i => Counted(j)' = Counted(j)
  BY <1>2, SetsStay
<1>9. ASSUME NEW d \in Calls PROVE Pending(d)'
  <2>1. CASE d = c
    BY <1>1, <2>1 DEF Pending
  <2>2. CASE d # c
    <3>1. Pending(d) /\ call'[d] = call[d]
      BY <1>1, <2>2 DEF GuessSound
    <3>2. \A e \in Calls : call'[e].pc = "mfa" => call'[e] = call[e]
      BY <1>1
    <3>3. call[d].pc = "mfa" => call[d].id \in DOMAIN sessions
      BY DEF Typed, SessionCall
    <3>4. ASSUME call[d].pc = "mfa", call[d].id = i PROVE mfa'[i] = NoChallenge /\ Counted(i)' = {}
      BY <1>5, <1>7, <3>1, <3>4 DEF Pending
    <3>5. ASSUME call[d].pc = "mfa", call[d].id # i
          PROVE  mfa'[call[d].id] = NoChallenge /\ Counted(call[d].id)' = {}
      BY <1>3, <1>8, <3>1, <3>3, <3>5 DEF Pending
    <3> QED BY <3>1, <3>2, <3>4, <3>5 DEF Pending
  <2> QED BY <2>1, <2>2
<1>10. ASSUME faults' = 0, NEW j \in DOMAIN sessions' PROVE Tended(j)' /\ Guessed(j)'
  <2>1. j \in DOMAIN sessions /\ Tended(j) /\ Guessed(j) /\ overlaps \in Nat
    BY <1>10 DEF GuessSound, Typed, RowsTyped
  <2>2. Tended(j)'
    <3>1. CASE mfa'[j].open = mfa[j].open
      BY <1>2, <2>1, <3>1, TendedStays
    <3>2. CASE mfa'[j].open # mfa[j].open
      <4>1. j = i /\ (mfa'[i].open \/ next.pc = "verified")
        BY <1>3, <1>5, <2>1, <3>2
      <4> QED BY <1>1, <4>1 DEF Tended
    <3> QED BY <3>1, <3>2
  <2>3. CASE j # i
    BY <1>2, <1>3, <2>1, <2>2, <2>3, GuessedStays
  <2>4. CASE j = i
    <3>1. PICK lost : Within(i, lost)
      BY <2>1, <2>4 DEF Guessed
    <3> DEFINE w == Weight(Counted(i), Stale(i), Uncounted(i))
               v == Weight(Counted(i)', Stale(i)', Uncounted(i)')
    <3>2. lost \in Nat /\ lost + w <= overlaps /\ wrong[i] <= mfa[i].failed + MaxFailed * lost
      BY <3>1 DEF Within
    <3>3. /\ v \in Nat /\ w \in Nat
          /\ k.challenge.open => v <= w
          /\ k.challenge.open /\ k.challenge.failed # mfa[i].failed => v + 1 <= w
          /\ ~k.challenge.open /\ mfa'[i] = mfa[i] => v + 1 <= w
          /\ v <= w \/ mfa'[i] # mfa[i]
      BY <1>2, LeaveWeight
    <3> HIDE DEF v, w
    <3>4. \A l \in Nat : l + v <= overlaps /\ wrong'[i] <= mfa'[i].failed + MaxFailed * l => Guessed(i)'
      BY <2>1, <2>4, WithinNext DEF v
    <3>5. /\ MaxFailed \in Nat /\ MaxFailed >= 1 /\ MaxFailed * lost \in Nat
          /\ MaxFailed * (lost + 1) = MaxFailed * lost + MaxFailed
      BY <3>2, LivesAssumption
    <3> DEFINE m == MaxFailed * lost
    <3>6. m \in Nat /\ MaxFailed * (lost + 1) = m + MaxFailed /\ wrong[i] <= mfa[i].failed + m
      BY <3>2, <3>5
    <3>7. MaxFailed * lost = m
      OBVIOUS
    <3> HIDE DEF m
    <3>8. mfa[i].failed <= MaxFailed
      BY <1>0 DEF GuessSound, FailuresBounded
    <3>a. CASE UNCHANGED <<mfa, wrong>>
      BY <2>1, <2>2, <2>4, <3>2, <3>3, <3>4, <3>a
    <3>b. CASE ~k.challenge.open /\ mfa' = mfa /\ wrong' = [wrong EXCEPT ![i] = wrong[i] + 1]
      <4>1. wrong'[i] = wrong[i] + 1 /\ mfa'[i].failed = mfa[i].failed
        BY <1>0, <3>b
      <4>2. wrong'[i] <= mfa'[i].failed + MaxFailed * (lost + 1)
        BY <1>0, <3>5, <3>6, <4>1
      <4>3. lost + 1 \in Nat /\ (lost + 1) + v <= overlaps
        BY <2>1, <3>2, <3>3, <3>b
      <4> QED BY <2>2, <2>4, <3>4, <4>2, <4>3
    <3>c. ASSUME k.challenge.open, NEW row \in MfaRow, NEW n \in {0, 1},
                 mfa' = [mfa EXCEPT ![i] = row], row.failed = k.challenge.failed + n,
                 wrong' = [wrong EXCEPT ![i] = wrong[i] + n]
          PROVE  Guessed(i)'
      <4>1. /\ wrong'[i] = wrong[i] + n /\ mfa'[i].failed = k.challenge.failed + n
            /\ k.challenge.failed \in Nat /\ n \in Nat
        <5>0. \A r \in MfaRow : r.failed \in Nat
          BY DEF MfaRow
        <5>a. k.challenge.failed \in Nat
          BY <1>0, <5>0
        <5>1. k.challenge.failed \in Nat /\ n \in Nat
          BY <3>c, <5>a
        <5>2. wrong'[i] = wrong[i] + n
          BY <1>0, <3>c
        <5>3. mfa'[i] = row
          BY <1>0, <3>c
        <5> QED BY <3>c, <5>1, <5>2, <5>3
      <4>2. CASE k.challenge.failed = mfa[i].failed
        <5>1. wrong'[i] <= mfa'[i].failed + MaxFailed * lost
          BY <1>0, <3>6, <3>7, <4>1, <4>2
        <5>2. lost + v <= overlaps
          BY <2>1, <3>2, <3>3, <3>c
        <5> QED BY <3>2, <3>4, <5>1, <5>2
      <4>3. CASE k.challenge.failed # mfa[i].failed
        <5>3. \A x, f, g, y, b \in Nat : x <= f + y /\ f <= b => x + n <= (g + n) + (y + b)
          BY <4>1
        <5>0. wrong'[i] <= mfa'[i].failed + (m + MaxFailed)
          <6>1. wrong[i] \in Nat /\ mfa[i].failed \in Nat /\ k.challenge.failed \in Nat
            BY <1>0, <4>1
          <6>2. wrong[i] + n <= (k.challenge.failed + n) + (m + MaxFailed)
            BY <3>5, <3>6, <3>8, <5>3, <6>1
          <6> QED BY <4>1, <6>2
        <5>1. wrong'[i] <= mfa'[i].failed + MaxFailed * (lost + 1)
          BY <3>6, <5>0
        <5>2. lost + 1 \in Nat /\ (lost + 1) + v <= overlaps
          BY <2>1, <3>2, <3>3, <3>c, <4>3
        <5> QED BY <3>4, <5>1, <5>2
      <4> QED BY <4>2, <4>3
    <3> QED BY <2>2, <2>4, <3>a, <3>b, <3>c DEF Leaves
  <2> QED BY <2>2, <2>3, <2>4
<1> QED BY <1>6, <1>9, <1>10 DEF GuessSound

LEMMA MfaGuess ==
    ASSUME Typed, Typed', GuessSound, NEW c \in Calls,
           \/ Refuse(c) \/ WrongCode(c) \/ RightCode(c) \/ verifyAuthenticatorMfa(c)
           \/ verifyRecoveryCodeMfa(c) \/ MfaConsume(c) \/ updateSession(c)
    PROVE  GuessSound'
<1> DEFINE k == call[c]
           i == k.id
<1>0. k \in Verifying /\ i \in DOMAIN sessions /\ wrong \in Seq(Nat) /\ overlaps \in Nat
      /\ DOMAIN wrong = DOMAIN sessions
  <2>1. k \in CallState /\ k.pc \in {"code", "totp", "consume", "verified"}
    BY DEF Typed, Refuse, Locked, WrongCode, RightCode, verifyAuthenticatorMfa, verifyRecoveryCodeMfa,
           MfaConsume, updateSession, Open, CallAt
  <2> QED BY <2>1, Shapes DEF Typed, RowsTyped, SessionCall
<1>1. k.challenge \in MfaRow /\ (k.pc # "verified" => k.challenge.failed <= MaxFailed)
  BY <1>0, Copies DEF GuessSound, FailuresBounded, Verifying
<1>2. CASE Refuse(c)
  <2>1. k.pc \in {"code", "totp"} /\ Go(c, IdleCall) /\ UNCHANGED <<sessions, mfa, wrong, overlaps, faults>>
    BY <1>2 DEF Refuse, CallAt, Done, history, counters
  <2>2. Leaves(c, IdleCall, i) /\ Looking(k, i) /\ IdleCall.pc = "idle"
    BY <2>1 DEF Leaves, Looking, IdleCall
  <2> QED BY <1>0, <2>1, <2>2, LeaveGuess
<1>3. CASE WrongCode(c)
  <2> DEFINE row == Failed(k.challenge)
  <2>1. k.pc \in {"code", "totp"} /\ Go(c, IdleCall) /\ UNCHANGED <<sessions, overlaps, faults>>
    BY <1>3 DEF WrongCode, Open, Done, counters
  <2>2. /\ wrong' = [wrong EXCEPT ![i] = wrong[i] + 1]
        /\ mfa' = (IF k.challenge.open THEN [mfa EXCEPT ![i] = row] ELSE mfa)
    BY <1>3 DEF WrongCode, Found
  <2>3. row \in MfaRow /\ row.failed = k.challenge.failed + 1 /\ row.open = k.challenge.open
    BY <1>0, Copies
  <2>4. k.challenge.open => k.challenge.failed + 1 <= MaxFailed
    BY <1>1, <1>3, LivesAssumption DEF WrongCode, Open, Locked, Found, MfaRow
  <2> HIDE DEF row
  <2>5. Leaves(c, IdleCall, i)
    <3>1. CASE ~k.challenge.open
      BY <2>2, <3>1 DEF Leaves
    <3>2. CASE k.challenge.open
      BY <2>2, <2>3, <2>4, <3>2 DEF Leaves
    <3> QED BY <3>1, <3>2
  <2>6. Looking(k, i) /\ IdleCall.pc = "idle"
    BY <2>1 DEF Looking, IdleCall
  <2> QED BY <1>0, <2>1, <2>5, <2>6, LeaveGuess
<1>4. CASE MfaConsume(c)
  <2> DEFINE row == [k.challenge EXCEPT !.open = FALSE]
             next == Moved(k, "verified")
  <2>1. k.pc = "consume" /\ Go(c, next) /\ UNCHANGED <<sessions, wrong, overlaps, faults>>
        /\ mfa' = (IF k.challenge.open THEN [mfa EXCEPT ![i] = row] ELSE mfa)
    BY <1>4 DEF MfaConsume, CallAt, Found, Moved, history, counters
  <2>2. row \in MfaRow /\ row.failed = k.challenge.failed + 0 /\ row.failed <= MaxFailed
    <3>1. row \in MfaRow /\ row.failed = k.challenge.failed
      BY <1>0, Copies
    <3>2. k.challenge.failed \in Nat
      BY <1>1 DEF MfaRow
    <3> QED BY <1>1, <2>1, <3>1, <3>2
  <2>3. next.pc = "verified" /\ next.id = i
    BY <1>0, Moves
  <2>4. wrong' = [wrong EXCEPT ![i] = wrong[i] + 0]
    BY <1>0, <2>1
  <2> HIDE DEF row, next
  <2>5. Leaves(c, next, i)
    <3>1. CASE ~k.challenge.open
      BY <2>1, <3>1 DEF Leaves
    <3>2. CASE k.challenge.open
      BY <2>1, <2>2, <2>3, <2>4, <3>2 DEF Leaves
    <3> QED BY <3>1, <3>2
  <2>6. Looking(k, i)
    BY <2>1 DEF Looking
  <2> QED BY <1>0, <2>1, <2>3, <2>5, <2>6, LeaveGuess
<1>5. CASE RightCode(c) \/ verifyAuthenticatorMfa(c) \/ verifyRecoveryCodeMfa(c)
  <2> DEFINE next == Moved(k, "consume")
  <2>1. k.pc \in {"code", "totp"} /\ Go(c, next) /\ UNCHANGED <<sessions, mfa, wrong, overlaps, faults>>
    BY <1>5 DEF RightCode, verifyAuthenticatorMfa, verifyRecoveryCodeMfa, CallAt, Moved, history, counters
  <2>2. next.pc = "consume" /\ next.id = i /\ next.challenge = k.challenge
    BY <1>0, Moves
  <2> HIDE DEF next
  <2>3. call'[c] = next /\ \A d \in Calls \ {c} : call'[d] = call[d]
    BY <2>1, Goes
  <2>4. \A j : (Looking(k, j) => Looking(next, j) /\ next.challenge = k.challenge)
               /\ (Looking(next, j) => Looking(k, j))
    BY <2>1, <2>2 DEF Looking
  <2>5. \A j : Counted(j)' = Counted(j)
    BY <2>1, <2>4, SetsStay
  <2>6. FailuresBounded'
    BY <1>1, <2>1, <2>2, <2>3 DEF GuessSound, FailuresBounded
  <2>7. ASSUME NEW d \in Calls PROVE Pending(d)'
    <3>1. CASE d = c
      BY <2>2, <2>3, <3>1 DEF Pending
    <3>2. CASE d # c
      BY <2>1, <2>2, <2>3, <2>5, <3>2 DEF Pending, GuessSound
    <3> QED BY <3>1, <3>2
  <2>8. ASSUME faults' = 0, NEW j \in DOMAIN sessions' PROVE Tended(j)' /\ Guessed(j)'
    <3>1. j \in DOMAIN sessions /\ Tended(j) /\ Guessed(j) /\ overlaps' >= overlaps
      BY <1>0, <2>1, <2>8 DEF GuessSound
    <3> QED BY <2>1, <2>4, <3>1, TendedStays, GuessedStays
  <2> QED BY <2>6, <2>7, <2>8 DEF GuessSound
<1>6. CASE updateSession(c)
  <2> DEFINE row == [k.session EXCEPT !.verified = TRUE]
  <2>1. k.pc = "verified" /\ Go(c, IdleCall) /\ UNCHANGED <<mfa, wrong, overlaps, faults>>
        /\ sessions' = [sessions EXCEPT ![i] = row]
    BY <1>6 DEF updateSession, CallAt, Done, history, counters
  <2>2. row \in Session /\ row.verified = TRUE
    BY <1>0, Copies
  <2> HIDE DEF row
  <2>3. /\ DOMAIN sessions' = DOMAIN sessions /\ sessions'[i] = row
        /\ \A j \in DOMAIN sessions \ {i} : sessions'[j] = sessions[j]
    BY <1>0, <2>1, <2>2, Replaced DEF Typed, RowsTyped
  <2>4. call'[c] = IdleCall /\ \A d \in Calls \ {c} : call'[d] = call[d]
    BY <2>1, Goes
  <2>5. \A j : ~Looking(k, j) /\ ~Looking(IdleCall, j)
    BY <2>1 DEF Looking, IdleCall
  <2>6. \A j : Counted(j)' = Counted(j)
    BY <2>1, <2>5, SetsStay
  <2>7. FailuresBounded'
    BY <2>1, <2>4 DEF GuessSound, FailuresBounded, IdleCall
  <2>8. ASSUME NEW d \in Calls PROVE Pending(d)'
    BY <2>1, <2>4, <2>6 DEF Pending, GuessSound, IdleCall
  <2>9. ASSUME faults' = 0, NEW j \in DOMAIN sessions' PROVE Tended(j)' /\ Guessed(j)'
    <3>1. j \in DOMAIN sessions /\ Tended(j) /\ Guessed(j) /\ overlaps' >= overlaps
      BY <1>0, <2>1, <2>3, <2>9 DEF GuessSound
    <3>2. Guessed(j)'
      BY <2>1, <2>5, <3>1, GuessedStays
    <3>3. CASE j = i
      BY <2>2, <2>3, <3>2, <3>3 DEF Tended
    <3>4. CASE j # i
      BY <2>1, <2>3, <3>1, <3>2, <3>4, TendedStays
    <3> QED BY <3>3, <3>4
  <2> QED BY <2>7, <2>8, <2>9 DEF GuessSound
<1> QED BY <1>2, <1>3, <1>4, <1>5, <1>6

LEMMA ChallengeGuess ==
    ASSUME Typed, Typed', GuessSound, NEW c \in Calls,
           \/ updateAccountChallenge(c) \/ updateUserPassword(c) \/ revokeSessionsForUser(c)
           \/ EnrollSave(c) \/ ConfirmSave(c) \/ RegenerateSave(c)
    PROVE  GuessSound'
<1>1. /\ UNCHANGED <<mfa, wrong, overlaps, faults>>
      /\ call[c].pc \in {"challenge", "password", "revoke", "enroll", "confirm", "regenerate"}
  BY DEF updateAccountChallenge, updateUserPassword, revokeSessionsForUser, EnrollSave, ConfirmSave,
         RegenerateSave, CallAt, history, counters
<1>2. PICK k : Go(c, k) /\ Apart(k)
  <2>1. Apart(IdleCall) /\ Apart([pc |-> "revoke"])
    BY DEF Apart, IdleCall, SessionCall
  <2>2. CASE updateAccountChallenge(c)
    <3>1. call[c] \in Presenting /\ Go(c, call[c].then)
      BY <2>2, Shapes DEF updateAccountChallenge, CallAt, Typed
    <3>2. Apart(call[c].then)
      BY <3>1 DEF Presenting, After, SigningIn, IdleCall, Apart, SessionCall
    <3> QED BY <3>1, <3>2
  <2>3. CASE ~updateAccountChallenge(c)
    BY <2>1, <2>3 DEF updateUserPassword, revokeSessionsForUser, EnrollSave, ConfirmSave, RegenerateSave, Done
  <2> QED BY <2>2, <2>3
<1>3. /\ DOMAIN sessions' = DOMAIN sessions
      /\ \A i \in DOMAIN sessions : sessions[i].verified => sessions'[i].verified
  <2>1. CASE revokeSessionsForUser(c)
    BY <2>1, AllRevoked DEF revokeSessionsForUser, Typed, RowsTyped
  <2>2. CASE ~revokeSessionsForUser(c)
    BY <2>2 DEF updateAccountChallenge, updateUserPassword, EnrollSave, ConfirmSave, RegenerateSave
  <2> QED BY <2>1, <2>2
<1>4. overlaps' >= overlaps /\ Apart(call[c])
  BY <1>1 DEF Apart, SessionCall, Typed, RowsTyped
<1> QED BY <1>1, <1>2, <1>3, <1>4, ApartGuess

(* The steps of no call.                                                   *)
LEMMA CallsStayGuess ==
    ASSUME Typed, Typed', GuessSound, UNCHANGED <<call, mfa, wrong, faults>>, overlaps' >= overlaps,
           DOMAIN sessions' = DOMAIN sessions,
           \A i \in DOMAIN sessions : sessions[i].verified => sessions'[i].verified
    PROVE  GuessSound'
<1>1. \A i : Counted(i)' = Counted(i) /\ Uncounted(i)' = Uncounted(i) /\ Stale(i)' = Stale(i)
  BY DEF Counted, Uncounted, Stale
<1>2. FailuresBounded' /\ \A d \in Calls : Pending(d)'
  BY <1>1 DEF GuessSound, FailuresBounded, Pending
<1>3. ASSUME faults' = 0, NEW i \in DOMAIN sessions' PROVE Tended(i)' /\ Guessed(i)'
  <2>1. i \in DOMAIN sessions /\ Tended(i) /\ Guessed(i)
    BY <1>3 DEF GuessSound
  <2>2. Tended(i)'
    BY <2>1 DEF Tended
  <2>3. PICK lost : Within(i, lost)
    BY <2>1 DEF Guessed
  <2>4. Weight(Counted(i), Stale(i), Uncounted(i)) \in Nat /\ overlaps \in Nat /\ overlaps' \in Nat
    BY GuessSets DEF Typed, RowsTyped
  <2>5. lost \in Nat /\ lost + Weight(Counted(i)', Stale(i)', Uncounted(i)') <= overlaps'
        /\ wrong'[i] <= mfa'[i].failed + MaxFailed * lost
    BY <1>1, <2>3, <2>4 DEF Within
  <2>6. Guessed(i)'
    BY <2>1, <2>5, WithinNext
  <2> QED BY <2>2, <2>6
<1> QED BY <1>2, <1>3 DEF GuessSound

LEMMA OtherGuess ==
    ASSUME Typed, Typed', GuessSound,
           \/ Tick \/ revokeSessionsForAccountDeletion \/ UNCHANGED vars
           \/ \E p \in Purposes : createAccountChallenge(p)
           \/ \E c \in Calls : Crash(c)
    PROVE  GuessSound'
<1>1. CASE Tick \/ UNCHANGED vars \/ \E p \in Purposes : createAccountChallenge(p)
  <2>1. UNCHANGED <<call, mfa, wrong, faults, sessions, overlaps>>
    BY <1>1 DEF Tick, vars, createAccountChallenge, history, counters
  <2> QED BY <2>1, CallsStayGuess DEF Typed, RowsTyped
<1>2. CASE revokeSessionsForAccountDeletion
  <2>1. UNCHANGED <<call, mfa, wrong, faults>> /\ overlaps' >= overlaps
    BY <1>2 DEF revokeSessionsForAccountDeletion, Begin, Typed, RowsTyped
  <2>2. /\ DOMAIN sessions' = DOMAIN sessions
        /\ \A i \in DOMAIN sessions : sessions[i].verified => sessions'[i].verified
    BY <1>2, AllRevoked DEF revokeSessionsForAccountDeletion, Typed, RowsTyped
  <2> QED BY <2>1, <2>2, CallsStayGuess
<1>3. ASSUME NEW c \in Calls, Crash(c) PROVE GuessSound'
  <2>1. Go(c, IdleCall) /\ faults' # 0 /\ UNCHANGED <<mfa, sessions>>
    BY <1>3 DEF Crash, Done, Typed, RowsTyped, history
  <2>2. call'[c] = IdleCall /\ \A d \in Calls \ {c} : call'[d] = call[d]
    BY <2>1, Goes
  <2>3. FailuresBounded'
    BY <2>1, <2>2 DEF GuessSound, FailuresBounded, IdleCall
  <2>4. \A i : Counted(i)' \subseteq Counted(i)
    BY <2>2 DEF Counted, Looking, IdleCall
  <2>5. ASSUME NEW d \in Calls PROVE Pending(d)'
    BY <2>1, <2>2, <2>4 DEF Pending, GuessSound, IdleCall
  <2> QED BY <2>1, <2>3, <2>5 DEF GuessSound
<1> QED BY <1>1, <1>2, <1>3

LEMMA GuessInvariant == Spec => []GuessSound
<1>1. Init => GuessSound
  BY DEF Init, GuessSound, FailuresBounded, Pending, IdleCall
<1>2. Typed /\ Typed' /\ GuessSound /\ [Next]_vars => GuessSound'
  BY StepCases, EnterGuess, SignInGuess, ChallengeGuess, MfaGuess, OtherGuess
<1> QED BY <1>1, <1>2, TypedInvariant, PTL DEF Spec

LEMMA GuessesAreBounded ==
    ASSUME Typed, GuessSound PROVE GuessesBounded
<1> SUFFICES ASSUME faults = 0, NEW i \in DOMAIN wrong PROVE wrong[i] <= MaxFailed * (1 + overlaps)
  BY DEF GuessesBounded
<1>1. PICK lost : Within(i, lost)
  BY Rows DEF GuessSound, Guessed
<1>2. Weight(Counted(i), Stale(i), Uncounted(i)) \in Nat /\ overlaps \in Nat /\ MaxFailed \in Nat
  BY GuessSets, LivesAssumption DEF Typed, RowsTyped
<1>3. lost \in Nat /\ lost <= overlaps
  BY <1>1, <1>2 DEF Within
<1>4. PICK rest \in Nat : overlaps = lost + rest
  <2>1. overlaps - lost \in Nat /\ overlaps = lost + (overlaps - lost)
    BY <1>2, <1>3
  <2> QED BY <2>1
<1>5. MaxFailed * (1 + overlaps) = MaxFailed + MaxFailed * lost + MaxFailed * rest
  BY <1>2, <1>3, <1>4
<1>6. MaxFailed * lost \in Nat /\ MaxFailed * rest \in Nat
  BY <1>2, <1>3, <1>4
<1>7. wrong[i] \in Nat /\ mfa[i].failed \in Nat /\ mfa[i].failed <= MaxFailed
  BY Rows DEF GuessSound, FailuresBounded
<1>8. wrong[i] <= mfa[i].failed + MaxFailed * lost
  BY <1>1 DEF Within
<1> DEFINE a == MaxFailed * lost b == MaxFailed * rest
<1>9. a \in Nat /\ b \in Nat /\ MaxFailed * (1 + overlaps) = MaxFailed + a + b
      /\ wrong[i] <= mfa[i].failed + a
  BY <1>5, <1>6, <1>8
<1> DEFINE all == MaxFailed * (1 + overlaps)
<1>10. all = MaxFailed + a + b
  BY <1>9
<1> HIDE DEF a, b, all
<1>11. wrong[i] <= all
  BY <1>2, <1>7, <1>9, <1>10
<1> QED BY <1>11 DEF all

(* Codes and tokens are used once, of calls that come one at a time, even  *)
(* if some die; and a second factor is guessed at most MaxFailed times, and *)
(* as many times again for each call that overlaps another, if none dies   *)
(* (verifyMfa, completeMfaVerification and the repository's whole-row      *)
(* writes of the challenge).                                               *)
THEOREM CodesInvariant == Spec => []CodesHold
<1>1. Alone => OneTimeOnce
  BY DEF Alone, OnceRows, OneTimeOnce
<1>2. Typed /\ GuessSound => GuessesBounded
  BY GuessesAreBounded
<1> QED BY <1>1, <1>2, AloneInvariant, GuessInvariant, TypedInvariant, PTL DEF CodesHold
-----------------------------------------------------------------------------
(* Rows and requests.                                                      *)
Member == [user : People, tenant : Tenants, role : Roles \cup {"OWNER"}]
Evidence == [user : People, tenant : Tenants, release : Nat]
InviteRow == [offer : Member, by : People, accepted : BOOLEAN,
              expires : {n + InviteLife : n \in Nat}]

Sessions == [pc : {"session", "invite"}, by : People, new : Member]
Accepting == [pc : {"accept"}, by : People, invite : Nat, new : Member]
Joinings == [pc : {"mark", "create", "terms"}, by : People, new : Member,
             existing : BOOLEAN, invite : Nat, evidence : Evidence]

MemberTyped ==
    /\ accounts \in SUBSET People
    /\ \A p \in accounts : \E i \in DOMAIN memberships : memberships[i].user = p
    /\ memberships \in Seq(Member) /\ invites \in Seq(InviteRow) /\ terms \in Seq(Evidence)
    /\ issued \in SUBSET [to : People, for : Member]
    /\ release \in Nat /\ clock \in Nat
    /\ request \in [Calls -> {M!Idle} \cup Sessions \cup Accepting \cup Joinings]
    /\ overlaps \in Nat /\ faults \in Nat

(* What a program counter says of a request's locals.                      *)
LEMMA MemberShapes ==
    ASSUME NEW k \in {M!Idle} \cup Sessions \cup Accepting \cup Joinings
    PROVE  /\ k.pc \in {"idle", "session", "invite", "accept", "mark", "create", "terms"}
           /\ k.pc = "idle" => k = M!Idle
           /\ k.pc \in {"session", "invite"} => k \in Sessions
           /\ k.pc = "accept" => k \in Accepting
           /\ k.pc \in {"mark", "create", "terms"} => k \in Joinings
           /\ k.pc # "idle" => k.new \in Member /\ k.by \in People
  BY DEF M!Idle, Sessions, Accepting, Joinings

OwnerOf(p, t) == [user |-> p, tenant |-> t, role |-> "OWNER"]
OnRecord(m) == \E i \in DOMAIN memberships : memberships[i] = m
TermsOf == \A n \in DOMAIN terms : M!IsMember(terms[n].user, terms[n].tenant)

(* The rows: an account is a member's, and every invite an owner's.        *)
RowsSound ==
    /\ \A i \in DOMAIN memberships : memberships[i].user \in accounts
    /\ \A j \in DOMAIN invites :
          invites[j].offer.role # "OWNER" /\ OnRecord(OwnerOf(invites[j].by, invites[j].offer.tenant))
    /\ TermsOf

(* A tenant that is being registered is nobody else's.                     *)
Reserved(c) ==
    /\ request[c].invite = 0 /\ ~request[c].existing
    /\ ~M!TenantExists(request[c].new.tenant)
    /\ \A d \in Calls \ {c} :
          request[d].pc # "idle" => request[d].new.tenant # request[c].new.tenant

Offered(k) == k.invite \in DOMAIN invites /\ invites[k.invite].offer = k.new

Own(k) ==
    k.by = k.new.user /\ k.evidence.user = k.new.user /\ k.evidence.tenant = k.new.tenant

(* What a request has seen before the step it is at.                       *)
RequestSound(c) ==
    LET k == request[c] IN
    /\ k.pc = "session" => k.by = k.new.user /\ OnRecord(k.new)
    /\ k.pc = "invite" => k.new.role # "OWNER" /\ OnRecord(OwnerOf(k.by, k.new.tenant))
    /\ k.pc = "accept" => Offered(k)
    /\ k.pc = "terms" => Own(k) /\ OnRecord(k.new)
    /\ k.pc \in {"mark", "create"} => Own(k) /\ (k.existing => k.new.user \in accounts)
    /\ k.pc = "mark" => Offered(k)
    /\ k.pc = "create" /\ k.new.role # "OWNER" => Offered(k) /\ invites[k.invite].accepted
    /\ k.pc = "create" /\ k.new.role = "OWNER" => Reserved(c)

(* What it has seen still holds if no other request is in progress.        *)
Fresh(c) ==
    LET k == request[c] IN
    /\ k.pc \in {"mark", "create"} =>
          IF k.existing THEN ~M!IsMember(k.new.user, k.new.tenant) ELSE k.new.user \notin accounts
    /\ k.pc = "terms" => \A n \in DOMAIN terms : terms[n] # k.evidence

MemberSingle == \A c, d \in Calls : request[c].pc # "idle" /\ request[d].pc # "idle" => c = d

(* Who accepted an invite is a member, or a request is making him one.     *)
Used(j) ==
    \/ M!IsMember(invites[j].offer.user, invites[j].offer.tenant)
    \/ \E c \in Calls : request[c].pc = "create" /\ request[c].invite = j
                      /\ request[c].new = invites[j].offer

AloneSound ==
    overlaps = 0 =>
        /\ MemberSingle
        /\ \A c \in Calls : Fresh(c)
        /\ faults = 0 => \A j \in DOMAIN invites : invites[j].accepted => Used(j)

Sound ==
    /\ RowsSound /\ M!MembersAreInvited /\ M!SessionsAreOwn /\ M!TermsAcceptedOnce /\ AloneSound
    /\ \A c \in Calls : RequestSound(c)

(* Rows are never taken back. *)
Keep ==
    /\ accounts \subseteq accounts'
    /\ \A i \in DOMAIN memberships : i \in DOMAIN memberships' /\ memberships'[i] = memberships[i]
    /\ \A j \in DOMAIN invites :
          /\ j \in DOMAIN invites' /\ invites'[j].offer = invites[j].offer
          /\ invites'[j].by = invites[j].by
          /\ invites[j].accepted => invites'[j].accepted

(* A step of one request brings no tenant in that another has reserved.    *)
StepOf(c) ==
    /\ \A d \in Calls \ {c} : request'[d] = request[d]
    /\ Keep
    /\ \A t : M!TenantExists(t)' =>
          M!TenantExists(t) \/ (request[c].pc # "idle" /\ t = request[c].new.tenant)
    /\ request'[c].pc # "idle" =>
          LET t == request'[c].new.tenant IN
          \/ request[c].pc # "idle" /\ request[c].new.tenant = t
          \/ M!TenantExists(t)
          \/ \A d \in Calls : request[d].pc # "idle" => request[d].new.tenant # t
-----------------------------------------------------------------------------
LEMMA MemberAppended ==
    ASSUME NEW S, NEW s \in Seq(S), NEW x \in S
    PROVE  /\ Append(s, x) \in Seq(S)
           /\ DOMAIN Append(s, x) = DOMAIN s \cup {Len(s) + 1}
           /\ Len(s) + 1 \notin DOMAIN s
           /\ DOMAIN s = 1..Len(s)
           /\ \A i \in DOMAIN s : Append(s, x)[i] = s[i]
           /\ Append(s, x)[Len(s) + 1] = x
  OBVIOUS

(* A person who has an account has a first membership.                     *)
LEMMA Earliest ==
    ASSUME MemberTyped, NEW p \in accounts
    PROVE  \E i \in DOMAIN memberships :
              M!FirstMembership(p) = memberships[i] /\ memberships[i].user = p
<1> DEFINE T == {i \in DOMAIN memberships : memberships[i].user = p}
           first(i) == /\ memberships[i].user = p
                       /\ \A j \in 1..(i - 1) : memberships[j].user # p
<1>1. T \subseteq Nat /\ T # {} /\ memberships \in Seq(Member)
  BY DEF MemberTyped
<1>2. PICK i \in T : \A j \in T : <<j, i>> \notin OpToRel(<, Nat)
  BY <1>1, WFMin, NatLessThanWellFounded
<1>3. \A j \in T : ~(j < i)
  BY <1>1, <1>2 DEF OpToRel
<1>4. \A j \in 1..(i - 1) : j \in DOMAIN memberships /\ j < i
  BY <1>1
<1>5. i \in DOMAIN memberships /\ first(i)
  BY <1>2, <1>3, <1>4
<1> DEFINE k == CHOOSE n \in DOMAIN memberships : first(n)
<1> HIDE DEF first
<1>6. k \in DOMAIN memberships /\ first(k)
  BY <1>5
<1>7. M!FirstMembership(p) = memberships[k]
  BY DEF M!FirstMembership, first
<1> HIDE DEF k
<1> QED BY <1>6, <1>7 DEF first

LEMMA Accepted ==
    ASSUME NEW s \in Seq(InviteRow), NEW n \in DOMAIN s
    PROVE  /\ [s EXCEPT ![n].accepted = TRUE] \in Seq(InviteRow)
           /\ DOMAIN [s EXCEPT ![n].accepted = TRUE] = DOMAIN s
           /\ \A j \in DOMAIN s :
                 /\ [s EXCEPT ![n].accepted = TRUE][j].offer = s[j].offer
                 /\ [s EXCEPT ![n].accepted = TRUE][j].by = s[j].by
                 /\ s[j].accepted \/ j = n => [s EXCEPT ![n].accepted = TRUE][j].accepted
                 /\ [s EXCEPT ![n].accepted = TRUE][j].accepted => s[j].accepted \/ j = n
<1> DEFINE row == [s[n] EXCEPT !.accepted = TRUE]
<1>1. s[n] \in InviteRow /\ \A j \in DOMAIN s : s[j] \in InviteRow
  OBVIOUS
<1>2. row \in InviteRow /\ row.offer = s[n].offer /\ row.by = s[n].by /\ row.accepted = TRUE
  BY <1>1 DEF InviteRow
<1>3. [s EXCEPT ![n].accepted = TRUE] = [s EXCEPT ![n] = row]
  OBVIOUS
<1> HIDE DEF row
<1> DEFINE t == [s EXCEPT ![n] = row]
<1>4. t \in Seq(InviteRow) /\ DOMAIN t = DOMAIN s /\ t[n] = row /\ \A j \in DOMAIN s \ {n} : t[j] = s[j]
  BY <1>2
<1> HIDE DEF t
<1>5. \A j \in DOMAIN s : /\ t[j].offer = s[j].offer /\ t[j].by = s[j].by
                          /\ s[j].accepted \/ j = n => t[j].accepted
                          /\ t[j].accepted => s[j].accepted \/ j = n
  BY <1>2, <1>4
<1>6. t = [s EXCEPT ![n].accepted = TRUE]
  BY <1>3 DEF t
<1> QED BY <1>4, <1>5, <1>6

LEMMA JoiningTyped ==
    ASSUME MemberTyped, NEW pc \in {"mark", "create", "terms"}, NEW by \in People, NEW m \in Member,
           NEW existing \in BOOLEAN, NEW invite \in Nat
    PROVE  M!Joining(pc, by, m, existing, invite) \in Joinings
  BY DEF MemberTyped, M!Joining, Joinings, Evidence, Member

(* A step of one request writes its own locals only.                       *)
LEMMA MemberGoes ==
    ASSUME MemberTyped, NEW c \in Calls, NEW k, M!Go(c, k)
    PROVE  request'[c] = k /\ \A d \in Calls \ {c} : request'[d] = request[d]
  BY DEF MemberTyped, M!Go

LEMMA MemberTypedSteps ==
    (M!Init => MemberTyped) /\ (MemberTyped /\ [M!Next]_(M!vars) => MemberTyped')
<1>1. M!Init => MemberTyped
  BY DEF M!Init, MemberTyped
<1>2. MemberTyped /\ [M!Next]_(M!vars) => MemberTyped'
  <2> SUFFICES ASSUME MemberTyped, [M!Next]_(M!vars) PROVE MemberTyped'
    OBVIOUS
  <2> USE DEF MemberTyped
  <2>1. CASE M!Tick \/ M!Release \/ UNCHANGED M!vars
    <3>1. CASE M!Tick
      BY <3>1 DEF M!Tick, M!rows
    <3>2. CASE M!Release
      BY <3>2 DEF M!Release, M!rows
    <3>3. CASE UNCHANGED M!vars
      BY <3>3 DEF M!vars, M!rows
    <3> QED BY <2>1, <3>1, <3>2, <3>3
  <2>2. ASSUME NEW c \in Calls,
               \/ M!registerTenantOwner(c) \/ M!createMembership(c) \/ M!createSession(c) \/ M!login(c)
               \/ M!createTenantInvite(c) \/ M!createTenantInviteRecord(c)
               \/ M!requireTenantInvite(c) \/ M!acceptTenantInvite(c) \/ M!updateTenantInvite(c)
               \/ M!acceptCurrentTerms(c) \/ M!createTermsAcceptance(c) \/ M!Crash(c)
        PROVE  MemberTyped'
    <3>0. /\ request[c].pc \in {"mark", "create", "terms"} => request[c] \in Joinings
          /\ request[c].pc = "accept" => request[c] \in Accepting
          /\ request[c].pc \in {"session", "invite"} => request[c] \in Sessions
      BY MemberShapes
    <3>1. CASE M!registerTenantOwner(c)
      <4>1. \A p \in People, t \in Tenants : [user |-> p, tenant |-> t, role |-> "OWNER"] \in Member
        BY DEF Member
      <4>2. PICK p \in People, t \in Tenants :
               request' = [request EXCEPT ![c] =
                   M!Joining("create", p, [user |-> p, tenant |-> t, role |-> "OWNER"], FALSE, 0)]
        BY <3>1 DEF M!registerTenantOwner, M!Go
      <4>3. M!Joining("create", p, [user |-> p, tenant |-> t, role |-> "OWNER"], FALSE, 0) \in Joinings
        BY <4>1, JoiningTyped
      <4>4. UNCHANGED <<M!rows, issued, release, clock, faults>> /\ overlaps' \in Nat
        BY <3>1 DEF M!registerTenantOwner, M!Begin
      <4> QED BY <4>2, <4>3, <4>4 DEF M!rows
    <3>2. CASE M!createMembership(c)
      <4> DEFINE k == request[c]
      <4>1. k \in Joinings
        BY <3>0, <3>2 DEF M!createMembership, M!At
      <4>2. k.by \in People /\ k.new \in Member /\ k.evidence \in Evidence /\ k.new.user \in People
        BY <4>1 DEF Joinings, Member
      <4>3. [pc |-> "session", by |-> k.by, new |-> k.new] \in Sessions
        BY <4>2 DEF Sessions
      <4>4. /\ request' = [request EXCEPT ![c] = M!Idle]
               \/ request' = [request EXCEPT ![c] = [pc |-> "session", by |-> k.by, new |-> k.new]]
            /\ UNCHANGED <<invites, issued, release, clock, overlaps, faults>>
        BY <3>2 DEF M!createMembership, M!Go
      <4>5. \/ UNCHANGED <<accounts, memberships, terms>>
            \/ /\ accounts' = accounts \cup {k.new.user}
               /\ memberships' = Append(memberships, k.new) /\ terms' = Append(terms, k.evidence)
        BY <3>2 DEF M!createMembership
      <4>6. /\ accounts' \in SUBSET People /\ memberships' \in Seq(Member) /\ terms' \in Seq(Evidence)
            /\ \A p \in accounts' : \E i \in DOMAIN memberships' : memberships'[i].user = p
        <5>1. CASE UNCHANGED <<accounts, memberships, terms>>
          BY <5>1
        <5>2. CASE /\ accounts' = accounts \cup {k.new.user}
                   /\ memberships' = Append(memberships, k.new) /\ terms' = Append(terms, k.evidence)
          <6>1. /\ memberships' \in Seq(Member) /\ Len(memberships) + 1 \in DOMAIN memberships'
                /\ memberships'[Len(memberships) + 1] = k.new
                /\ \A i \in DOMAIN memberships :
                      i \in DOMAIN memberships' /\ memberships'[i] = memberships[i]
            BY <4>2, <5>2, MemberAppended
          <6>2. terms' \in Seq(Evidence)
            BY <4>2, <5>2, MemberAppended
          <6> QED BY <4>2, <5>2, <6>1, <6>2
        <5> QED BY <4>5, <5>1, <5>2
      <4> QED BY <4>3, <4>4, <4>6
    <3>3. CASE M!createSession(c)
      BY <3>0, <3>3 DEF M!createSession, M!At, M!Go, Sessions, M!rows
    <3>4. CASE M!login(c)
      <4>1. ASSUME NEW p \in accounts PROVE M!FirstMembership(p) \in Member
        <5>1. \A i \in DOMAIN memberships : memberships[i] \in Member
          OBVIOUS
        <5> QED BY <4>1, <5>1, Earliest
      <4>2. \A p \in accounts : [pc |-> "session", by |-> p, new |-> M!FirstMembership(p)] \in Sessions
        BY <4>1 DEF Sessions
      <4> QED BY <3>4, <4>2 DEF M!login, M!Begin, M!Go, M!rows
    <3>5. CASE M!createTenantInvite(c)
      BY <3>5 DEF M!createTenantInvite, M!tenantInviteRoles, M!Begin, M!Go, Sessions, Member, M!rows
    <3>6. CASE M!createTenantInviteRecord(c)
      <4> DEFINE row == [offer |-> request[c].new, by |-> request[c].by,
                         accepted |-> FALSE, expires |-> clock + InviteLife]
      <4>1. row \in InviteRow
        BY <3>0, <3>6 DEF M!createTenantInviteRecord, M!At, Sessions, InviteRow
      <4>2. Append(invites, row) \in Seq(InviteRow)
        BY <4>1, MemberAppended
      <4> HIDE DEF row
      <4>3. invites' = Append(invites, row)
        BY <3>6 DEF M!createTenantInviteRecord, row
      <4> QED BY <3>6, <4>2, <4>3 DEF M!createTenantInviteRecord, M!Go
    <3>7. CASE M!requireTenantInvite(c)
      <4>a. \A i \in DOMAIN invites : i \in Nat /\ invites[i] \in InviteRow
        OBVIOUS
      <4>1. \A i \in DOMAIN invites : i \in Nat /\ invites[i].offer \in Member
        BY <4>a DEF InviteRow
      <4>2. \A i \in DOMAIN invites, by \in People :
               [pc |-> "accept", by |-> by, invite |-> i, new |-> invites[i].offer] \in Accepting
        BY <4>1 DEF Accepting
      <4> QED BY <3>7, <4>2 DEF M!requireTenantInvite, M!Begin, M!Go, M!rows
    <3>8. CASE M!acceptTenantInvite(c)
      <4> DEFINE k == request[c]
                 j(by) == M!Joining("mark", by, k.new, k.new.user \in accounts, k.invite)
      <4>1. k.by \in People /\ k.new \in Member /\ k.new.user \in People /\ k.invite \in Nat
        BY <3>0, <3>8 DEF M!acceptTenantInvite, M!At, Accepting, Member
      <4>a. (k.new.user \in accounts) \in BOOLEAN
        OBVIOUS
      <4>2. j(k.by) \in Joinings /\ j(k.new.user) \in Joinings
        BY <4>1, <4>a, JoiningTyped
      <4>3. /\ request' \in {[request EXCEPT ![c] = M!Idle], [request EXCEPT ![c] = j(k.by)],
                            [request EXCEPT ![c] = j(k.new.user)]}
            /\ UNCHANGED <<M!rows, issued, release, clock, overlaps, faults>>
        BY <3>8 DEF M!acceptTenantInvite, M!Go
      <4> HIDE DEF j
      <4> QED BY <4>2, <4>3 DEF M!rows
    <3>9. CASE M!updateTenantInvite(c)
      <4>1. request[c] \in Joinings
        BY <3>0, <3>9 DEF M!updateTenantInvite, M!At
      <4>2. [request[c] EXCEPT !.pc = "create"] \in Joinings
        BY <4>1 DEF Joinings
      <4>3. invites' \in Seq(InviteRow)
        <5>1. invites' = [invites EXCEPT ![request[c].invite].accepted = TRUE]
          BY <3>9 DEF M!updateTenantInvite
        <5>2. CASE request[c].invite \in DOMAIN invites
          BY <5>1, <5>2, Accepted
        <5>3. CASE request[c].invite \notin DOMAIN invites
          <6>1. invites' = invites
            BY <5>1, <5>3
          <6> QED BY <6>1
        <5> QED BY <5>2, <5>3
      <4> QED BY <3>9, <4>2, <4>3 DEF M!updateTenantInvite, M!Go
    <3>10. CASE M!acceptCurrentTerms(c)
      BY <3>10 DEF M!acceptCurrentTerms, M!Begin, M!Go, M!Joining, Joinings, Member, Evidence, M!rows
    <3>11. CASE M!createTermsAcceptance(c)
      BY <3>0, <3>11 DEF M!createTermsAcceptance, M!At, M!Go, Joinings
    <3>12. CASE M!Crash(c)
      BY <3>12 DEF M!Crash, M!Go, M!rows
    <3> QED BY <2>2, <3>1, <3>2, <3>3, <3>4, <3>5, <3>6, <3>7, <3>8, <3>9, <3>10, <3>11, <3>12
  <2> QED BY <2>1, <2>2 DEF M!Next
<1> QED BY <1>1, <1>2
-----------------------------------------------------------------------------
LEMMA Recorded ==
    ASSUME Keep
    PROVE  /\ \A m : OnRecord(m) => OnRecord(m)'
           /\ \A p, t : M!IsMember(p, t) => M!IsMember(p, t)'
           /\ \A t : M!TenantExists(t) => M!TenantExists(t)'
           /\ \A k : Offered(k) => Offered(k)'
  BY DEF Keep, OnRecord, M!IsMember, M!TenantExists, Offered

(* A request does not disturb what another has seen.                       *)
LEMMA Others ==
    ASSUME NEW c \in Calls, NEW d \in Calls \ {c}, StepOf(c), RequestSound(d)
    PROVE  RequestSound(d)'
<1>1. request'[d] = request[d] /\ Keep
  BY DEF StepOf
<1>2. Reserved(d) /\ request[d].pc # "idle" => Reserved(d)'
  BY <1>1 DEF StepOf, Reserved
<1> DEFINE k == request[d]
<1>3. /\ k.pc = "session" => (k.by = k.new.user /\ OnRecord(k.new))'
      /\ k.pc = "invite" => (k.new.role # "OWNER" /\ OnRecord(OwnerOf(k.by, k.new.tenant)))'
      /\ k.pc = "accept" => Offered(k)'
      /\ k.pc = "terms" => (Own(k) /\ OnRecord(k.new))'
      /\ k.pc \in {"mark", "create"} => (Own(k) /\ (k.existing => k.new.user \in accounts))'
      /\ k.pc = "mark" => Offered(k)'
      /\ k.pc = "create" /\ k.new.role # "OWNER" => (Offered(k) /\ invites[k.invite].accepted)'
  BY <1>1, Recorded DEF RequestSound, Own, Offered, Keep
<1> QED BY <1>1, <1>2, <1>3 DEF RequestSound

(* While nothing overlaps, the request that takes a step is the only one.  *)
LEMMA MemberSolo ==
    ASSUME MemberTyped, Sound, NEW c \in Calls, overlaps' = 0,
           \/ M!Begin(c)
           \/ request[c].pc # "idle" /\ UNCHANGED overlaps
    PROVE  overlaps = 0 /\ \A d \in Calls \ {c} : request[d].pc = "idle"
  BY DEF MemberTyped, Sound, AloneSound, MemberSingle, M!Begin, M!Quiet

LEMMA QuietRows ==
    ASSUME RowsSound, M!MembersAreInvited, UNCHANGED M!rows
    PROVE  RowsSound' /\ M!MembersAreInvited' /\ Keep
           /\ (M!TermsAcceptedOnce /\ (overlaps' = 0 => overlaps = 0) => M!TermsAcceptedOnce')
  BY DEF RowsSound, OnRecord, TermsOf, M!IsMember, M!MembersAreInvited, Keep, M!TermsAcceptedOnce, M!rows

(* What a step that writes no rows has to show: the sessions, the request  *)
(* that took it, and what holds while nothing overlaps.                    *)
LEMMA RequestStep ==
    ASSUME MemberTyped, Sound, NEW c \in Calls, NEW k, M!Go(c, k), UNCHANGED M!rows, M!SessionsAreOwn',
           \/ M!Begin(c)
           \/ request[c].pc \notin {"idle", "create"} /\ UNCHANGED <<overlaps, faults>>
           \/ request[c].pc # "idle" /\ overlaps' = overlaps /\ faults' = faults + 1,
           k.pc # "idle" =>
              \/ request[c].pc # "idle" /\ request[c].new.tenant = k.new.tenant
              \/ M!TenantExists(k.new.tenant)
              \/ \A d \in Calls : request[d].pc # "idle" => request[d].new.tenant # k.new.tenant,
           RequestSound(c)', Fresh(c)'
    PROVE  Sound'
<1>1. request'[c] = k /\ \A d \in Calls \ {c} : request'[d] = request[d]
  BY MemberGoes
<1>2. RowsSound' /\ M!MembersAreInvited' /\ Keep
  BY QuietRows DEF Sound
<1>3. overlaps' = 0 => overlaps = 0 /\ \A d \in Calls \ {c} : request[d].pc = "idle"
  BY MemberSolo
<1>4. M!TermsAcceptedOnce'
  BY <1>3, QuietRows DEF Sound
<1>5. StepOf(c)
  BY <1>1, <1>2 DEF StepOf, M!TenantExists, M!rows
<1>6. \A d \in Calls : RequestSound(d)'
  BY <1>5, Others DEF Sound
<1>7. ASSUME overlaps' = 0 PROVE MemberSingle' /\ \A d \in Calls : Fresh(d)'
  BY <1>1, <1>3, <1>7 DEF MemberSingle, Fresh
<1>8. ASSUME overlaps' = 0, faults' = 0, NEW j \in DOMAIN invites, invites[j].accepted
      PROVE  Used(j)'
  <2>1. faults = 0 /\ request[c].pc # "create"
    BY <1>8 DEF MemberTyped, M!Begin
  <2>2. Used(j)
    BY <1>3, <1>8, <2>1 DEF Sound, AloneSound
  <2>3. \A d \in Calls : request[d].pc # "create"
    BY <1>3, <1>8, <2>1
  <2> QED BY <2>2, <2>3 DEF Used, M!IsMember, M!rows
<1>9. AloneSound'
  BY <1>7, <1>8 DEF AloneSound, M!rows
<1> QED BY <1>2, <1>4, <1>6, <1>9 DEF Sound

LEMMA MemberEnding ==
    ASSUME NEW c \in Calls, request'[c] = M!Idle
    PROVE  RequestSound(c)' /\ Fresh(c)'
  BY DEF M!Idle, RequestSound, Fresh

LEMMA BeginSteps ==
    ASSUME MemberTyped, MemberTyped', Sound, NEW c \in Calls,
           \/ M!registerTenantOwner(c) \/ M!login(c) \/ M!createTenantInvite(c)
           \/ M!requireTenantInvite(c) \/ M!acceptCurrentTerms(c)
    PROVE  Sound'
<1>0. M!Begin(c) /\ UNCHANGED <<M!rows, issued, release, clock>>
  BY DEF M!registerTenantOwner, M!login, M!createTenantInvite, M!requireTenantInvite, M!acceptCurrentTerms
<1>1. UNCHANGED <<accounts, memberships, invites, terms, issued, release>>
  BY <1>0 DEF M!rows
<1>2. M!SessionsAreOwn' /\ RowsSound /\ M!SessionsAreOwn
  BY <1>1 DEF Sound, M!SessionsAreOwn
<1>3. \A s \in issued : s.for \in Member /\ s.to = s.for.user /\ OnRecord(s.for) /\ M!TenantExists(s.for.tenant)
  BY <1>2 DEF MemberTyped, M!SessionsAreOwn, OnRecord, M!TenantExists
<1>4. CASE M!registerTenantOwner(c)
  <2>1. PICK p \in People \ accounts, t \in Tenants :
           /\ ~M!TenantExists(t)
           /\ \A d \in Calls : request[d].pc # "idle" => request[d].new.tenant # t
           /\ M!Go(c, M!Joining("create", p, [user |-> p, tenant |-> t, role |-> "OWNER"], FALSE, 0))
    BY <1>4 DEF M!registerTenantOwner
  <2> DEFINE k == M!Joining("create", p, [user |-> p, tenant |-> t, role |-> "OWNER"], FALSE, 0)
  <2>2. /\ k.pc = "create" /\ k.by = p /\ k.existing = FALSE /\ k.invite = 0
        /\ k.new = [user |-> p, tenant |-> t, role |-> "OWNER"]
        /\ k.evidence.user = p /\ k.evidence.tenant = t
    BY DEF M!Joining
  <2> HIDE DEF k
  <2>3. request'[c] = k /\ \A d \in Calls \ {c} : request'[d] = request[d]
    BY <2>1, MemberGoes DEF k
  <2>4. Reserved(c)'
    BY <1>1, <2>1, <2>2, <2>3 DEF Reserved, M!TenantExists
  <2>5. RequestSound(c)' /\ Fresh(c)'
    BY <1>1, <2>2, <2>3, <2>4 DEF RequestSound, Own, Fresh
  <2>6. k.new.tenant = t
    BY <2>2
  <2>7. M!Go(c, k)
    BY <2>1 DEF k
  <2> QED BY <1>0, <1>2, <2>1, <2>5, <2>6, <2>7, RequestStep
<1>5. CASE M!login(c)
  <2>1. PICK p \in accounts : M!Go(c, [pc |-> "session", by |-> p, new |-> M!FirstMembership(p)])
    BY <1>5 DEF M!login
  <2>2. PICK i \in DOMAIN memberships : M!FirstMembership(p) = memberships[i] /\ memberships[i].user = p
    BY Earliest
  <2> DEFINE k == [pc |-> "session", by |-> p, new |-> M!FirstMembership(p)]
  <2>3. request'[c] = k /\ k.pc = "session" /\ k.by = p /\ k.new = memberships[i]
    BY <2>1, <2>2, MemberGoes
  <2> HIDE DEF k
  <2>4. RequestSound(c)' /\ Fresh(c)' /\ M!TenantExists(k.new.tenant)
    BY <1>1, <2>2, <2>3 DEF RequestSound, OnRecord, Fresh, M!TenantExists
  <2> QED BY <1>0, <1>2, <2>1, <2>4, RequestStep DEF k
<1>6. CASE M!createTenantInvite(c)
  <2>1. PICK s \in issued, p \in People, role \in M!tenantInviteRoles :
           /\ s.for.role = "OWNER"
           /\ M!Go(c, [pc |-> "invite", by |-> s.to,
                     new |-> [user |-> p, tenant |-> s.for.tenant, role |-> role]])
    BY <1>6 DEF M!createTenantInvite
  <2> DEFINE k == [pc |-> "invite", by |-> s.to,
                   new |-> [user |-> p, tenant |-> s.for.tenant, role |-> role]]
  <2>2. /\ request'[c] = k /\ k.pc = "invite" /\ k.by = s.to
        /\ k.new = [user |-> p, tenant |-> s.for.tenant, role |-> role]
    BY <2>1, MemberGoes
  <2> HIDE DEF k
  <2>3. OnRecord(OwnerOf(s.to, s.for.tenant)) /\ role # "OWNER"
    <3>1. s.for = OwnerOf(s.to, s.for.tenant)
      BY <1>3, <2>1 DEF OwnerOf, Member
    <3> QED BY <1>3, <3>1 DEF M!tenantInviteRoles
  <2>4. RequestSound(c)' /\ Fresh(c)'
    BY <1>1, <2>2, <2>3 DEF RequestSound, OnRecord, Fresh
  <2>5. M!TenantExists(k.new.tenant)
    BY <1>3, <2>2
  <2> QED BY <1>0, <1>2, <2>1, <2>4, <2>5, RequestStep DEF k
<1>7. CASE M!requireTenantInvite(c)
  <2>1. PICK i \in DOMAIN invites, by \in People :
           M!Go(c, [pc |-> "accept", by |-> by, invite |-> i, new |-> invites[i].offer])
    BY <1>7 DEF M!requireTenantInvite
  <2> DEFINE k == [pc |-> "accept", by |-> by, invite |-> i, new |-> invites[i].offer]
  <2>2. request'[c] = k /\ k.pc = "accept" /\ k.invite = i /\ k.new = invites[i].offer
    BY <2>1, MemberGoes
  <2> HIDE DEF k
  <2>3. RequestSound(c)' /\ Fresh(c)'
    BY <1>1, <2>2 DEF RequestSound, Offered, Fresh
  <2>4. M!TenantExists(k.new.tenant)
    BY <1>2, <2>2 DEF RowsSound, OnRecord, OwnerOf, M!TenantExists
  <2> QED BY <1>0, <1>2, <2>1, <2>3, <2>4, RequestStep DEF k
<1>8. CASE M!acceptCurrentTerms(c)
  <2>1. PICK s \in issued :
           /\ ~M!hasCurrentTermsAcceptance(s.for.user, s.for.tenant)
           /\ M!Go(c, M!Joining("terms", s.to, s.for, TRUE, 0))
    BY <1>8 DEF M!acceptCurrentTerms
  <2> DEFINE k == M!Joining("terms", s.to, s.for, TRUE, 0)
  <2>2. /\ k.pc = "terms" /\ k.by = s.to /\ k.new = s.for
        /\ k.evidence = [user |-> s.for.user, tenant |-> s.for.tenant, release |-> release]
    BY DEF M!Joining
  <2> HIDE DEF k
  <2>3. request'[c] = k
    BY <2>1, MemberGoes DEF k
  <2>4. RequestSound(c)'
    BY <1>1, <1>3, <2>2, <2>3 DEF RequestSound, Own, OnRecord
  <2>5. Fresh(c)'
    BY <1>1, <2>1, <2>2, <2>3 DEF Fresh, M!hasCurrentTermsAcceptance
  <2> QED BY <1>0, <1>2, <1>3, <2>1, <2>2, <2>4, <2>5, RequestStep DEF k
<1> QED BY <1>4, <1>5, <1>6, <1>7, <1>8

LEMMA QuietSteps ==
    ASSUME MemberTyped, MemberTyped', Sound, NEW c \in Calls,
           M!createSession(c) \/ M!acceptTenantInvite(c) \/ M!Crash(c)
    PROVE  Sound'
<1>0. request[c].pc # "idle" /\ UNCHANGED <<M!rows, release, clock>> /\ RequestSound(c)
  BY DEF M!createSession, M!acceptTenantInvite, M!Crash, M!At, Sound
<1>1. UNCHANGED <<accounts, memberships, invites, terms, release>>
  BY <1>0 DEF M!rows
<1>2. M!SessionsAreOwn
  BY DEF Sound
<1>3. CASE M!createSession(c)
  <2>1. /\ request[c].pc = "session" /\ M!Go(c, M!Idle) /\ UNCHANGED <<overlaps, faults>>
        /\ issued' = issued \cup {[to |-> request[c].by, for |-> request[c].new]}
    BY <1>3 DEF M!createSession, M!At
  <2>2. request[c].by = request[c].new.user /\ OnRecord(request[c].new)
    BY <1>0, <2>1 DEF RequestSound
  <2>3. M!SessionsAreOwn'
    BY <1>1, <1>2, <2>1, <2>2 DEF M!SessionsAreOwn, OnRecord
  <2> QED BY <1>0, <2>1, <2>3, MemberGoes, MemberEnding, RequestStep DEF M!Idle
<1>4. CASE M!acceptTenantInvite(c)
  <2> DEFINE p == request[c].new.user
             k == M!Joining("mark", IF p \in accounts THEN request[c].by ELSE p, request[c].new,
                          p \in accounts, request[c].invite)
  <2>1. request[c].pc = "accept" /\ UNCHANGED <<issued, overlaps, faults>>
    BY <1>4 DEF M!acceptTenantInvite, M!At
  <2>2. M!SessionsAreOwn'
    BY <1>1, <1>2, <2>1 DEF M!SessionsAreOwn
  <2>3. CASE M!Go(c, M!Idle)
    BY <1>0, <2>1, <2>2, <2>3, MemberGoes, MemberEnding, RequestStep DEF M!Idle
  <2>4. CASE /\ M!Go(c, k)
             /\ p \in accounts => /\ \E s \in issued : s.to = request[c].by /\ s.for.user = p
                                  /\ ~M!IsMember(p, request[c].new.tenant)
    <3>1. /\ k.pc = "mark" /\ k.by = (IF p \in accounts THEN request[c].by ELSE p)
          /\ k.new = request[c].new /\ k.invite = request[c].invite
          /\ k.existing = (p \in accounts)
          /\ k.evidence.user = p /\ k.evidence.tenant = k.new.tenant
      BY DEF M!Joining
    <3> HIDE DEF k
    <3>2. k.by = p
      BY <1>2, <2>4, <3>1 DEF M!SessionsAreOwn
    <3>3. request'[c] = k
      BY <2>4, MemberGoes
    <3>4. Offered(request[c])
      BY <1>0, <2>1 DEF RequestSound
    <3>5. RequestSound(c)'
      BY <1>1, <3>1, <3>2, <3>3, <3>4 DEF RequestSound, Own, Offered
    <3>6. Fresh(c)'
      BY <1>1, <2>4, <3>1, <3>3 DEF Fresh, M!IsMember
    <3> QED BY <1>0, <2>1, <2>2, <2>4, <3>1, <3>5, <3>6, RequestStep
  <2> QED BY <1>4, <2>3, <2>4 DEF M!acceptTenantInvite
<1>5. CASE M!Crash(c)
  <2>1. /\ M!Go(c, M!Idle) /\ UNCHANGED <<issued, overlaps>> /\ faults' = faults + 1
    BY <1>5 DEF M!Crash
  <2>2. M!SessionsAreOwn'
    BY <1>1, <1>2, <2>1 DEF M!SessionsAreOwn
  <2> QED BY <1>0, <2>1, <2>2, MemberGoes, MemberEnding, RequestStep DEF M!Idle
<1> QED BY <1>3, <1>4, <1>5

(* The membership is new: nobody has it, nobody agreed to terms for it.    *)
LEMMA NewMember ==
    ASSUME MemberTyped, Sound, NEW c \in Calls, M!createMembership(c),
           ~(IF request[c].existing THEN M!IsMember(request[c].new.user, request[c].new.tenant)
             ELSE request[c].new.user \in accounts)
    PROVE  /\ ~M!IsMember(request[c].new.user, request[c].new.tenant)
           /\ \A n \in DOMAIN terms : terms[n] # request[c].evidence
<1>1. RowsSound /\ RequestSound(c) /\ request[c].pc = "create"
  BY DEF Sound, M!createMembership, M!At
<1>2. ~M!IsMember(request[c].new.user, request[c].new.tenant)
  BY <1>1 DEF RowsSound, M!IsMember
<1>3. /\ request[c].evidence.user = request[c].new.user
      /\ request[c].evidence.tenant = request[c].new.tenant
  BY <1>1 DEF RequestSound, Own
<1> QED BY <1>1, <1>2, <1>3 DEF RowsSound, TermsOf

LEMMA CreateStep ==
    ASSUME MemberTyped, MemberTyped', Sound, NEW c \in Calls, M!createMembership(c)
    PROVE  Sound'
<1> DEFINE k == request[c]
           refused == IF k.existing THEN M!IsMember(k.new.user, k.new.tenant) ELSE k.new.user \in accounts
<1>0. /\ k.pc = "create" /\ RequestSound(c) /\ Own(k)
      /\ UNCHANGED <<invites, issued, overlaps, faults>>
  BY DEF M!createMembership, M!At, Sound, RequestSound
<1>1. CASE refused
  <2>1. M!Go(c, M!Idle) /\ UNCHANGED M!rows
    BY <1>1, <1>0 DEF M!createMembership, M!rows
  <2>2. M!SessionsAreOwn'
    BY <1>0, <2>1 DEF Sound, M!SessionsAreOwn, M!rows
  <2>3. ASSUME overlaps' = 0 PROVE FALSE
    BY <1>0, <1>1, <2>3 DEF Sound, AloneSound, Fresh
  <2>4. request'[c] = M!Idle /\ \A d \in Calls \ {c} : request'[d] = request[d]
    BY <2>1, MemberGoes
  <2>5. RowsSound' /\ M!MembersAreInvited' /\ Keep /\ M!TermsAcceptedOnce'
    BY <1>0, <2>1, QuietRows DEF Sound
  <2>6. StepOf(c)
    BY <2>1, <2>4, <2>5 DEF StepOf, M!TenantExists, M!rows, M!Idle
  <2>7. \A d \in Calls : RequestSound(d)'
    BY <2>4, <2>6, Others, MemberEnding DEF Sound
  <2> QED BY <2>2, <2>3, <2>5, <2>7 DEF Sound, AloneSound
<1>2. CASE ~refused
  <2> DEFINE n == Len(memberships) + 1
  <2>1. /\ accounts' = accounts \cup {k.new.user}
        /\ memberships' = Append(memberships, k.new) /\ terms' = Append(terms, k.evidence)
        /\ M!Go(c, [pc |-> "session", by |-> k.by, new |-> k.new])
    BY <1>2 DEF M!createMembership
  <2>2. k \in Joinings /\ k.new \in Member /\ k.evidence \in Evidence
    BY <1>0, MemberShapes DEF MemberTyped, Joinings
  <2>3. /\ DOMAIN memberships' = DOMAIN memberships \cup {n} /\ n \notin DOMAIN memberships
        /\ DOMAIN memberships = 1..(n - 1) /\ n \in Nat
        /\ \A i \in DOMAIN memberships : memberships'[i] = memberships[i]
        /\ memberships'[n] = k.new
    BY <2>1, <2>2, MemberAppended DEF MemberTyped
  <2>4. /\ DOMAIN terms' = DOMAIN terms \cup {Len(terms) + 1} /\ Len(terms) + 1 \notin DOMAIN terms
        /\ \A i \in DOMAIN terms : terms'[i] = terms[i]
        /\ terms'[Len(terms) + 1] = k.evidence
    BY <2>1, <2>2, MemberAppended DEF MemberTyped
  <2> HIDE DEF n
  <2>5. ~M!IsMember(k.new.user, k.new.tenant) /\ \A i \in DOMAIN terms : terms[i] # k.evidence
    BY <1>2, NewMember
  <2>6. Keep
    BY <1>0, <2>1, <2>3 DEF Keep
  <2>7. /\ request'[c] = [pc |-> "session", by |-> k.by, new |-> k.new]
        /\ \A d \in Calls \ {c} : request'[d] = request[d]
    BY <2>1, MemberGoes
  <2>8. n \in DOMAIN memberships' /\ \A m : m = k.new => OnRecord(m)' /\ M!IsMember(m.user, m.tenant)'
    BY <2>3 DEF OnRecord, M!IsMember
  <2>9. StepOf(c)
    BY <1>0, <2>3, <2>6, <2>7 DEF StepOf, M!TenantExists
  <2>10. RowsSound'
    <3>1. k.new.user \in accounts' /\ accounts \subseteq accounts'
      BY <2>1
    <3>2. \A i \in DOMAIN memberships' : (memberships[i].user \in accounts)'
      BY <2>3, <3>1 DEF Sound, RowsSound
    <3>3. \A j \in DOMAIN invites' : (invites[j].offer.role # "OWNER"
             /\ OnRecord(OwnerOf(invites[j].by, invites[j].offer.tenant)))'
      BY <1>0, <2>6, Recorded DEF Sound, RowsSound
    <3>4. TermsOf'
      BY <1>0, <2>4, <2>6, <2>8, Recorded DEF Sound, RowsSound, TermsOf, Own
    <3> QED BY <3>2, <3>3, <3>4 DEF RowsSound
  <2>11. M!MembersAreInvited'
    <3> DEFINE row == memberships'
    <3>1. ASSUME NEW i \in DOMAIN row
          PROVE  /\ row[i].role # "OWNER" =>
                       \E j \in DOMAIN invites :
                          /\ invites[j].offer = row[i] /\ invites[j].accepted
                          /\ OwnerOf(invites[j].by, row[i].tenant) \in {row[q] : q \in 1..(i - 1)}
                 /\ \E q \in DOMAIN terms' : terms'[q].user = row[i].user /\ terms'[q].tenant = row[i].tenant
      <4>1. CASE i \in DOMAIN memberships
        <5>1. row[i] = memberships[i] /\ \A q \in 1..(i - 1) : row[q] = memberships[q]
          BY <2>3, <4>1
        <5> QED BY <2>4, <4>1, <5>1 DEF Sound, M!MembersAreInvited, OwnerOf
      <4>2. CASE i = n
        <5>1. row[i] = k.new /\ \A q \in 1..(i - 1) : row[q] = memberships[q]
          BY <2>3, <4>2
        <5>2. ASSUME k.new.role # "OWNER"
              PROVE  /\ k.invite \in DOMAIN invites /\ invites[k.invite].offer = k.new
                     /\ invites[k.invite].accepted
                     /\ OwnerOf(invites[k.invite].by, k.new.tenant) \in {memberships[q] : q \in 1..(i - 1)}
          BY <1>0, <2>3, <4>2, <5>2 DEF RequestSound, Offered, Sound, RowsSound, OnRecord
        <5> QED BY <1>0, <2>4, <5>1, <5>2 DEF Own
      <4> QED BY <2>3, <4>1, <4>2
    <3>2. ASSUME NEW i \in DOMAIN memberships
          PROVE  memberships[i].tenant # k.new.tenant \/
                 (memberships[i].user # k.new.user /\ ~(memberships[i].role = "OWNER" /\ k.new.role = "OWNER"))
      BY <1>0, <2>5 DEF RequestSound, Reserved, M!IsMember, M!TenantExists
    <3>3. ASSUME NEW i \in DOMAIN row, NEW j \in DOMAIN row, i # j
          PROVE  row[j].tenant # row[i].tenant \/
                 (row[j].user # row[i].user /\ ~(row[i].role = "OWNER" /\ row[j].role = "OWNER"))
      <4>1. CASE i \in DOMAIN memberships /\ j \in DOMAIN memberships
        BY <2>3, <3>3, <4>1 DEF Sound, M!MembersAreInvited
      <4>2. CASE i = n \/ j = n
        BY <2>3, <3>2, <3>3, <4>2
      <4> QED BY <2>3, <4>1, <4>2
    <3> QED BY <1>0, <3>1, <3>3 DEF M!MembersAreInvited, OwnerOf
  <2>12. M!SessionsAreOwn'
    BY <1>0, <2>3 DEF Sound, M!SessionsAreOwn
  <2>13. M!TermsAcceptedOnce'
    BY <1>0, <2>4, <2>5 DEF Sound, M!TermsAcceptedOnce
  <2>14. \A d \in Calls : RequestSound(d)'
    <3>1. RequestSound(c)'
      BY <1>0, <2>7, <2>8 DEF RequestSound, Own
    <3> QED BY <2>9, <3>1, Others DEF Sound
  <2>15. ASSUME overlaps' = 0
         PROVE  /\ overlaps = 0 /\ MemberSingle' /\ \A d \in Calls : Fresh(d)'
                /\ \A d \in Calls \ {c} : request[d].pc = "idle"
    <3>1. overlaps = 0 /\ \A d \in Calls \ {c} : request[d].pc = "idle"
      BY <1>0, <2>15, MemberSolo
    <3> QED BY <2>7, <3>1 DEF MemberSingle, Fresh
  <2>16. ASSUME overlaps' = 0, faults' = 0, NEW j \in DOMAIN invites', invites'[j].accepted
         PROVE  Used(j)'
    <3>1. Used(j)
      BY <1>0, <2>15, <2>16 DEF Sound, AloneSound
    <3>2. CASE M!IsMember(invites[j].offer.user, invites[j].offer.tenant)
      BY <1>0, <2>6, <3>2, Recorded DEF Used
    <3>3. CASE k.new = invites[j].offer
      BY <1>0, <2>8, <3>3 DEF Used
    <3> QED BY <2>15, <2>16, <3>1, <3>2, <3>3 DEF Used
  <2> QED BY <2>10, <2>11, <2>12, <2>13, <2>14, <2>15, <2>16 DEF Sound, AloneSound
<1> QED BY <1>1, <1>2

LEMMA SameMembers ==
    ASSUME M!MembersAreInvited, Keep, UNCHANGED <<memberships, terms>>
    PROVE  M!MembersAreInvited'
<1> DEFINE by(i) == {memberships[q] : q \in 1..(i - 1)}
<1>1. ASSUME NEW i \in DOMAIN memberships, memberships[i].role # "OWNER"
      PROVE  \E j \in DOMAIN invites' :
                  /\ invites'[j].offer = memberships[i] /\ invites'[j].accepted
                  /\ [user |-> invites'[j].by, tenant |-> memberships[i].tenant, role |-> "OWNER"] \in by(i)
  <2>1. PICK j \in DOMAIN invites :
                  /\ invites[j].offer = memberships[i] /\ invites[j].accepted
                  /\ [user |-> invites[j].by, tenant |-> memberships[i].tenant, role |-> "OWNER"] \in by(i)
    BY <1>1 DEF M!MembersAreInvited
  <2> HIDE DEF by
  <2> QED BY <2>1 DEF Keep
<1> QED BY <1>1 DEF M!MembersAreInvited

LEMMA InviteStep ==
    ASSUME MemberTyped, MemberTyped', Sound, NEW c \in Calls, M!createTenantInviteRecord(c)
    PROVE  Sound'
<1> DEFINE k == request[c]
           row == [offer |-> k.new, by |-> k.by, accepted |-> FALSE, expires |-> clock + InviteLife]
           n == Len(invites) + 1
<1>0. /\ k.pc = "invite" /\ RequestSound(c) /\ M!Go(c, M!Idle) /\ invites' = Append(invites, row)
      /\ UNCHANGED <<accounts, memberships, terms, issued, overlaps, faults>>
  BY DEF M!createTenantInviteRecord, M!At, Sound
<1>1. k.new.role # "OWNER" /\ OnRecord(OwnerOf(k.by, k.new.tenant))
  BY <1>0 DEF RequestSound
<1>2. row \in InviteRow /\ row.offer = k.new /\ row.by = k.by /\ row.accepted = FALSE
  BY <1>0, MemberShapes DEF MemberTyped, Sessions, InviteRow
<1> HIDE DEF row
<1>3. /\ DOMAIN invites' = DOMAIN invites \cup {n} /\ n \notin DOMAIN invites
      /\ \A j \in DOMAIN invites : invites'[j] = invites[j]
      /\ invites'[n] = row
  BY <1>0, <1>2, MemberAppended DEF MemberTyped
<1> HIDE DEF n
<1>4. Keep
  BY <1>0, <1>3 DEF Keep
<1>5. request'[c] = M!Idle /\ \A d \in Calls \ {c} : request'[d] = request[d]
  BY <1>0, MemberGoes
<1>6. StepOf(c)
  BY <1>0, <1>4, <1>5 DEF StepOf, M!TenantExists, M!Idle
<1>7. \A d \in Calls : RequestSound(d)'
  BY <1>5, <1>6, Others, MemberEnding DEF Sound
<1>8. RowsSound'
  <2>1. ASSUME NEW j \in DOMAIN invites'
        PROVE  invites'[j].offer.role # "OWNER"
               /\ \E i \in DOMAIN memberships : memberships[i] = OwnerOf(invites'[j].by, invites'[j].offer.tenant)
    BY <1>1, <1>2, <1>3 DEF Sound, RowsSound, OnRecord
  <2> QED BY <1>0, <2>1 DEF Sound, RowsSound, OnRecord, TermsOf, M!IsMember
<1>9. M!MembersAreInvited'
  BY <1>0, <1>4, SameMembers DEF Sound
<1>10. M!SessionsAreOwn' /\ M!TermsAcceptedOnce'
  BY <1>0 DEF Sound, M!SessionsAreOwn, M!TermsAcceptedOnce
<1>11. ASSUME overlaps' = 0
       PROVE  /\ overlaps = 0 /\ MemberSingle' /\ \A d \in Calls : Fresh(d)'
              /\ \A d \in Calls : request[d].pc # "create"
  <2>1. overlaps = 0 /\ \A d \in Calls \ {c} : request[d].pc = "idle"
    BY <1>0, <1>11, MemberSolo
  <2> QED BY <1>0, <1>5, <2>1 DEF MemberSingle, Fresh, M!Idle
<1>12. ASSUME overlaps' = 0, faults' = 0, NEW j \in DOMAIN invites', invites'[j].accepted
       PROVE  Used(j)'
  <2>1. j \in DOMAIN invites /\ invites'[j] = invites[j]
    BY <1>2, <1>3, <1>12
  <2>2. M!IsMember(invites[j].offer.user, invites[j].offer.tenant)
    BY <1>0, <1>11, <1>12, <2>1 DEF Sound, AloneSound, Used
  <2> QED BY <1>0, <2>1, <2>2 DEF Used, M!IsMember
<1> QED BY <1>7, <1>8, <1>9, <1>10, <1>11, <1>12 DEF Sound, AloneSound

LEMMA MarkStep ==
    ASSUME MemberTyped, MemberTyped', Sound, NEW c \in Calls, M!updateTenantInvite(c)
    PROVE  Sound'
<1> DEFINE k == request[c]
           moved == [k EXCEPT !.pc = "create"]
<1>0. /\ k.pc = "mark" /\ RequestSound(c) /\ M!Go(c, moved) /\ Own(k) /\ Offered(k)
      /\ invites' = [invites EXCEPT ![k.invite].accepted = TRUE]
      /\ UNCHANGED <<accounts, memberships, terms, issued, overlaps, faults>>
  BY DEF M!updateTenantInvite, M!At, Sound, RequestSound
<1>1. /\ moved.pc = "create" /\ moved.by = k.by /\ moved.new = k.new /\ moved.existing = k.existing
      /\ moved.invite = k.invite /\ moved.evidence = k.evidence
  BY <1>0, MemberShapes DEF MemberTyped, Joinings
<1> HIDE DEF moved
<1>2. /\ DOMAIN invites' = DOMAIN invites
      /\ \A j \in DOMAIN invites :
            /\ invites'[j].offer = invites[j].offer /\ invites'[j].by = invites[j].by
            /\ invites[j].accepted \/ j = k.invite => invites'[j].accepted
            /\ invites'[j].accepted => invites[j].accepted \/ j = k.invite
  BY <1>0, Accepted DEF MemberTyped, Offered
<1>3. Keep
  BY <1>0, <1>2 DEF Keep
<1>4. request'[c] = moved /\ \A d \in Calls \ {c} : request'[d] = request[d]
  BY <1>0, MemberGoes
<1>5. StepOf(c)
  BY <1>0, <1>1, <1>3, <1>4 DEF StepOf, M!TenantExists
<1>6. RequestSound(c)'
  <2>1. k.new.role # "OWNER"
    BY <1>0 DEF Sound, RowsSound, Offered
  <2> QED BY <1>0, <1>1, <1>2, <1>4, <2>1 DEF RequestSound, Own, Offered
<1>7. \A d \in Calls : RequestSound(d)'
  BY <1>5, <1>6, Others DEF Sound
<1>8. RowsSound'
  BY <1>0, <1>2 DEF Sound, RowsSound, OnRecord, TermsOf, M!IsMember
<1>9. M!MembersAreInvited'
  BY <1>0, <1>3, SameMembers DEF Sound
<1>10. M!SessionsAreOwn' /\ M!TermsAcceptedOnce'
  BY <1>0 DEF Sound, M!SessionsAreOwn, M!TermsAcceptedOnce
<1>11. ASSUME overlaps' = 0
       PROVE  /\ overlaps = 0 /\ MemberSingle' /\ \A d \in Calls : Fresh(d)'
              /\ \A d \in Calls : request[d].pc # "create"
  <2>1. overlaps = 0 /\ (\A d \in Calls \ {c} : request[d].pc = "idle") /\ Fresh(c)
    BY <1>0, <1>11, MemberSolo DEF Sound, AloneSound
  <2> QED BY <1>0, <1>1, <1>4, <2>1 DEF MemberSingle, Fresh, M!IsMember
<1>12. ASSUME overlaps' = 0, faults' = 0, NEW j \in DOMAIN invites', invites'[j].accepted
       PROVE  Used(j)'
  <2>1. CASE j = k.invite
    <3>1. j \in DOMAIN invites /\ invites'[j].offer = k.new
      BY <1>0, <1>2, <1>12, <2>1 DEF Offered
    <3>2. request'[c].pc = "create" /\ request'[c].invite = j /\ request'[c].new = invites'[j].offer
      BY <1>1, <1>4, <2>1, <3>1
    <3> QED BY <3>2 DEF Used
  <2>2. CASE j # k.invite
    <3>1. M!IsMember(invites[j].offer.user, invites[j].offer.tenant)
      BY <1>0, <1>2, <1>11, <1>12, <2>2 DEF Sound, AloneSound, Used
    <3> QED BY <1>0, <1>2, <1>12, <3>1 DEF Used, M!IsMember
  <2> QED BY <2>1, <2>2
<1> QED BY <1>7, <1>8, <1>9, <1>10, <1>11, <1>12 DEF Sound, AloneSound

LEMMA TermsStep ==
    ASSUME MemberTyped, MemberTyped', Sound, NEW c \in Calls, M!createTermsAcceptance(c)
    PROVE  Sound'
<1> DEFINE k == request[c]
<1>0. /\ k.pc = "terms" /\ RequestSound(c) /\ M!Go(c, M!Idle) /\ terms' = Append(terms, k.evidence)
      /\ UNCHANGED <<accounts, memberships, invites, issued, overlaps, faults>>
      /\ Own(k) /\ OnRecord(k.new)
  BY DEF M!createTermsAcceptance, M!At, Sound, RequestSound
<1>1. /\ DOMAIN terms' = DOMAIN terms \cup {Len(terms) + 1} /\ Len(terms) + 1 \notin DOMAIN terms
      /\ \A i \in DOMAIN terms : terms'[i] = terms[i]
      /\ terms'[Len(terms) + 1] = k.evidence
  BY <1>0, MemberShapes, MemberAppended DEF MemberTyped, Joinings
<1>2. request'[c] = M!Idle /\ \A d \in Calls \ {c} : request'[d] = request[d]
  BY <1>0, MemberGoes
<1>3. StepOf(c)
  BY <1>0, <1>2 DEF StepOf, Keep, M!TenantExists, M!Idle
<1>4. \A d \in Calls : RequestSound(d)'
  BY <1>2, <1>3, Others, MemberEnding DEF Sound
<1>5. M!IsMember(k.evidence.user, k.evidence.tenant)
  BY <1>0 DEF Own, OnRecord, M!IsMember
<1>6. RowsSound'
  <2>1. \A n \in DOMAIN terms' : M!IsMember(terms'[n].user, terms'[n].tenant)
    BY <1>1, <1>5 DEF Sound, RowsSound, TermsOf
  <2> QED BY <1>0, <2>1 DEF Sound, RowsSound, OnRecord, TermsOf, M!IsMember
<1>7. M!MembersAreInvited'
  <2>1. \A i \in DOMAIN memberships : \E n \in DOMAIN terms' :
           terms'[n].user = memberships[i].user /\ terms'[n].tenant = memberships[i].tenant
    BY <1>1 DEF Sound, M!MembersAreInvited
  <2> QED BY <1>0, <2>1 DEF Sound, M!MembersAreInvited
<1>8. ASSUME overlaps' = 0
      PROVE  /\ overlaps = 0 /\ MemberSingle' /\ Fresh(c) /\ \A d \in Calls : Fresh(d)'
             /\ \A d \in Calls : request[d].pc # "create"
  <2>1. overlaps = 0 /\ (\A d \in Calls \ {c} : request[d].pc = "idle") /\ Fresh(c)
    BY <1>0, <1>8, MemberSolo DEF Sound, AloneSound
  <2> QED BY <1>0, <1>2, <2>1 DEF MemberSingle, Fresh, M!Idle
<1>9. M!SessionsAreOwn' /\ M!TermsAcceptedOnce'
  BY <1>0, <1>1, <1>8 DEF Sound, M!SessionsAreOwn, M!TermsAcceptedOnce, Fresh
<1>10. ASSUME overlaps' = 0, faults' = 0, NEW j \in DOMAIN invites, invites[j].accepted
       PROVE  Used(j)'
  BY <1>0, <1>8, <1>10 DEF Sound, AloneSound, Used, M!IsMember
<1> QED BY <1>0, <1>4, <1>6, <1>7, <1>8, <1>9, <1>10 DEF Sound, AloneSound

LEMMA TimeStep ==
    ASSUME MemberTyped, Sound, M!Tick \/ M!Release \/ UNCHANGED M!vars
    PROVE  Sound'
<1>1. UNCHANGED <<accounts, memberships, invites, terms, issued, request, overlaps, faults>>
  BY DEF M!Tick, M!Release, M!vars, M!rows
<1>2. RowsSound' /\ M!MembersAreInvited' /\ M!SessionsAreOwn' /\ M!TermsAcceptedOnce'
  BY <1>1 DEF Sound, RowsSound, OnRecord, TermsOf, M!IsMember, M!MembersAreInvited, M!SessionsAreOwn, M!TermsAcceptedOnce
<1>3. \A c \in Calls : RequestSound(c)'
  BY <1>1 DEF Sound, RequestSound, OnRecord, Offered, Own, Reserved, M!TenantExists
<1>4. (overlaps = 0 => MemberSingle) => (overlaps = 0 => MemberSingle)'
  BY <1>1 DEF MemberSingle
<1>5. \A c \in Calls : Fresh(c) => Fresh(c)'
  BY <1>1 DEF Fresh, M!IsMember
<1>6. \A j \in DOMAIN invites : Used(j) => Used(j)'
  BY <1>1 DEF Used, M!IsMember
<1>7. AloneSound'
  BY <1>1, <1>4, <1>5, <1>6 DEF Sound, AloneSound
<1> QED BY <1>2, <1>3, <1>7 DEF Sound
-----------------------------------------------------------------------------
(* What the rows say and what each request has seen fit together, in       *)
(* whatever order requests overlap and die.                                *)
LEMMA SoundSteps ==
    /\ M!Init => Sound
    /\ MemberTyped /\ MemberTyped' /\ Sound /\ [M!Next]_(M!vars) => Sound'
<1>1. M!Init => Sound
  BY DEF M!Init, M!Idle, Sound, RowsSound, TermsOf, M!MembersAreInvited, M!SessionsAreOwn,
         M!TermsAcceptedOnce, AloneSound, MemberSingle, Fresh, RequestSound
<1>2. MemberTyped /\ MemberTyped' /\ Sound /\ [M!Next]_(M!vars) => Sound'
  BY TimeStep, BeginSteps, QuietSteps, CreateStep, InviteStep, MarkStep, TermsStep DEF M!Next
<1> QED BY <1>1, <1>2

(* A behaviour that is about one user's sessions has no members.           *)
InFocus ==
    \/ focus = "members" /\ MemberTyped /\ Sound
    \/ focus = "sessions" /\ memberships = <<>> /\ invites = <<>> /\ terms = <<>> /\ issued = {}

LEMMA FocusInvariant == AuthSpec => []InFocus
<1> DEFINE all == <<focus, sessionVars, memberVars, overlaps, faults>>
<1>1. AuthInit => InFocus
  <2>1. M!Init => memberships = <<>> /\ invites = <<>> /\ terms = <<>> /\ issued = {}
    BY DEF M!Init
  <2> QED BY <2>1, MemberTypedSteps, SoundSteps DEF AuthInit, InFocus
<1>2. InFocus /\ [AuthNext]_all => InFocus'
  <2> SUFFICES ASSUME InFocus, [AuthNext]_all PROVE InFocus'
    OBVIOUS
  <2>1. focus' = focus
    BY DEF AuthNext
  <2>2. CASE focus = "members"
    <3>1. [M!Next]_(M!vars)
      BY <2>2 DEF AuthNext, memberVars, M!vars
    <3>2. MemberTyped /\ Sound
      BY <2>2 DEF InFocus
    <3> QED BY <2>1, <2>2, <3>1, <3>2, MemberTypedSteps, SoundSteps DEF InFocus
  <2>3. CASE focus = "sessions"
    <3>1. UNCHANGED <<memberships, invites, terms, issued>>
      BY <2>3 DEF AuthNext, memberVars
    <3> QED BY <2>1, <2>3, <3>1 DEF InFocus
  <2> QED BY <2>2, <2>3 DEF InFocus
<1> QED BY <1>1, <1>2, PTL DEF AuthSpec

(* A tenant has one owner, who registered it, and every other member was   *)
(* offered that role by the owner and accepted, nobody is a member twice,  *)
(* each has accepted the terms, and every session is issued to the member  *)
(* it is for: in whatever order requests overlap and die.  An invite that  *)
(* says accepted has made a member, and nobody accepts the terms of a      *)
(* release twice, unless requests overlap or die (MembersHold).            *)
THEOREM MembersInvariant == AuthSpec => []MembersHold
<1>1. Sound => M!MembersHold
  <2>1. Sound => M!InvitesAreKept
    BY DEF Sound, AloneSound, Used, M!InvitesAreKept, M!Quiet
  <2> QED BY <2>1 DEF Sound, M!MembersHold
<1>2. memberships = <<>> /\ invites = <<>> /\ terms = <<>> /\ issued = {} => M!MembersHold
  BY DEF M!MembersHold, M!MembersAreInvited, M!SessionsAreOwn, M!InvitesAreKept, M!TermsAcceptedOnce
<1>3. InFocus => MembersHold
  BY <1>1, <1>2 DEF InFocus, MembersHold
<1> QED BY <1>3, FocusInvariant, PTL
=============================================================================
