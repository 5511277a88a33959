------------------------------ MODULE Accounts ------------------------------
(* apps/users: one account, the mailed tokens and refresh-token families that *)
(* belong to it, and the requests that sign in, sign out and change the       *)
(* password.                                                                  *)
(*                                                                            *)
(* A request is a sequence of database statements, each its own transaction;  *)
(* what it read before stays in its record (`me` is its copy of the user row) *)
(* while other requests run.  Only the rotation of a refresh token locks its  *)
(* row, so it is one step.                                                    *)
EXTENDS Integers, Sequences, FiniteSets

CONSTANTS
    Reqs,       \* request slots of the web workers
    Mixes,      \* sets of operations; a behaviour keeps to one of them
    MaxMails,   \* bound: single-use tokens issued
    MaxFams,    \* bound: sign-ins
    MaxRot,     \* bound: rotations of one family
    Threshold   \* AUTH_LOCKOUT_THRESHOLD

ASSUME AccountsAssumption ==
    /\ IsFiniteSet(Reqs) /\ Reqs # {}
    /\ {MaxMails, MaxFams} \subseteq Nat
    /\ {MaxRot, Threshold} \subseteq Nat \ {0}

VARIABLES
    user,     \* the row of users_user
    fams,     \* users_refresh_token_family, in order of creation
    mails,    \* verification, reset and exchange tokens, and MFA challenges
    failed,   \* FailedLoginAttempt rows inside the window, for one email and IP
    device,   \* the MFADevice row: User.mfa_enabled is derived from it
    reqs,     \* [Reqs -> what the request is doing]
    mix       \* the operations this behaviour uses

accountVars == <<user, fams, mails, failed, device, reqs, mix>>

\* The rows.  "due": the thirty days of a requested deletion are over.
UserRow == [here : BOOLEAN, name : {"own", "anon"}, pw : BOOLEAN, active : BOOLEAN,
            verified : BOOLEAN, pending : {"no", "asked", "due"}]
RefreshTokenFamily == [st : {"live", "revoked"}, cur : 1..MaxRot, prev : 0..(MaxRot - 1)]
Token == [kind : {"verify", "reset", "exchange", "mfa"}, misses : Nat,
          st : {"issued", "used", "expired", "burned"}]

NoUser  == [here |-> FALSE, name |-> "own", pw |-> FALSE, active |-> TRUE,
            verified |-> FALSE, pending |-> "no"]
Settled == [NoUser EXCEPT !.here = TRUE, !.pw = TRUE, !.verified = TRUE]
NewFamily == [st |-> "live", cur |-> 1, prev |-> 0]
NoDevice == [st |-> "none", id |-> 0]
Idle == [op |-> "", pc |-> "idle", ref |-> 0, me |-> NoUser, todo |-> {}, old |-> {}]

Init ==
    /\ mix \in Mixes
    /\ user = IF "register" \in mix THEN NoUser ELSE Settled
    /\ fams = IF "register" \in mix THEN <<>> ELSE <<NewFamily>>
    /\ mails = <<>>
    /\ failed = 0
    /\ device = NoDevice
    /\ reqs = [r \in Reqs |-> Idle]

mfa_enabled == device.st = "verified"
Live == {f \in DOMAIN fams : fams[f].st = "live"}

Begin(r, op, pc, ref) ==
    /\ op \in mix /\ reqs[r].pc = "idle"
    /\ reqs' = [reqs EXCEPT ![r] = [Idle EXCEPT !.op = op, !.pc = pc, !.ref = ref]]
At(r, pc)   == reqs[r].pc = pc
Goto(r, pc) == reqs' = [reqs EXCEPT ![r].pc = pc]
\* The copy of the row has served its purpose.
GotoFresh(r, pc) == reqs' = [reqs EXCEPT ![r].pc = pc, ![r].me = NoUser]
Finish(r)   == reqs' = [reqs EXCEPT ![r] = Idle]
Respond(r)  == At(r, "done") /\ Finish(r) /\ UNCHANGED <<user, fams, mails, failed, device, mix>>

\* JWTAuthentication: the bearer of an access token, as long as the row is active.
Authenticated == user.here /\ user.active
SignedIn(f) == Authenticated /\ f \in DOMAIN fams

-----------------------------------------------------------------------------
(* Single-use tokens *)

Issue(kind) ==
    /\ Len(mails) < MaxMails
    /\ mails' = Append(mails, [kind |-> kind, st |-> "issued", misses |-> 0])

Register ==
    /\ "register" \in mix /\ ~user.here
    /\ user' = [NoUser EXCEPT !.here = TRUE, !.pw = TRUE]
    /\ Issue("verify")
    /\ UNCHANGED <<fams, failed, device, reqs, mix>>

ResendVerification ==
    /\ "register" \in mix /\ user.here /\ ~user.verified /\ Issue("verify")
    /\ UNCHANGED <<user, fams, failed, device, reqs, mix>>

PasswordReset ==
    /\ "reset" \in mix /\ user.here /\ user.name = "own" /\ Issue("reset")
    /\ UNCHANGED <<user, fams, failed, device, reqs, mix>>

\* The Google identity is linked to the account with that email, or the account
\* is created, verified and without a password.
SocialLogin(u) == IF u.here THEN u ELSE [NoUser EXCEPT !.here = TRUE, !.verified = TRUE]

OAuthPostCallback ==
    /\ "oauth" \in mix /\ user.active /\ user.name = "own"
    /\ user' = SocialLogin(user)
    /\ Issue("exchange")
    /\ UNCHANGED <<fams, failed, device, reqs, mix>>

TokenExpires(t) ==
    /\ mails[t].st = "issued"
    /\ mails' = [mails EXCEPT ![t].st = "expired"]
    /\ UNCHANGED <<user, fams, failed, device, reqs, mix>>

OpOf == [verify |-> "register", reset |-> "reset", exchange |-> "oauth"]

\* _BaseToken.consume and OAuthExchangeCode.consume: the row is read and checked,
\* then saved as consumed.
ConsumeRead(r, t) ==
    /\ mails[t].kind \in DOMAIN OpOf /\ mails[t].st = "issued"
    /\ reqs[r].pc = "idle" /\ OpOf[mails[t].kind] \in mix
    /\ reqs' = [reqs EXCEPT ![r] = [Idle EXCEPT
         !.op = OpOf[mails[t].kind], !.pc = "consume", !.ref = t,
         !.me = IF mails[t].kind = "exchange" THEN user ELSE NoUser]]
    /\ UNCHANGED <<user, fams, mails, failed, device, mix>>

\* tok.user is loaded after the save, the exchange code's user with the code.
ConsumeSave(r) ==
    LET t == reqs[r].ref
    IN  /\ At(r, "consume")
        /\ mails' = [mails EXCEPT ![t].st = "used"]
        /\ reqs' = [reqs EXCEPT ![r].pc = mails[t].kind,
                                ![r].me = IF mails[t].kind = "exchange" THEN @ ELSE user]
        /\ UNCHANGED <<user, fams, failed, device, mix>>

VerifyEmail(r) ==
    /\ At(r, "verify")
    /\ user' = IF reqs[r].me.verified THEN user ELSE [user EXCEPT !.verified = TRUE]
    /\ GotoFresh(r, "issue")
    /\ UNCHANGED <<fams, mails, failed, device, mix>>

\* user.save() writes every column of the row the request loaded.
ResetSave(r) ==
    /\ At(r, "reset")
    /\ user' = [reqs[r].me EXCEPT !.pw = TRUE, !.verified = TRUE]
    /\ failed' = 0
    /\ reqs' = [reqs EXCEPT ![r].pc = "list", ![r].ref = 0, ![r].me = NoUser, ![r].old = Live]
    /\ UNCHANGED <<fams, mails, device, mix>>

\* An inactive account is refused; MFA turns the code into a challenge.
OAuthExchange(r) ==
    /\ At(r, "exchange")
    /\ \/ ~reqs[r].me.active /\ Finish(r) /\ UNCHANGED mails
       \/ reqs[r].me.active /\ mfa_enabled /\ Issue("mfa") /\ Finish(r)
       \/ reqs[r].me.active /\ ~mfa_enabled /\ GotoFresh(r, "issue") /\ UNCHANGED mails
    /\ UNCHANGED <<user, fams, failed, device, mix>>

-----------------------------------------------------------------------------
(* Signing in *)

\* Mutant: the lockout is not looked at.
LoginUngated(r) ==
    /\ Begin(r, "login", "auth", 0)
    /\ UNCHANGED <<user, fams, mails, failed, device, mix>>

LoginGate(r) ==
    /\ failed < Threshold
    /\ Begin(r, "login", "auth", 0)
    /\ UNCHANGED <<user, fams, mails, failed, device, mix>>

\* right: the password matched the row.  A wrong one is recorded; a right one
\* clears the record unless the email is unverified.
LoginCheck(r, right) ==
    /\ At(r, "auth")
    /\ IF ~(right /\ user.here /\ user.pw /\ user.active)
         THEN failed' = failed + 1 /\ Finish(r) /\ UNCHANGED mails
       ELSE IF ~user.verified
         THEN Finish(r) /\ UNCHANGED <<failed, mails>>
       ELSE /\ failed' = 0
            /\ IF mfa_enabled THEN Issue("mfa") /\ Finish(r)
                              ELSE Goto(r, "issue") /\ UNCHANGED mails
    /\ UNCHANGED <<user, fams, device, mix>>

LockoutPasses ==
    /\ failed' \in 0..(failed - 1)
    /\ UNCHANGED <<user, fams, mails, device, reqs, mix>>

\* issue_token_pair without a family: a new row.
IssuePair(r) ==
    /\ At(r, "issue") /\ Len(fams) < MaxFams
    /\ fams' = Append(fams, NewFamily)
    /\ Goto(r, "done")
    /\ UNCHANGED <<user, mails, failed, device, mix>>

-----------------------------------------------------------------------------
(* Refresh families *)

Rotated(fam) == [fam EXCEPT !.prev = fam.cur, !.cur = fam.cur + 1]
Revoked(fam) == [fam EXCEPT !.st = "revoked"]
IsReuse(fam, jti) == jti # fam.cur /\ jti # fam.prev

\* One step of grace for the token just rotated out; an older one burns the family.
RotateRefresh(fam, jti) == IF IsReuse(fam, jti) THEN Revoked(fam) ELSE Rotated(fam)
MayRotate(f, jti) == IsReuse(fams[f], jti) \/ (user.active /\ fams[f].cur < MaxRot)

\* Mutant: a revoked family is not refused.
RefreshRevoked(f, jti) ==
    /\ "refresh" \in mix /\ jti <= fams[f].cur /\ MayRotate(f, jti)
    /\ fams' = [fams EXCEPT ![f] = RotateRefresh(@, jti)]
    /\ UNCHANGED <<user, mails, failed, device, reqs, mix>>

\* Under the row lock; jti is one of the tokens ever handed out.
Refresh(f, jti) ==
    /\ "refresh" \in mix /\ jti <= fams[f].cur /\ MayRotate(f, jti)
    /\ fams[f].st = "live"
    /\ fams' = [fams EXCEPT ![f] = RotateRefresh(@, jti)]
    /\ UNCHANGED <<user, mails, failed, device, reqs, mix>>

\* revoke_refresh and the sessions page: get the live family, then save revoked_at.
Logout(r, f) ==
    /\ f \in Live
    /\ Begin(r, "logout", "revoke", f)
    /\ UNCHANGED <<user, fams, mails, failed, device, mix>>

RevokeOne(r) ==
    /\ At(r, "revoke")
    /\ fams' = [fams EXCEPT ![reqs[r].ref] = Revoked(@)]
    /\ Goto(r, "done")
    /\ UNCHANGED <<user, mails, failed, device, mix>>

\* "Sign out everywhere else"; f is the family of the access token in use.
SessionsRevokeAll(r, f) ==
    /\ SignedIn(f)
    /\ Begin(r, "revokeall", "list", f)
    /\ UNCHANGED <<user, fams, mails, failed, device, mix>>

PasswordChange(r, f) ==
    /\ SignedIn(f) /\ user.pw
    /\ Begin(r, "change", "change", f)
    /\ UNCHANGED <<user, fams, mails, failed, device, mix>>

ChangeSave(r) ==
    /\ At(r, "change")
    /\ user' = [user EXCEPT !.pw = TRUE]
    /\ reqs' = [reqs EXCEPT ![r].pc = "list", ![r].old = Live \ {reqs[r].ref}]
    /\ UNCHANGED <<fams, mails, failed, device, mix>>

\* The admin portal's disable and enable: update_fields=["is_active"].
AdminSetActive(r, active) ==
    /\ "admin" \in mix /\ At(r, "idle") /\ user.here
    /\ user' = [user EXCEPT !.active = active]
    /\ IF active THEN UNCHANGED reqs
       ELSE reqs' = [reqs EXCEPT ![r] = [Idle EXCEPT !.op = "admin", !.pc = "list", !.old = Live]]
    /\ UNCHANGED <<fams, mails, failed, device, mix>>

\* Mutant: the family claim compared with current_jti.
OthersByJti(kept) == {f \in Live : fams[f].cur # kept}

\* revoke_other_sessions: the live families are listed once ...
Others(kept) == Live \ {kept}
RevokeList(r) ==
    /\ At(r, "list")
    /\ reqs' = [reqs EXCEPT ![r].pc = "loop", ![r].todo = Others(reqs[r].ref)]
    /\ UNCHANGED <<user, fams, mails, failed, device, mix>>

\* ... and revoked one save at a time; a reset then opens a session of its own.
RevokeLoop(r) ==
    /\ At(r, "loop")
    /\ \/ \E f \in reqs[r].todo :
            /\ fams' = [fams EXCEPT ![f] = Revoked(@)]
            /\ reqs' = [reqs EXCEPT ![r].todo = @ \ {f}]
       \/ /\ reqs[r].todo = {}
          /\ Goto(r, IF reqs[r].op = "reset" THEN "issue" ELSE "done")
          /\ UNCHANGED fams
    /\ UNCHANGED <<user, mails, failed, device, mix>>

TokenStep ==
    \/ Register \/ ResendVerification \/ PasswordReset \/ OAuthPostCallback
    \/ \E t \in DOMAIN mails : TokenExpires(t) \/ \E r \in Reqs : ConsumeRead(r, t)
    \/ \E r \in Reqs : ConsumeSave(r) \/ VerifyEmail(r) \/ ResetSave(r) \/ OAuthExchange(r)

SessionStep ==
    \/ LockoutPasses
    \/ \E r \in Reqs :
         \/ LoginGate(r) \/ IssuePair(r) \/ RevokeOne(r) \/ ChangeSave(r)
         \/ RevokeList(r) \/ RevokeLoop(r) \/ Respond(r)
         \/ \E b \in BOOLEAN : LoginCheck(r, b) \/ AdminSetActive(r, b)
         \/ \E f \in DOMAIN fams : Logout(r, f) \/ SessionsRevokeAll(r, f) \/ PasswordChange(r, f)
    \/ \E f \in DOMAIN fams : \E jti \in 1..MaxRot : Refresh(f, jti)

-----------------------------------------------------------------------------
TypeOK ==
    /\ mix \in Mixes
    /\ user \in UserRow
    /\ \A f \in DOMAIN fams : fams[f] \in RefreshTokenFamily
    /\ \A t \in DOMAIN mails : mails[t] \in Token
    /\ failed \in Nat

\* A revoked family stays as it was: a rotation that races a sign-out, a bulk
\* revocation or another rotation never revives it nor moves its token on.
RevokedStaysRevoked ==
    [][\A f \in DOMAIN fams : fams[f].st = "revoked" => fams'[f] = fams[f]]_accountVars

\* When a password reset, a password change or an admin's disable answers, none
\* of the families that were live when it saved the user row is live any more
\* (the caller's own excepted), whatever rotated or signed out meanwhile.
OldSessionsEnded ==
    \A r \in Reqs : reqs[r].pc \in {"issue", "done"} =>
        \A f \in reqs[r].old : fams[f].st = "revoked"

\* The check before the password and the record after it are two statements, so
\* attempts in flight together pass the threshold, but by no more than that.
LockoutHolds == failed <= Threshold + Cardinality(Reqs) - 1
=============================================================================
