---------------------------- MODULE SecondFactor ----------------------------
(* apps/users, the MFA half: the TOTP device, the backup codes, the login     *)
(* challenge and the step-up check with their failure counters in the cache.  *)
EXTENDS Accounts

CONSTANTS
    MaxMisses,  \* MFA_LOGIN_MAX_FAILURES, MFA_STEPUP_MAX_FAILURES
    MaxEnrol    \* bound: enrolments, and batches of backup codes

ASSUME SecondFactorAssumption == {MaxMisses, MaxEnrol} \subseteq Nat \ {0}

VARIABLES
    codes,    \* backup codes: how many batches were made, which codes are unused
    misses,   \* the cache's failure counters of this account; 0 = no such key
    guesses   \* history: wrong codes judged since the counter was last cleared

factorVars == <<codes, misses, guesses>>
vars == <<accountVars, factorVars>>

Paths == {"login", "stepup"}

MFADevice  == [st : {"none", "pending", "verified"}, id : Nat]
BackupCode == [made : Nat, unused : SUBSET Nat]

FactorInit ==
    /\ codes = [made |-> 0, unused |-> {}]
    /\ misses = [p \in Paths |-> 0]
    /\ guesses = [p \in Paths |-> 0]

-----------------------------------------------------------------------------
(* The device *)

\* An unverified leftover is deleted, then a fresh pending device created; the
\* one-to-one key makes the insert fail when there is a device by then.
Enroll(r) ==
    /\ Authenticated /\ ~mfa_enabled /\ device.id < MaxEnrol
    /\ Begin(r, "enroll", "enroll", 0)
    /\ UNCHANGED <<user, fams, mails, failed, device, mix, factorVars>>

EnrollDelete(r) ==
    /\ At(r, "enroll")
    /\ device' = IF mfa_enabled THEN device ELSE [device EXCEPT !.st = "none"]
    /\ Goto(r, "device")
    /\ UNCHANGED <<user, fams, mails, failed, mix, factorVars>>

EnrollCreate(r) ==
    /\ At(r, "device")
    /\ device' = IF device.st = "none" THEN [st |-> "pending", id |-> device.id + 1] ELSE device
    /\ Finish(r)
    /\ UNCHANGED <<user, fams, mails, failed, mix, factorVars>>

\* The row is read and the code checked against its secret ...
EnrollConfirm(r) ==
    /\ Authenticated /\ device.st = "pending"
    /\ Begin(r, "confirm", "confirm", device.id)
    /\ UNCHANGED <<user, fams, mails, failed, device, mix, factorVars>>

\* Mutant: saved by user, whichever device is there now.
ConfirmAny(r) ==
    /\ At(r, "confirm")
    /\ device' = [device EXCEPT !.st = "verified"] /\ Goto(r, "codes")
    /\ UNCHANGED <<user, fams, mails, failed, mix, factorVars>>

\* ... then saved by key: no row, no update, and the request fails.
ConfirmSave(r) ==
    /\ At(r, "confirm")
    /\ IF device.st # "none" /\ device.id = reqs[r].ref
         THEN device' = [device EXCEPT !.st = "verified"] /\ Goto(r, "codes")
         ELSE UNCHANGED device /\ Finish(r)
    /\ UNCHANGED <<user, fams, mails, failed, mix, factorVars>>

\* Password and TOTP were right for the device that was read.
Disable(r) ==
    /\ Authenticated /\ user.pw /\ mfa_enabled
    /\ Begin(r, "disable", "disable", device.id)
    /\ UNCHANGED <<user, fams, mails, failed, device, mix, factorVars>>

DisableDelete(r) ==
    /\ At(r, "disable")
    /\ device' = IF device.id = reqs[r].ref THEN [device EXCEPT !.st = "none"] ELSE device
    /\ Goto(r, "wipe")
    /\ UNCHANGED <<user, fams, mails, failed, mix, factorVars>>

DisableWipe(r) ==
    /\ At(r, "wipe")
    /\ codes' = [codes EXCEPT !.unused = {}]
    /\ Finish(r)
    /\ UNCHANGED <<user, fams, mails, failed, device, mix, misses, guesses>>

Regenerate(r) ==
    /\ Authenticated /\ user.pw /\ mfa_enabled /\ codes.made < MaxEnrol
    /\ Begin(r, "regenerate", "codes", device.id)
    /\ UNCHANGED <<user, fams, mails, failed, device, mix, factorVars>>

\* generate_backup_codes, one transaction: the delete sees the rows committed
\* before it; the new batch appears, and the old one goes, at the commit.
WipeCodes(r) ==
    /\ At(r, "codes")
    /\ reqs' = [reqs EXCEPT ![r].pc = "mint", ![r].todo = codes.unused]
    /\ UNCHANGED <<user, fams, mails, failed, device, mix, factorVars>>

MintCodes(r) ==
    LET n == codes.made + 1
    IN  /\ At(r, "mint")
        /\ codes' = [made |-> n, unused |-> (codes.unused \ reqs[r].todo) \union {n}]
        /\ Goto(r, "done")
        /\ UNCHANGED <<user, fams, mails, failed, device, mix, misses, guesses>>

-----------------------------------------------------------------------------
(* The checks.  `ref` holds the challenge token of a login; a step-up has none. *)

PathOf(r) == IF reqs[r].op = "mfa" THEN "login" ELSE "stepup"

\* The login challenge: token alive and not burned, counter below the limit.
MFAVerify(r, t) ==
    /\ mails[t].kind = "mfa" /\ mails[t].st = "issued"
    /\ misses["login"] < MaxMisses
    /\ Begin(r, "mfa", "judge", t)
    /\ UNCHANGED <<user, fams, mails, failed, device, mix, factorVars>>

\* verify_mfa_code: the re-prompt before a sensitive action.
StepUp(r) ==
    /\ Authenticated /\ mfa_enabled /\ misses["stepup"] < MaxMisses
    /\ Begin(r, "stepup", "judge", 0)
    /\ UNCHANGED <<user, fams, mails, failed, device, mix, factorVars>>

\* The account is read again and the code judged: a TOTP code is right, a backup
\* code matches an unused row (to be saved as used), or it is wrong.
Judge(r) ==
    /\ At(r, "judge")
    /\ \/ ~(user.active /\ mfa_enabled) /\ Finish(r) /\ UNCHANGED guesses
       \/ /\ user.active /\ mfa_enabled
          /\ \/ Goto(r, "right") /\ UNCHANGED guesses
             \/ \E c \in codes.unused :
                  reqs' = [reqs EXCEPT ![r].pc = "spend", ![r].todo = {c}] /\ UNCHANGED guesses
             \/ /\ Goto(r, IF misses[PathOf(r)] = 0 THEN "firstmiss" ELSE "miss")
                /\ guesses' = [guesses EXCEPT ![PathOf(r)] = @ + 1]
    /\ UNCHANGED <<user, fams, mails, failed, device, mix, codes, misses>>

SpendCode(r) ==
    /\ At(r, "spend")
    /\ codes' = [codes EXCEPT !.unused = @ \ reqs[r].todo]
    /\ Goto(r, "right")
    /\ UNCHANGED <<user, fams, mails, failed, device, mix, misses, guesses>>

\* The challenge is burned once its own misses reach the limit.
Missed(t) ==
    IF t = 0 THEN mails
    ELSE [mails EXCEPT ![t].misses = @ + 1,
                       ![t].st = IF mails[t].misses + 1 >= MaxMisses THEN "burned" ELSE @]

\* cache.incr on a missing key raises, and the handler then sets the key to 1:
\* two first misses together count as one.
CountMiss(r) ==
    LET p == PathOf(r)
    IN  /\ reqs[r].pc \in {"firstmiss", "miss"}
        /\ misses' = [misses EXCEPT ![p] = IF At(r, "firstmiss") \/ @ = 0 THEN 1 ELSE @ + 1]
        /\ mails' = Missed(reqs[r].ref)
        /\ Finish(r)
        /\ UNCHANGED <<user, fams, failed, device, mix, codes, guesses>>

\* A right code deletes the counter; a login goes on to its token pair.
Passed(r) ==
    LET p == PathOf(r)
    IN  /\ At(r, "right")
        /\ misses' = [misses EXCEPT ![p] = 0]
        /\ guesses' = [guesses EXCEPT ![p] = 0]
        /\ IF p = "login"
             THEN /\ mails' = [mails EXCEPT ![reqs[r].ref].misses = 0]
                  /\ Goto(r, "issue")
             ELSE Finish(r) /\ UNCHANGED mails
        /\ UNCHANGED <<user, fams, failed, device, mix, codes>>

WindowPasses(p) ==
    /\ misses[p] > 0
    /\ misses' = [misses EXCEPT ![p] = 0]
    /\ guesses' = [guesses EXCEPT ![p] = 0]
    /\ UNCHANGED <<accountVars, codes>>

FactorStep ==
    \/ \E r \in Reqs :
         \/ Enroll(r) \/ EnrollDelete(r) \/ EnrollCreate(r) \/ EnrollConfirm(r) \/ ConfirmSave(r)
         \/ Disable(r) \/ DisableDelete(r) \/ DisableWipe(r) \/ Regenerate(r) \/ WipeCodes(r) \/ MintCodes(r)
         \/ StepUp(r) \/ Judge(r) \/ SpendCode(r) \/ CountMiss(r) \/ Passed(r)
         \/ \E t \in DOMAIN mails : MFAVerify(r, t)
    \/ \E p \in Paths : WindowPasses(p)

-----------------------------------------------------------------------------
FactorTypeOK ==
    /\ device \in MFADevice /\ codes \in BackupCode
    /\ codes.unused \subseteq 1..codes.made
    /\ misses \in [Paths -> Nat] /\ guesses \in [Paths -> Nat]

\* The counter is read before the code is judged and bumped after, and each of
\* the n first misses in flight together sets it back to 1.  Even so the wrong
\* codes judged between two resets stay within n (2 MaxMisses + n - 1) / 2.
GuessesBounded ==
    \A p \in Paths : LET n == Cardinality(Reqs)
                     IN  2 * guesses[p] <= n * (2 * MaxMisses + n - 1)

\* A device is only ever verified by the confirmation of that very device: a
\* confirmation that raced a new enrolment or a disable fails instead.
OnlyConfirmedDevices ==
    [][mfa_enabled' /\ ~mfa_enabled =>
         \E r \in Reqs : At(r, "confirm") /\ reqs[r].ref = device.id
                         /\ device'.id = device.id /\ device.st = "pending"]_vars
=============================================================================
