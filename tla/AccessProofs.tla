---------------------------- MODULE AccessProofs ----------------------------
(* What holds of who may do what, for any number of requests, processes,       *)
(* strategies and impersonations at once: the inductive invariant of each part *)
(* (IdInv, StratInv, GateTypeOK, DeputyTypeOK, TsInv, StreamsInv, DeskInv),    *)
(* step by step, and the theorems about the parts side by side.                *)
EXTENDS MCAccess, FiniteSetTheorems, WellFoundedInduction, TLAPS

(* Sequences and sets *)

LEMMA ElementsOf ==
  ASSUME NEW S, NEW s \in Seq(S)
  PROVE  Len(s) \in Nat /\ DOMAIN s = 1..Len(s) /\ \A i \in DOMAIN s : s[i] \in S
  OBVIOUS

LEMMA IsSeqOf ==
  ASSUME NEW S, NEW n \in Nat, NEW s \in [1..n -> S]
  PROVE  s \in Seq(S) /\ Len(s) = n
  OBVIOUS

LEMMA Appended ==
  ASSUME NEW S, NEW s \in Seq(S), NEW e \in S, NEW t, t = Append(s, e)
  PROVE  /\ t \in Seq(S) /\ Len(t) = Len(s) + 1 /\ Len(s) \in Nat
         /\ DOMAIN s \subseteq DOMAIN t /\ Len(s) + 1 \notin DOMAIN s
         /\ \A i \in DOMAIN t : IF i \in DOMAIN s THEN t[i] = s[i] ELSE i = Len(s) + 1 /\ t[i] = e
  OBVIOUS

\* One element changes; an index outside the sequence changes nothing.
LEMMA Replaced ==
  ASSUME NEW S, NEW s \in Seq(S), NEW i, NEW e, i \in DOMAIN s => e \in S,
         NEW t, t = [s EXCEPT ![i] = e]
  PROVE  /\ t \in Seq(S) /\ Len(t) = Len(s) /\ DOMAIN t = DOMAIN s
         /\ \A j \in DOMAIN s : t[j] = IF j = i THEN e ELSE s[j]
  <1>1. Len(s) \in Nat /\ DOMAIN s = 1..Len(s) /\ \A j \in DOMAIN s : s[j] \in S
    BY ElementsOf, Zenon
  <1>2. DOMAIN t = DOMAIN s /\ \A j \in DOMAIN s : t[j] = IF j = i THEN e ELSE s[j]
    OBVIOUS
  <1>3. t \in [1..Len(s) -> S]
    BY <1>1, <1>2
  <1>4. t \in Seq(S) /\ Len(t) = Len(s)
    BY <1>1, <1>3, IsSeqOf
  <1> QED
    BY <1>2, <1>4

-----------------------------------------------------------------------------
(* The account: types *)

Ops == {"", "register", "reset", "oauth", "login", "logout", "revokeall", "change", "admin", "enroll",
        "confirm", "disable", "regenerate", "mfa", "stepup", "export"}
Pcs == {"idle", "consume", "verify", "reset", "exchange", "mfa", "issue", "done", "auth", "list", "loop",
        "revoke", "change", "enroll", "device", "confirm", "disable", "wipe", "codes", "mint", "judge", "right", "spend",
        "firstmiss", "miss", "export"}
Request == [op : Ops, pc : Pcs, ref : Nat, me : UserRow, todo : SUBSET Nat, old : SUBSET Nat]
Night == [pc : {"idle", "secrets", "exports", "purge"}, todo : SUBSET Nat, keyed : SUBSET Nat]

IdTypes ==
    /\ mix \in Mixes /\ user \in UserRow /\ failed \in Nat /\ deaths \in Nat
    /\ fams \in Seq(RefreshTokenFamily) /\ mails \in Seq(Token)
    /\ reqs \in [Reqs -> Request]
    /\ FactorTypeOK
    /\ jobs \in Seq(DataExportJob) /\ work \in Seq({"queued", "running", "stored", "over"}) /\ Len(work) = Len(jobs)
    /\ files \subseteq DOMAIN jobs /\ night \in Night

Factors == <<device, codes, misses, guesses>>
Exports == <<jobs, files, work, night, deaths>>

LEMMA ReqGoes ==
  ASSUME IdTypes, NEW r \in Reqs, NEW q \in Request, reqs' = [reqs EXCEPT ![r] = q]
  PROVE  reqs' \in [Reqs -> Request] /\ reqs'[r] = q /\ \A s \in Reqs : s # r => reqs'[s] = reqs[s]
  BY DEF IdTypes

LEMMA IdleTyped == Idle \in Request /\ Idle.pc = "idle" /\ Idle.old = {} /\ NoUser \in UserRow
  <1>1. NoUser \in UserRow
    BY DEF NoUser, UserRow
  <1>2. Idle.pc = "idle" /\ Idle.old = {}
    BY DEF Idle
  <1>3. Idle \in Request
    BY <1>1 DEF Idle, Request, Ops, Pcs
  <1> QED
    BY <1>1, <1>2, <1>3

LEMMA Begun ==
  ASSUME IdTypes, NEW r \in Reqs, NEW op \in Ops, NEW pc \in Pcs, NEW ref \in Nat, Begin(r, op, pc, ref)
  PROVE  /\ reqs' \in [Reqs -> Request] /\ reqs[r].pc = "idle"
         /\ reqs'[r].pc = pc /\ reqs'[r].op = op /\ reqs'[r].ref = ref /\ reqs'[r].old = {}
         /\ \A s \in Reqs : s # r => reqs'[s] = reqs[s]
  <1>1. PICK q : q = [Idle EXCEPT !.op = op, !.pc = pc, !.ref = ref]
    OBVIOUS
  <1>2. q \in Request /\ q.pc = pc /\ q.op = op /\ q.ref = ref /\ q.old = {}
    BY <1>1, IdleTyped DEF Idle, Request
  <1>3. reqs' = [reqs EXCEPT ![r] = q] /\ reqs[r].pc = "idle"
    BY <1>1 DEF Begin
  <1> QED
    BY <1>2, <1>3, ReqGoes

LEMMA Finished ==
  ASSUME IdTypes, NEW r \in Reqs, Finish(r)
  PROVE  /\ reqs' \in [Reqs -> Request]
         /\ reqs'[r].pc = "idle" /\ reqs'[r].old = {}
         /\ \A s \in Reqs : s # r => reqs'[s] = reqs[s]
  BY IdleTyped, ReqGoes DEF Finish

LEMMA Gone ==
  ASSUME IdTypes, NEW r \in Reqs, NEW pc \in Pcs, Goto(r, pc) \/ GotoFresh(r, pc)
  PROVE  /\ reqs' \in [Reqs -> Request]
         /\ reqs'[r].pc = pc /\ reqs'[r].old = reqs[r].old /\ reqs'[r].op = reqs[r].op
         /\ reqs'[r].ref = reqs[r].ref /\ reqs'[r].todo = reqs[r].todo
         /\ \A s \in Reqs : s # r => reqs'[s] = reqs[s]
  <1>1. CASE Goto(r, pc)
    BY <1>1 DEF Goto, IdTypes, Request
  <1>2. CASE GotoFresh(r, pc)
    BY <1>2, IdleTyped DEF GotoFresh, IdTypes, Request
  <1> QED
    BY <1>1, <1>2

(* The account: invariants *)

\* Families are only added, and a revoked one stays as it was.
FamsGrow ==
    /\ DOMAIN fams \subseteq DOMAIN fams'
    /\ \A f \in DOMAIN fams : fams[f].st = "revoked" => fams'[f] = fams[f]

\* What a request still owes the families it has to end.
Ends(r) ==
    LET q == reqs[r] IN
    /\ q.old \subseteq DOMAIN fams
    /\ q.pc = "list" => q.ref \notin q.old
    /\ q.pc = "loop" => /\ q.todo \subseteq DOMAIN fams
                        /\ \A f \in q.old : f \in q.todo \/ fams[f].st = "revoked"
    /\ q.pc \in {"issue", "done"} => \A f \in q.old : fams[f].st = "revoked"
    /\ q.pc \notin {"list", "loop", "issue", "done"} => q.old = {}
SessInv == \A r \in Reqs : Ends(r)

\* A password attempt that passed the gate has its failure to record.
Checking == {r \in Reqs : reqs[r].pc = "auth"}
LockInv == failed + Cardinality(Checking) <= Threshold + Cardinality(Reqs) - 1

\* Codes that passed the counter, and those judged wrong that it has yet to count.
On(p, pcs) == {r \in Reqs : reqs[r].pc \in pcs /\ PathOf(r) = p}
Passing(p) == On(p, {"judge", "firstmiss", "miss"})
Firsts(p) == On(p, {"firstmiss"})
Laters(p) == On(p, {"miss"})

\* Twice the guesses that f first misses still in flight leave room for.
Ceiling(f) ==
    LET n == Cardinality(Reqs)
    IN  2 * n + 2 * (n - f - 1) * (MaxMisses - 2) + (n - f) * (n - f - 1)

\* A counter m and g guesses, with f first misses, x later ones and z codes in flight.
Fits(m, g, f, x, z) ==
    LET n == Cardinality(Reqs)
    IN  /\ m + z <= MaxMisses - 1 + n
        /\ m = 0 => g <= f
        /\ m > 0 => f < n /\ 2 * g <= Ceiling(f) + 2 * (m - 1) + 2 * x
Counted(p) == Fits(misses[p], guesses[p], Cardinality(Firsts(p)), Cardinality(Laters(p)),
                   Cardinality(Passing(p)))
GuessInv == \A p \in Paths : Counted(p)

\* Whatever is written about an account or sent to it, there is a row for it.
Mailed == {"consume", "verify", "reset", "exchange"}
RowInv ==
    /\ (mails # <<>> \/ user.name = "anon" \/ user.pending # "no" \/ night.pc # "idle") => user.here
    /\ \A r \in Reqs :
         /\ reqs[r].pc \in Mailed => mails # <<>>
         /\ reqs[r].pc = "consume" => reqs[r].ref \in DOMAIN mails
         /\ reqs[r].pc = "reset" => reqs[r].me.here

IdInv == IdTypes /\ SessInv /\ LockInv /\ GuessInv /\ RowInv

-----------------------------------------------------------------------------
(* What a step has to do for each of them *)

LEMMA FamsStay == ASSUME UNCHANGED fams PROVE FamsGrow
  BY DEF FamsGrow

LEMMA SessFrame ==
  ASSUME IdTypes, SessInv, FamsGrow,
         \A s \in Reqs : reqs'[s] = reqs[s] \/ (reqs'[s].old = {} /\ reqs'[s].pc # "loop")
  PROVE  SessInv'
  <1> SUFFICES ASSUME NEW s \in Reqs PROVE Ends(s)'
    BY DEF SessInv
  <1>1. CASE reqs'[s] = reqs[s]
    <2>1. Ends(s)
      BY DEF SessInv
    <2> QED
      BY <1>1, <2>1 DEF Ends, FamsGrow
  <1>2. CASE reqs'[s].old = {} /\ reqs'[s].pc # "loop"
    BY <1>2 DEF Ends
  <1> QED
    BY <1>1, <1>2

LEMMA Fewer ==
  ASSUME NEW S \in SUBSET Reqs, NEW T \in SUBSET S
  PROVE  /\ IsFiniteSet(S) /\ Cardinality(T) \in Nat /\ Cardinality(S) \in Nat
         /\ Cardinality(T) <= Cardinality(S) /\ Cardinality(S) <= Cardinality(Reqs)
         /\ Cardinality(Reqs) \in Nat \ {0}
  <1>1. IsFiniteSet(Reqs) /\ Reqs # {}
    BY AccountsAssumption
  <1>2. IsFiniteSet(S) /\ Cardinality(S) <= Cardinality(Reqs)
    BY <1>1, FS_Subset
  <1>3. IsFiniteSet(T) /\ Cardinality(T) <= Cardinality(S)
    BY <1>2, FS_Subset
  <1>4. Cardinality(Reqs) # 0 /\ Cardinality(Reqs) \in Nat
    BY <1>1, FS_EmptySet, FS_CardinalityType
  <1>5. Cardinality(T) \in Nat /\ Cardinality(S) \in Nat
    BY <1>2, <1>3, FS_CardinalityType
  <1> QED
    BY <1>2, <1>3, <1>4, <1>5

LEMMA LockFrame ==
  ASSUME IdTypes, IdTypes', LockInv, failed' <= failed,
         \A s \in Reqs : reqs'[s].pc = "auth" => reqs[s].pc = "auth"
  PROVE  LockInv'
  <1>0. PICK S : S = Checking'
    OBVIOUS
  <1>1. S \in SUBSET Checking /\ Checking \in SUBSET Reqs
    BY <1>0 DEF Checking
  <1>2. Cardinality(S) \in Nat /\ Cardinality(Checking) \in Nat
        /\ Cardinality(S) <= Cardinality(Checking) /\ Cardinality(Reqs) \in Nat
    BY <1>1, Fewer
  <1>3. failed \in Nat /\ failed' \in Nat /\ Threshold \in Nat
    BY AccountsAssumption DEF IdTypes
  <1>4. failed' + Cardinality(S) <= Threshold + Cardinality(Reqs) - 1
    BY <1>2, <1>3 DEF LockInv
  <1> QED
    BY <1>0, <1>4 DEF LockInv

\* The requests of every path stay in their classes, but those about to be judged.
LEMMA GuessFrame ==
  ASSUME IdTypes, GuessInv, UNCHANGED <<misses, guesses>>,
         \A s \in Reqs : \/ reqs'[s] = reqs[s]
                         \/ /\ reqs[s].pc \notin {"firstmiss", "miss"}
                            /\ reqs'[s].pc \notin {"judge", "firstmiss", "miss"}
  PROVE  GuessInv'
  <1> SUFFICES ASSUME NEW p \in Paths PROVE Counted(p)'
    BY DEF GuessInv
  <1>0. Counted(p)
    BY DEF GuessInv
  <1>1. Firsts(p)' = Firsts(p) /\ Laters(p)' = Laters(p)
    BY DEF Firsts, Laters, On, PathOf
  <1>2. PICK S : S = Passing(p)'
    OBVIOUS
  <1>3. S \in SUBSET Passing(p) /\ Passing(p) \in SUBSET Reqs
    BY <1>2 DEF Passing, On, PathOf
  <1>4. Cardinality(S) \in Nat /\ Cardinality(Passing(p)) \in Nat /\ Cardinality(Reqs) \in Nat
        /\ Cardinality(S) <= Cardinality(Passing(p))
    BY <1>3, Fewer
  <1>5. misses[p] \in Nat /\ MaxMisses \in Nat
    BY SecondFactorAssumption DEF IdTypes, FactorTypeOK
  <1>6. Fits(misses[p], guesses[p], Cardinality(Firsts(p)), Cardinality(Laters(p)), Cardinality(S))
    BY <1>0, <1>4, <1>5 DEF Counted, Fits
  <1> QED
    BY <1>1, <1>2, <1>6 DEF Counted, Fits, Ceiling

LEMMA RowFrame ==
  ASSUME IdTypes, RowInv, IdTypes', DOMAIN mails \subseteq DOMAIN mails',
         user.here => user'.here,
         (mails' # mails \/ user' # user \/ night' # night) /\
           (mails' # <<>> \/ user'.name = "anon" \/ user'.pending # "no" \/ night'.pc # "idle") => user'.here,
         \A s \in Reqs : reqs'[s] = reqs[s] \/ reqs'[s].pc \notin Mailed
  PROVE  RowInv'
  <1>1. mails # <<>> => mails' # <<>>
    BY DEF IdTypes
  <1>2. ((mails # <<>> \/ user.name = "anon" \/ user.pending # "no" \/ night.pc # "idle") => user.here)'
    BY DEF RowInv
  <1>3. ASSUME NEW s \in Reqs
        PROVE  /\ reqs'[s].pc \in Mailed => mails' # <<>>
               /\ reqs'[s].pc = "consume" => reqs'[s].ref \in DOMAIN mails'
               /\ reqs'[s].pc = "reset" => reqs'[s].me.here
    BY <1>1 DEF RowInv, Mailed
  <1> QED
    BY <1>2, <1>3 DEF RowInv

\* A request that goes where nothing is owed.
Calm(q) == q.old = {} /\ q.pc \notin {"auth", "judge", "firstmiss", "miss", "loop"} \union Mailed

LEMMA CalmStep ==
  ASSUME IdInv, IdTypes', FamsGrow, failed' <= failed, UNCHANGED <<misses, guesses>>,
         DOMAIN mails \subseteq DOMAIN mails', user.here => user'.here,
         (mails' # mails \/ user' # user \/ night' # night) /\
           (mails' # <<>> \/ user'.name = "anon" \/ user'.pending # "no" \/ night'.pc # "idle") => user'.here,
         \A s \in Reqs : \/ reqs'[s] = reqs[s]
                         \/ Calm(reqs'[s]) /\ reqs[s].pc \notin {"firstmiss", "miss"}
  PROVE  IdInv'
  <1>1. SessInv'
    BY SessFrame DEF IdInv, Calm
  <1>2. LockInv'
    BY LockFrame DEF IdInv, Calm
  <1>3. GuessInv'
    BY GuessFrame DEF IdInv, Calm
  <1>4. RowInv'
    BY RowFrame DEF IdInv, Calm
  <1> QED
    BY <1>1, <1>2, <1>3, <1>4 DEF IdInv

(* The account: the steps that owe nothing *)

Unwatched == {"idle", "revoke", "change", "enroll", "device", "confirm", "disable", "wipe", "codes", "mint", "right",
              "spend", "export", "list", "issue", "done", "mfa"}

\* Nothing but a request that begins.
LEMMA BeginInv ==
  ASSUME IdInv, NEW r \in Reqs, NEW op \in Ops, NEW pc \in Pcs \intersect Unwatched, NEW ref \in Nat,
         Begin(r, op, pc, ref), UNCHANGED <<user, fams, mails, failed, mix, Factors, Exports>>
  PROVE  IdInv' /\ FamsGrow
  <1>1. /\ reqs' \in [Reqs -> Request] /\ reqs[r].pc = "idle" /\ reqs'[r].pc = pc /\ reqs'[r].old = {}
        /\ \A s \in Reqs : s # r => reqs'[s] = reqs[s]
    BY Begun DEF IdInv
  <1>2. IdTypes'
    BY <1>1 DEF IdInv, IdTypes, FactorTypeOK, Factors, Exports
  <1> QED
    BY <1>1, <1>2, CalmStep, FamsStay DEF IdInv, IdTypes, Calm, Mailed, Unwatched, Factors, Exports

LEMMA RowsChange ==
  ASSUME IdInv, UNCHANGED <<fams, misses, guesses, mix, jobs, work, files, night, deaths>>,
         user' \in UserRow, failed' \in 0..failed, mails' \in Seq(Token), device' \in MFADevice,
         codes' \in BackupCode, codes'.unused \subseteq 1..codes'.made,
         DOMAIN mails \subseteq DOMAIN mails', user.here => user'.here,
         (mails' # mails \/ user' # user) /\
           (mails' # <<>> \/ user'.name = "anon" \/ user'.pending # "no" \/ night.pc # "idle") => user'.here,
         \/ reqs' = reqs
         \/ \E r \in Reqs, q \in Request : /\ reqs' = [reqs EXCEPT ![r] = q] /\ Calm(q)
                                           /\ reqs[r].pc \notin {"firstmiss", "miss"}
  PROVE  IdInv' /\ FamsGrow
  <1>0. failed' \in Nat /\ failed' <= failed
    BY DEF IdInv, IdTypes
  <1>1. /\ reqs' \in [Reqs -> Request]
        /\ \A s \in Reqs : \/ reqs'[s] = reqs[s]
                           \/ Calm(reqs'[s]) /\ reqs[s].pc \notin {"firstmiss", "miss"}
    <2>1. CASE reqs' = reqs
      BY <2>1 DEF IdInv, IdTypes
    <2>2. ASSUME NEW r \in Reqs, NEW q \in Request, reqs' = [reqs EXCEPT ![r] = q], Calm(q),
                 reqs[r].pc \notin {"firstmiss", "miss"}
          PROVE  /\ reqs' \in [Reqs -> Request]
                 /\ \A s \in Reqs : \/ reqs'[s] = reqs[s]
                                    \/ Calm(reqs'[s]) /\ reqs[s].pc \notin {"firstmiss", "miss"}
      BY <2>2, ReqGoes DEF IdInv
    <2> QED
      BY <2>1, <2>2
  <1>2. IdTypes'
    BY <1>0, <1>1 DEF IdInv, IdTypes, FactorTypeOK
  <1> QED
    BY <1>0, <1>1, <1>2, CalmStep, FamsStay DEF IdInv

LEMMA Issued ==
  ASSUME IdTypes, NEW kind \in {"verify", "reset", "exchange", "mfa"}, Issue(kind)
  PROVE  mails' \in Seq(Token) /\ DOMAIN mails \subseteq DOMAIN mails'
  <1>1. PICK e : e = [kind |-> kind, st |-> "issued", misses |-> 0]
    OBVIOUS
  <1>2. e \in Token
    BY <1>1 DEF Token
  <1>3. mails' = Append(mails, e) /\ mails \in Seq(Token)
    BY <1>1 DEF Issue, IdTypes
  <1> QED
    BY <1>2, <1>3, Appended

\* A token's row changes, if there is one.
LEMMA TokenSet ==
  ASSUME IdTypes, NEW t, NEW e, t \in DOMAIN mails => e \in Token, mails' = [mails EXCEPT ![t] = e]
  PROVE  mails' \in Seq(Token) /\ DOMAIN mails' = DOMAIN mails
  <1>1. mails \in Seq(Token)
    BY DEF IdTypes
  <1> QED
    BY <1>1, Replaced

LEMMA FactorsTyped ==
  ASSUME IdInv
  PROVE  /\ device \in MFADevice /\ codes \in BackupCode /\ codes.unused \subseteq 1..codes.made
         /\ mails \in Seq(Token) /\ failed \in 0..failed /\ user \in UserRow
         /\ reqs \in [Reqs -> Request] /\ fams \in Seq(RefreshTokenFamily)
         /\ \A r \in Reqs : reqs[r].pc \notin {"list", "loop", "issue", "done"} => reqs[r].old = {}
  BY DEF IdInv, IdTypes, FactorTypeOK, SessInv, Ends

\* A request moves on, or ends, where nothing is owed.
Moves(r) == \E q \in Request : /\ reqs' = [reqs EXCEPT ![r] = q] /\ Calm(q)
                               /\ reqs[r].pc \notin {"firstmiss", "miss"}

LEMMA CalmMove ==
  ASSUME IdInv, NEW r \in Reqs, NEW pc \in Pcs \intersect Unwatched,
         reqs[r].pc \notin {"list", "loop", "issue", "done", "firstmiss", "miss"},
         Goto(r, pc) \/ GotoFresh(r, pc) \/ Finish(r)
  PROVE  Moves(r)
  <1>0. reqs[r] \in Request /\ reqs[r].old = {}
    BY FactorsTyped
  <1>1. CASE Goto(r, pc)
    <2>1. PICK q : q = [reqs[r] EXCEPT !.pc = pc]
      OBVIOUS
    <2>2. q \in Request /\ q.pc = pc /\ q.old = {}
      BY <1>0, <2>1 DEF Request
    <2>3. reqs' = [reqs EXCEPT ![r] = q]
      BY <1>1, <2>1 DEF Goto
    <2> QED
      BY <2>2, <2>3 DEF Moves, Calm, Unwatched, Mailed
  <1>2. CASE GotoFresh(r, pc)
    <2>1. PICK q : q = [reqs[r] EXCEPT !.pc = pc, !.me = NoUser]
      OBVIOUS
    <2>2. q \in Request /\ q.pc = pc /\ q.old = {}
      BY <1>0, <2>1, IdleTyped DEF Request
    <2>3. reqs' = [reqs EXCEPT ![r] = q]
      BY <1>2, <2>1, FactorsTyped DEF GotoFresh, Request
    <2> QED
      BY <2>2, <2>3 DEF Moves, Calm, Unwatched, Mailed
  <1>3. CASE Finish(r)
    BY <1>3, IdleTyped DEF Finish, Moves, Calm, Mailed
  <1> QED
    BY <1>1, <1>2, <1>3

LEMMA RegisterInv ==
  ASSUME IdInv, Register, UNCHANGED <<factorVars, Exports>>
  PROVE  IdInv' /\ FamsGrow
  <1>1. user' \in UserRow /\ user'.here
    BY DEF Register, NoUser, UserRow
  <1>2. mails' \in Seq(Token) /\ DOMAIN mails \subseteq DOMAIN mails'
    BY Issued DEF Register, IdInv
  <1> QED
    BY <1>1, <1>2, FactorsTyped, RowsChange DEF Register, factorVars, Exports

LEMMA MailInv ==
  ASSUME IdInv, ResendVerification \/ PasswordReset, UNCHANGED <<factorVars, Exports>>
  PROVE  IdInv' /\ FamsGrow
  <1>1. user' = user /\ user.here
    BY DEF ResendVerification, PasswordReset
  <1>2. mails' \in Seq(Token) /\ DOMAIN mails \subseteq DOMAIN mails'
    BY Issued DEF ResendVerification, PasswordReset, IdInv
  <1> QED
    BY <1>1, <1>2, FactorsTyped, RowsChange DEF ResendVerification, PasswordReset, factorVars, Exports

LEMMA SocialInv ==
  ASSUME IdInv, OAuthPostCallback, UNCHANGED <<factorVars, Exports>>
  PROVE  IdInv' /\ FamsGrow
  <1>1. user' \in UserRow /\ user'.here
    BY FactorsTyped DEF OAuthPostCallback, SocialLogin, NoUser, UserRow
  <1>2. mails' \in Seq(Token) /\ DOMAIN mails \subseteq DOMAIN mails'
    BY Issued DEF OAuthPostCallback, IdInv
  <1> QED
    BY <1>1, <1>2, FactorsTyped, RowsChange DEF OAuthPostCallback, factorVars, Exports

LEMMA ExpiryInv ==
  ASSUME IdInv, NEW t \in DOMAIN mails, TokenExpires(t), UNCHANGED <<factorVars, Exports>>
  PROVE  IdInv' /\ FamsGrow
  <1>1. PICK e : e = [mails[t] EXCEPT !.st = "expired"]
    OBVIOUS
  <1>2. e \in Token
    <2>1. mails[t] \in Token
      BY FactorsTyped, ElementsOf
    <2> QED
      BY <1>1, <2>1 DEF Token
  <1>3. mails' = [mails EXCEPT ![t] = e]
    BY <1>1 DEF TokenExpires
  <1>4. mails' \in Seq(Token) /\ DOMAIN mails' = DOMAIN mails
    BY <1>2, <1>3, TokenSet DEF IdInv
  <1>5. mails # <<>>
    BY FactorsTyped
  <1>6. user.here
    BY <1>5 DEF IdInv, RowInv
  <1> QED
    BY <1>4, <1>6, FactorsTyped, RowsChange DEF TokenExpires, factorVars, Exports

LEMMA VerifyInv ==
  ASSUME IdInv, NEW r \in Reqs, VerifyEmail(r), UNCHANGED <<factorVars, Exports>>
  PROVE  IdInv' /\ FamsGrow
  <1>1. user' \in UserRow /\ user'.here = user.here
    BY FactorsTyped DEF VerifyEmail, UserRow
  <1>2. user.here
    BY DEF IdInv, RowInv, Mailed, VerifyEmail, At
  <1>3. Moves(r)
    BY CalmMove DEF VerifyEmail, At, Pcs, Unwatched
  <1> QED
    BY <1>1, <1>2, <1>3, FactorsTyped, RowsChange DEF Moves, VerifyEmail, factorVars, Exports

LEMMA ExchangeCodeInv ==
  ASSUME IdInv, NEW r \in Reqs, OAuthExchange(r), UNCHANGED <<factorVars, Exports>>
  PROVE  IdInv' /\ FamsGrow
  <1>1. mails' \in Seq(Token) /\ DOMAIN mails \subseteq DOMAIN mails'
    BY Issued, FactorsTyped DEF OAuthExchange, IdInv
  <1>2. user.here
    BY DEF IdInv, RowInv, Mailed, OAuthExchange, At
  <1>3. Moves(r)
    BY CalmMove DEF OAuthExchange, At, Pcs, Unwatched
  <1> QED
    BY <1>1, <1>2, <1>3, FactorsTyped, RowsChange DEF Moves, OAuthExchange, factorVars, Exports

LEMMA LoginRightInv ==
  ASSUME IdInv, NEW r \in Reqs, LoginCheck(r, TRUE), user.here /\ user.pw /\ user.active,
         UNCHANGED <<factorVars, Exports>>
  PROVE  IdInv' /\ FamsGrow
  <1>1. mails' \in Seq(Token) /\ DOMAIN mails \subseteq DOMAIN mails'
    BY Issued, FactorsTyped DEF LoginCheck, IdInv
  <1>2. Moves(r)
    BY CalmMove DEF LoginCheck, At, Pcs, Unwatched
  <1>3. failed' \in 0..failed
    BY FactorsTyped DEF LoginCheck, IdInv, IdTypes
  <1> QED
    BY <1>1, <1>2, <1>3, FactorsTyped, RowsChange DEF Moves, LoginCheck, factorVars, Exports

LEMMA LockoutPassesInv ==
  ASSUME IdInv, LockoutPasses, UNCHANGED <<factorVars, Exports>>
  PROVE  IdInv' /\ FamsGrow
  <1>1. failed' \in 0..failed
    BY DEF LockoutPasses, IdInv, IdTypes
  <1> QED
    BY <1>1, FactorsTyped, RowsChange DEF LockoutPasses, factorVars, Exports

LEMMA RespondInv ==
  ASSUME IdInv, NEW r \in Reqs, Respond(r), UNCHANGED <<factorVars, Exports>>
  PROVE  IdInv' /\ FamsGrow
  <1>1. Idle \in Request /\ Calm(Idle)
    BY IdleTyped DEF Calm, Mailed
  <1>2. reqs' = [reqs EXCEPT ![r] = Idle] /\ reqs[r].pc = "done"
    BY DEF Respond, Finish, At
  <1> QED
    BY <1>1, <1>2, FactorsTyped, RowsChange DEF Respond, factorVars, Exports

\* The second factor: the device and its codes.
LEMMA DeviceInv ==
  ASSUME IdInv, NEW r \in Reqs, UNCHANGED Exports,
         EnrollDelete(r) \/ EnrollCreate(r) \/ ConfirmSave(r) \/ DisableDelete(r) \/ DisableWipe(r)
  PROVE  IdInv' /\ FamsGrow
  <1>1. device' \in MFADevice
    BY FactorsTyped DEF EnrollDelete, EnrollCreate, ConfirmSave, DisableDelete, DisableWipe, MFADevice
  <1>2. codes' \in BackupCode /\ codes'.unused \subseteq 1..codes'.made
    BY FactorsTyped DEF EnrollDelete, EnrollCreate, ConfirmSave, DisableDelete, DisableWipe, BackupCode, factorVars
  <1>3. Moves(r)
    BY CalmMove DEF EnrollDelete, EnrollCreate, ConfirmSave, DisableDelete, DisableWipe, At, Pcs, Unwatched
  <1> QED
    BY <1>1, <1>2, <1>3, FactorsTyped, RowsChange
       DEF Moves, EnrollDelete, EnrollCreate, ConfirmSave, DisableDelete, DisableWipe, factorVars, Exports

LEMMA CodesInv ==
  ASSUME IdInv, NEW r \in Reqs, MintCodes(r) \/ SpendCode(r), UNCHANGED Exports
  PROVE  IdInv' /\ FamsGrow
  <1>1. codes' \in BackupCode /\ codes'.unused \subseteq 1..codes'.made
    <2>1. codes.made \in Nat /\ codes.unused \subseteq 1..codes.made /\ codes.unused \in SUBSET Nat
      BY FactorsTyped DEF BackupCode
    <2>2. CASE MintCodes(r)
      <3>1. PICK n : n = codes.made + 1
        OBVIOUS
      <3>2. PICK u : u = (codes.unused \ reqs[r].todo) \union {n}
        OBVIOUS
      <3>3. codes' = [made |-> n, unused |-> u]
        BY <2>2, <3>1, <3>2 DEF MintCodes
      <3>4. n \in Nat /\ u \subseteq 1..n /\ u \subseteq Nat
        BY <2>1, <3>1, <3>2
      <3> QED
        BY <3>3, <3>4 DEF BackupCode
    <2>3. CASE SpendCode(r)
      BY <2>1, <2>3, FactorsTyped DEF SpendCode, BackupCode
    <2> QED
      BY <2>2, <2>3
  <1>2. Moves(r)
    BY CalmMove DEF MintCodes, SpendCode, At, Pcs, Unwatched
  <1> QED
    BY <1>1, <1>2, FactorsTyped, RowsChange DEF Moves, MintCodes, SpendCode, factorVars, Exports

LEMMA WipeInv ==
  ASSUME IdInv, NEW r \in Reqs, WipeCodes(r), UNCHANGED Exports
  PROVE  IdInv' /\ FamsGrow
  <1>1. PICK q : q = [reqs[r] EXCEPT !.pc = "mint", !.todo = codes.unused]
    OBVIOUS
  <1>2. q \in Request /\ q.pc = "mint" /\ q.old = {}
    <2>1. reqs[r] \in Request /\ reqs[r].old = {}
      BY FactorsTyped DEF WipeCodes, At
    <2>2. codes.unused \in SUBSET Nat /\ "mint" \in Pcs
      BY FactorsTyped DEF BackupCode, Pcs
    <2> QED
      BY <1>1, <2>1, <2>2 DEF Request
  <1>3. reqs' = [reqs EXCEPT ![r] = q] /\ reqs[r].pc = "codes"
    BY <1>1, FactorsTyped DEF WipeCodes, At, Request
  <1> QED
    BY <1>2, <1>3, FactorsTyped, RowsChange DEF WipeCodes, Calm, Mailed, factorVars, Exports

\* The owner asks for the deletion, or takes it back; an admin enables the account.
LEMMA OwnerInv ==
  ASSUME IdInv, \/ DeleteRequest \/ DeleteCancel \/ ThirtyDaysPass
                \/ \E r \in Reqs : AdminSetActive(r, TRUE) /\ UNCHANGED <<factorVars, Exports>>
  PROVE  IdInv' /\ FamsGrow
  <1>1. user.here
    BY DEF DeleteRequest, DeleteCancel, ThirtyDaysPass, AdminSetActive, Authenticated, IdInv, RowInv
  <1>2. user' \in UserRow /\ user'.here
    BY <1>1, FactorsTyped DEF DeleteRequest, DeleteCancel, ThirtyDaysPass, AdminSetActive, UserRow
  <1> QED
    BY <1>2, FactorsTyped, RowsChange
       DEF DeleteRequest, DeleteCancel, ThirtyDaysPass, AdminSetActive, factorVars, erasureVars, Exports

(* The account: requests that begin *)

LEMMA BeginsInv ==
  ASSUME IdInv, NEW r \in Reqs,
         \/ \E f \in DOMAIN fams : /\ Logout(r, f) \/ SessionsRevokeAll(r, f) \/ PasswordChange(r, f)
                                   /\ UNCHANGED <<factorVars, Exports>>
         \/ (Enroll(r) \/ EnrollConfirm(r) \/ Disable(r) \/ Regenerate(r)) /\ UNCHANGED Exports
         \/ ExportLook(r)
  PROVE  IdInv' /\ FamsGrow
  <1>1. device.id \in Nat /\ DOMAIN fams \subseteq Nat
    BY FactorsTyped DEF MFADevice
  <1>2. \E op \in Ops, pc \in Pcs \intersect Unwatched, ref \in Nat : Begin(r, op, pc, ref)
    <2>1. ASSUME NEW f \in DOMAIN fams, Logout(r, f) \/ SessionsRevokeAll(r, f) \/ PasswordChange(r, f)
          PROVE  \E op \in Ops, pc \in Pcs \intersect Unwatched : Begin(r, op, pc, f)
      BY <2>1 DEF Logout, SessionsRevokeAll, PasswordChange, Ops, Pcs, Unwatched
    <2>2. ASSUME Enroll(r) \/ EnrollConfirm(r) \/ Disable(r) \/ Regenerate(r) \/ ExportLook(r)
          PROVE  \E op \in Ops, pc \in Pcs \intersect Unwatched, ref \in {0, device.id} : Begin(r, op, pc, ref)
      BY <2>2 DEF Enroll, EnrollConfirm, Disable, Regenerate, ExportLook, Ops, Pcs, Unwatched
    <2> QED
      BY <1>1, <2>1, <2>2
  <1>3. UNCHANGED <<user, fams, mails, failed, mix, Factors, Exports>>
    BY DEF Logout, SessionsRevokeAll, PasswordChange, Enroll, EnrollConfirm, Disable, Regenerate,
           ExportLook, factorVars, erasureVars, Factors, Exports
  <1> QED
    BY <1>2, <1>3, BeginInv

-----------------------------------------------------------------------------
(* Exports and the nightly task *)

JobStates == {"queued", "running", "stored", "over"}

LEMMA ExportsChange ==
  ASSUME IdInv, UNCHANGED <<user, fams, mails, failed, reqs, mix, misses, guesses>>,
         device' \in MFADevice, codes' \in BackupCode, codes'.unused \subseteq 1..codes'.made,
         jobs' \in Seq(DataExportJob), work' \in Seq(JobStates), Len(work') = Len(jobs'),
         files' \subseteq DOMAIN jobs', deaths' \in Nat,
         night' \in Night, night' = night \/ night'.pc = "idle" \/ user.here
  PROVE  IdInv' /\ FamsGrow
  <1>1. IdTypes'
    BY DEF IdInv, IdTypes, FactorTypeOK, JobStates
  <1> QED
    BY <1>1, CalmStep, FamsStay DEF IdInv, IdTypes, RowInv

LEMMA JobsTyped ==
  ASSUME IdInv
  PROVE  /\ jobs \in Seq(DataExportJob) /\ work \in Seq(JobStates) /\ Len(work) = Len(jobs)
         /\ files \subseteq DOMAIN jobs /\ night \in Night /\ deaths \in Nat
         /\ DOMAIN work = DOMAIN jobs /\ DOMAIN jobs \subseteq Nat
  BY DEF IdInv, IdTypes, JobStates

LEMMA JobSet ==
  ASSUME IdInv, NEW j \in DOMAIN jobs, NEW st \in DataExportJob, jobs' = [jobs EXCEPT ![j] = st]
  PROVE  jobs' \in Seq(DataExportJob) /\ Len(jobs') = Len(jobs) /\ DOMAIN jobs' = DOMAIN jobs
  BY JobsTyped, Replaced

LEMMA WorkSet ==
  ASSUME IdInv, NEW j \in DOMAIN jobs, NEW st \in JobStates, work' = [work EXCEPT ![j] = st]
  PROVE  work' \in Seq(JobStates) /\ Len(work') = Len(work)
  BY JobsTyped, Replaced

LEMMA TaskInv ==
  ASSUME IdInv, NEW j \in DOMAIN jobs,
         ExportStart(j) \/ ExportStore(j) \/ ExportPublish(j) \/ ExportFails(j) \/ ExportDies(j) \/ Evict(j)
  PROVE  IdInv' /\ FamsGrow
  <1>1. /\ UNCHANGED <<user, fams, mails, failed, device, reqs, mix, codes, misses, guesses, night>>
        /\ deaths' = deaths \/ deaths' = deaths + 1
    BY DEF ExportStart, ExportStore, ExportPublish, ExportFails, ExportDies, Evict, DropFile,
           vars, accountVars, factorVars
  <1>2. jobs' \in Seq(DataExportJob) /\ Len(jobs') = Len(jobs) /\ DOMAIN jobs' = DOMAIN jobs
    <2>1. \/ jobs' = jobs
          \/ \E st \in DataExportJob : jobs' = [jobs EXCEPT ![j] = st]
      BY DEF ExportStart, ExportStore, ExportPublish, ExportFails, ExportDies, Evict, SaveJob, DataExportJob
    <2> QED
      BY <2>1, JobsTyped, JobSet
  <1>3. work' \in Seq(JobStates) /\ Len(work') = Len(work)
    <2>1. \/ work' = work
          \/ \E st \in JobStates : work' = [work EXCEPT ![j] = st]
      BY DEF ExportStart, ExportStore, ExportPublish, ExportFails, ExportDies, Evict, SaveJob, JobStates
    <2> QED
      BY <2>1, JobsTyped, WorkSet
  <1>4. files' \subseteq DOMAIN jobs
    BY JobsTyped DEF ExportStart, ExportStore, ExportPublish, ExportFails, ExportDies, Evict, DropFile
  <1> QED
    BY <1>1, <1>2, <1>3, <1>4, FactorsTyped, JobsTyped, ExportsChange

LEMMA NightInv ==
  ASSUME IdInv, NightReads \/ DropSecrets \/ ListExports \/ NightDies
                \/ \E j \in DOMAIN jobs : PurgeExport(j)
  PROVE  IdInv' /\ FamsGrow
  <1>1. UNCHANGED <<user, fams, mails, failed, reqs, mix, misses, guesses, work>>
    BY DEF NightReads, DropSecrets, ListExports, NightDies, PurgeExport, vars, accountVars, factorVars
  <1>2. device' \in MFADevice /\ codes' \in BackupCode /\ codes'.unused \subseteq 1..codes'.made
    BY FactorsTyped DEF NightReads, DropSecrets, ListExports, NightDies, PurgeExport,
       vars, accountVars, factorVars, MFADevice, BackupCode
  <1>3. jobs' \in Seq(DataExportJob) /\ Len(jobs') = Len(jobs) /\ DOMAIN jobs' = DOMAIN jobs
    <2>1. \/ jobs' = jobs
          \/ \E j \in DOMAIN jobs : jobs' = [jobs EXCEPT ![j] = "gone"]
      BY DEF NightReads, DropSecrets, ListExports, NightDies, PurgeExport
    <2> QED
      BY <2>1, JobsTyped, JobSet DEF DataExportJob
  <1>4. files' \subseteq DOMAIN jobs /\ deaths' \in Nat
    BY JobsTyped DEF NightReads, DropSecrets, ListExports, NightDies, PurgeExport, DropFile
  <1>5. night' \in Night
    <2>1. CASE NightReads \/ DropSecrets
      BY <2>1, JobsTyped DEF NightReads, DropSecrets, NightGoto, Night
    <2>2. CASE ListExports
      BY <2>2, JobsTyped DEF ListExports, Night
    <2>3. CASE NightDies
      BY <2>3 DEF NightDies, Asleep, Night
    <2>4. ASSUME NEW j \in DOMAIN jobs, PurgeExport(j) PROVE night' \in Night
      BY <2>4, JobsTyped DEF PurgeExport, Night
    <2> QED
      BY <2>1, <2>2, <2>3, <2>4
  <1>6. night'.pc = "idle" \/ user.here
    BY DEF NightReads, DropSecrets, ListExports, NightDies, PurgeExport, NightAt, Asleep, IdInv, RowInv
  <1> QED
    BY <1>1, <1>2, <1>3, <1>4, <1>5, <1>6, JobsTyped, ExportsChange

LEMMA ScrubInv ==
  ASSUME IdInv, ScrubRow
  PROVE  IdInv' /\ FamsGrow
  <1>1. user' \in UserRow /\ user'.here
    BY FactorsTyped DEF ScrubRow, Scrub, UserRow, NightAt, IdInv, RowInv
  <1>2. night' \in Night
    BY DEF ScrubRow, Asleep, Night
  <1>3. IdTypes'
    BY <1>1, <1>2 DEF ScrubRow, IdInv, IdTypes, FactorTypeOK, factorVars
  <1> QED
    BY <1>1, <1>3, CalmStep, FamsStay DEF IdInv, IdTypes, ScrubRow, factorVars

LEMMA ExportRequestInv ==
  ASSUME IdInv, NEW r \in Reqs, ExportRequest(r)
  PROVE  IdInv' /\ FamsGrow
  <1>1. jobs' \in Seq(DataExportJob) /\ Len(jobs') = Len(jobs) + 1 /\ DOMAIN jobs \subseteq DOMAIN jobs'
    <2>1. "pending" \in DataExportJob /\ jobs' = Append(jobs, "pending")
      BY DEF DataExportJob, ExportRequest
    <2> QED
      BY <2>1, JobsTyped, Appended
  <1>2. work' \in Seq(JobStates) /\ Len(work') = Len(work) + 1
    <2>1. "queued" \in JobStates /\ work' = Append(work, "queued")
      BY DEF JobStates, ExportRequest
    <2> QED
      BY <2>1, JobsTyped, Appended
  <1>3. reqs' \in [Reqs -> Request] /\ Calm(reqs'[r]) /\ \A s \in Reqs : s # r => reqs'[s] = reqs[s]
    <2>1. Goto(r, "done") /\ "done" \in Pcs /\ reqs[r].pc = "export"
      BY DEF ExportRequest, At, Pcs
    <2> QED
      BY <2>1, Gone, FactorsTyped DEF IdInv, Calm, Mailed
  <1>4. IdTypes'
    BY <1>1, <1>2, <1>3, JobsTyped DEF ExportRequest, IdInv, IdTypes, FactorTypeOK, factorVars, JobStates
  <1>5. reqs[r].pc = "export"
    BY DEF ExportRequest, At
  <1> QED
    BY <1>3, <1>4, <1>5, CalmStep, FamsStay DEF IdInv, IdTypes, ExportRequest, factorVars

(* The account: sessions *)

LEMMA RevokedTyped ==
  ASSUME NEW x \in RefreshTokenFamily
  PROVE  /\ Revoked(x) \in RefreshTokenFamily /\ Revoked(x).st = "revoked"
         /\ x.st = "revoked" => Revoked(x) = x
         /\ x.st = "live" \/ x.st = "revoked"
  BY DEF Revoked, RefreshTokenFamily

LEMMA FamilySet ==
  ASSUME IdInv, NEW f, NEW x, fams' = [fams EXCEPT ![f] = x],
         f \in DOMAIN fams => x \in RefreshTokenFamily /\ (fams[f].st = "revoked" => x = fams[f])
  PROVE  /\ fams' \in Seq(RefreshTokenFamily) /\ FamsGrow
         /\ f \in DOMAIN fams => fams'[f] = x
  <1>1. fams \in Seq(RefreshTokenFamily)
    BY FactorsTyped
  <1>2. /\ fams' \in Seq(RefreshTokenFamily) /\ DOMAIN fams' = DOMAIN fams
        /\ \A j \in DOMAIN fams : fams'[j] = IF j = f THEN x ELSE fams[j]
    BY <1>1, Replaced
  <1> QED
    BY <1>2 DEF FamsGrow

\* Families change, requests go where nothing is owed.
LEMMA SessionsChange ==
  ASSUME IdInv, UNCHANGED <<user, mails, failed, mix, Factors, Exports>>,
         fams' \in Seq(RefreshTokenFamily), FamsGrow, reqs' = reqs \/ \E r \in Reqs : Moves(r)
  PROVE  IdInv'
  <1>1. /\ reqs' \in [Reqs -> Request]
        /\ \A s \in Reqs : \/ reqs'[s] = reqs[s]
                           \/ Calm(reqs'[s]) /\ reqs[s].pc \notin {"firstmiss", "miss"}
    <2>1. CASE reqs' = reqs
      BY <2>1, FactorsTyped
    <2>2. ASSUME NEW r \in Reqs, NEW q \in Request, reqs' = [reqs EXCEPT ![r] = q], Calm(q),
                 reqs[r].pc \notin {"firstmiss", "miss"}
          PROVE  /\ reqs' \in [Reqs -> Request]
                 /\ \A s \in Reqs : \/ reqs'[s] = reqs[s]
                                    \/ Calm(reqs'[s]) /\ reqs[s].pc \notin {"firstmiss", "miss"}
      BY <2>2, ReqGoes DEF IdInv
    <2> QED
      BY <2>1, <2>2 DEF Moves
  <1>2. IdTypes'
    BY <1>1 DEF IdInv, IdTypes, FactorTypeOK, Factors, Exports
  <1> QED
    BY <1>1, <1>2, CalmStep DEF IdInv, IdTypes, Factors, Exports

LEMMA RefreshedTyped ==
  ASSUME NEW x \in RefreshTokenFamily, NEW jti \in 1..MaxRot, x.st = "live",
         IsReuse(x, jti) \/ x.cur < MaxRot
  PROVE  RotateRefresh(x, jti) \in RefreshTokenFamily
  <1>0. MaxRot \in Nat /\ x.cur \in Nat
    BY AccountsAssumption DEF RefreshTokenFamily
  <1>1. CASE IsReuse(x, jti)
    BY <1>1, RevokedTyped DEF RotateRefresh
  <1>2. CASE ~IsReuse(x, jti)
    <2>1. PICK y : y = [x EXCEPT !.prev = x.cur, !.cur = x.cur + 1]
      OBVIOUS
    <2>2. x.cur \in 1..MaxRot /\ x.cur < MaxRot /\ x.cur \in 0..(MaxRot - 1) /\ x.cur + 1 \in 1..MaxRot
      BY <1>0, <1>2 DEF RefreshTokenFamily
    <2>3. y \in RefreshTokenFamily
      BY <2>1, <2>2 DEF RefreshTokenFamily
    <2> QED
      BY <1>2, <2>1, <2>3 DEF RotateRefresh, Rotated
  <1> QED
    BY <1>1, <1>2

LEMMA RotationInv ==
  ASSUME IdInv, NEW f \in DOMAIN fams, NEW jti \in 1..MaxRot, Refresh(f, jti), UNCHANGED <<factorVars, Exports>>
  PROVE  IdInv' /\ FamsGrow
  <1>1. fams[f] \in RefreshTokenFamily
    BY FactorsTyped, ElementsOf
  <1>2. PICK x : x = RotateRefresh(fams[f], jti)
    OBVIOUS
  <1>3. x \in RefreshTokenFamily
    BY <1>1, <1>2, RefreshedTyped DEF Refresh, MayRotate
  <1>4. fams' = [fams EXCEPT ![f] = x] /\ fams[f].st = "live"
    BY <1>2 DEF Refresh
  <1>5. fams' \in Seq(RefreshTokenFamily) /\ FamsGrow
    BY <1>3, <1>4, FamilySet
  <1> QED
    BY <1>5, SessionsChange DEF Refresh, factorVars, Factors, Exports

LEMMA RevokeOneInv ==
  ASSUME IdInv, NEW r \in Reqs, RevokeOne(r), UNCHANGED <<factorVars, Exports>>
  PROVE  IdInv' /\ FamsGrow
  <1>1. PICK f, x : f = reqs[r].ref /\ x = Revoked(fams[f])
    OBVIOUS
  <1>2. f \in DOMAIN fams => x \in RefreshTokenFamily /\ (fams[f].st = "revoked" => x = fams[f])
    BY <1>1, RevokedTyped, FactorsTyped, ElementsOf
  <1>3. fams' = [fams EXCEPT ![f] = x]
    BY <1>1 DEF RevokeOne
  <1>4. fams' \in Seq(RefreshTokenFamily) /\ FamsGrow
    BY <1>2, <1>3, FamilySet
  <1>5. Moves(r)
    BY CalmMove DEF RevokeOne, At, Pcs, Unwatched
  <1> QED
    BY <1>4, <1>5, SessionsChange DEF RevokeOne, factorVars, Factors, Exports

\* A request that goes on ending the sessions it owes: everything but SessInv of it
\* is framed.
LEMMA OwingStep ==
  ASSUME IdInv, NEW r \in Reqs, NEW q \in Request, reqs' = [reqs EXCEPT ![r] = q],
         fams' \in Seq(RefreshTokenFamily), FamsGrow, user' \in UserRow, failed' \in 0..failed,
         \/ user'.here
         \/ user'.here = user.here /\ user'.name = user.name /\ user'.pending = user.pending,
         reqs[r].pc \notin {"firstmiss", "miss"}, q.pc \in {"list", "loop", "issue", "done"},
         UNCHANGED <<mails, mix, Factors, Exports>>, Ends(r)'
  PROVE  IdInv'
  <1>1. reqs' \in [Reqs -> Request] /\ reqs'[r] = q /\ \A s \in Reqs : s # r => reqs'[s] = reqs[s]
    BY ReqGoes DEF IdInv
  <1>2. IdTypes'
    BY <1>1 DEF IdInv, IdTypes, FactorTypeOK, Factors, Exports
  <1>3. SessInv'
    <2> SUFFICES ASSUME NEW s \in Reqs PROVE Ends(s)'
      BY DEF SessInv
    <2>1. CASE s = r
      BY <2>1
    <2>2. CASE s # r
      <3>1. Ends(s) /\ reqs'[s] = reqs[s]
        BY <1>1, <2>2 DEF IdInv, SessInv
      <3> QED
        BY <3>1 DEF Ends, FamsGrow
    <2> QED
      BY <2>1, <2>2
  <1>4. LockInv'
    BY <1>1, <1>2, LockFrame DEF IdInv, IdTypes
  <1>5. GuessInv'
    BY <1>1, GuessFrame DEF IdInv, Factors
  <1>6. RowInv'
    <2>1. user.here => user'.here
      OBVIOUS
    <2>2. (mails # <<>> \/ user'.name = "anon" \/ user'.pending # "no" \/ night.pc # "idle") => user'.here
      BY DEF IdInv, RowInv
    <2>3. mails' = mails /\ night' = night /\ \A s \in Reqs : reqs'[s] = reqs[s] \/ reqs'[s].pc \notin Mailed
      BY <1>1 DEF Mailed, Exports
    <2> QED
      BY <1>2, <2>1, <2>2, <2>3, RowFrame DEF IdInv
  <1> QED
    BY <1>2, <1>3, <1>4, <1>5, <1>6 DEF IdInv

LEMMA IssuePairInv ==
  ASSUME IdInv, NEW r \in Reqs, IssuePair(r), UNCHANGED <<factorVars, Exports>>
  PROVE  IdInv' /\ FamsGrow
  <1>1. NewFamily \in RefreshTokenFamily
    BY AccountsAssumption DEF NewFamily, RefreshTokenFamily
  <1>2. fams' \in Seq(RefreshTokenFamily) /\ FamsGrow
    BY <1>1, FactorsTyped, Appended DEF IssuePair, FamsGrow
  <1>3. PICK q : q = [reqs[r] EXCEPT !.pc = "done"]
    OBVIOUS
  <1>4. q \in Request /\ q.pc = "done" /\ q.old = reqs[r].old
    BY <1>3, FactorsTyped DEF Request, Pcs
  <1>5. reqs' = [reqs EXCEPT ![r] = q] /\ reqs[r].pc = "issue"
    BY <1>3, FactorsTyped DEF IssuePair, Goto, At, Request
  <1>6. reqs'[r] = q
    BY <1>4, <1>5, ReqGoes DEF IdInv
  <1>7. Ends(r)
    BY DEF IdInv, SessInv
  <1>8. Ends(r)'
    BY <1>2, <1>4, <1>5, <1>6, <1>7 DEF Ends, FamsGrow
  <1>9. failed' \in 0..failed /\ user' \in UserRow
    BY FactorsTyped DEF IssuePair
  <1> QED
    BY <1>2, <1>4, <1>5, <1>8, <1>9, OwingStep DEF IssuePair, factorVars, Factors, Exports

\* The bulk revocations list what is live when the user row is saved.
LEMMA LiveKnown == IdInv => Live \subseteq DOMAIN fams /\ DOMAIN fams \in SUBSET Nat /\ 0 \notin DOMAIN fams
                            /\ \A f \in DOMAIN fams \ Live : fams[f].st = "revoked"
  <1> SUFFICES ASSUME IdInv PROVE Live \subseteq DOMAIN fams /\ DOMAIN fams \in SUBSET Nat /\ 0 \notin DOMAIN fams
                                  /\ \A f \in DOMAIN fams \ Live : fams[f].st = "revoked"
    OBVIOUS
  <1>1. DOMAIN fams = 1..Len(fams) /\ Len(fams) \in Nat /\ \A f \in DOMAIN fams : fams[f] \in RefreshTokenFamily
    BY FactorsTyped, ElementsOf
  <1> QED
    BY <1>1, RevokedTyped DEF Live

LEMMA ResetSaveInv ==
  ASSUME IdInv, NEW r \in Reqs, ResetSave(r), UNCHANGED <<factorVars, Exports>>
  PROVE  IdInv' /\ FamsGrow
  <1>1. PICK q : q = [reqs[r] EXCEPT !.pc = "list", !.ref = 0, !.me = NoUser, !.old = Live]
    OBVIOUS
  <1>2. q \in Request /\ q.pc = "list" /\ q.old = Live /\ q.ref = 0
    <2>1. Live \in SUBSET Nat /\ reqs[r] \in Request
      BY LiveKnown, FactorsTyped
    <2> QED
      BY <1>1, <2>1, IdleTyped DEF Request, Pcs
  <1>3. reqs' = [reqs EXCEPT ![r] = q] /\ reqs[r].pc = "reset"
    BY <1>1, FactorsTyped DEF ResetSave, At, Request
  <1>4. user' \in UserRow /\ user'.here
    BY FactorsTyped DEF ResetSave, At, Request, UserRow, IdInv, RowInv
  <1>5. reqs'[r] = q
    BY <1>2, <1>3, ReqGoes DEF IdInv
  <1>6. Ends(r)'
    BY <1>2, <1>5, LiveKnown DEF Ends, ResetSave
  <1>7. failed' \in 0..failed /\ fams' = fams
    BY DEF ResetSave, IdInv, IdTypes
  <1>8. FamsGrow
    BY <1>7, FamsStay
  <1>9. UNCHANGED <<mails, mix, Factors, Exports>>
    BY DEF ResetSave, factorVars, Factors, Exports
  <1> QED
    BY <1>2, <1>3, <1>4, <1>6, <1>7, <1>8, <1>9, FactorsTyped, OwingStep

LEMMA ChangeSaveInv ==
  ASSUME IdInv, NEW r \in Reqs, ChangeSave(r), UNCHANGED <<factorVars, Exports>>
  PROVE  IdInv' /\ FamsGrow
  <1>1. PICK q : q = [reqs[r] EXCEPT !.pc = "list", !.old = Live \ {reqs[r].ref}]
    OBVIOUS
  <1>2. q \in Request /\ q.pc = "list" /\ q.old = Live \ {reqs[r].ref} /\ q.ref = reqs[r].ref
    <2>1. Live \ {reqs[r].ref} \in SUBSET Nat /\ reqs[r] \in Request
      BY LiveKnown, FactorsTyped
    <2> QED
      BY <1>1, <2>1 DEF Request, Pcs
  <1>3. reqs' = [reqs EXCEPT ![r] = q] /\ reqs[r].pc = "change"
    BY <1>1, FactorsTyped DEF ChangeSave, At, Request
  <1>4. user' \in UserRow /\ user'.here = user.here /\ user'.name = user.name /\ user'.pending = user.pending
    BY FactorsTyped DEF ChangeSave, UserRow
  <1>5. reqs'[r] = q
    BY <1>2, <1>3, ReqGoes DEF IdInv
  <1>6. Ends(r)'
    BY <1>2, <1>5, LiveKnown DEF Ends, ChangeSave
  <1>7. failed' \in 0..failed /\ fams' = fams
    BY FactorsTyped DEF ChangeSave
  <1>8. FamsGrow
    BY <1>7, FamsStay
  <1>9. UNCHANGED <<mails, mix, Factors, Exports>>
    BY DEF ChangeSave, factorVars, Factors, Exports
  <1> QED
    BY <1>2, <1>3, <1>4, <1>6, <1>7, <1>8, <1>9, FactorsTyped, OwingStep

LEMMA DisabledInv ==
  ASSUME IdInv, NEW r \in Reqs, AdminSetActive(r, FALSE), UNCHANGED <<factorVars, Exports>>
  PROVE  IdInv' /\ FamsGrow
  <1>1. PICK q : q = [Idle EXCEPT !.op = "admin", !.pc = "list", !.old = Live]
    OBVIOUS
  <1>2. q \in Request /\ q.pc = "list" /\ q.old = Live /\ q.ref = 0
    <2>1. Live \in SUBSET Nat
      BY LiveKnown
    <2> QED
      BY <1>1, <2>1, IdleTyped DEF Idle, Request, Pcs, Ops
  <1>3. reqs' = [reqs EXCEPT ![r] = q] /\ reqs[r].pc = "idle"
    BY <1>1 DEF AdminSetActive, At
  <1>4. user' \in UserRow /\ user'.here
    BY FactorsTyped DEF AdminSetActive, UserRow
  <1>5. reqs'[r] = q
    BY <1>2, <1>3, ReqGoes DEF IdInv
  <1>6. Ends(r)'
    BY <1>2, <1>5, LiveKnown DEF Ends, AdminSetActive
  <1>7. failed' \in 0..failed /\ fams' = fams
    BY FactorsTyped DEF AdminSetActive
  <1>8. FamsGrow
    BY <1>7, FamsStay
  <1> QED
    BY <1>2, <1>3, <1>4, <1>6, <1>7, <1>8, FactorsTyped, OwingStep DEF AdminSetActive, factorVars, Factors, Exports

LEMMA RevokeListInv ==
  ASSUME IdInv, NEW r \in Reqs, RevokeList(r), UNCHANGED <<factorVars, Exports>>
  PROVE  IdInv' /\ FamsGrow
  <1>1. PICK q : q = [reqs[r] EXCEPT !.pc = "loop", !.todo = Others(reqs[r].ref)]
    OBVIOUS
  <1>2. q \in Request /\ q.pc = "loop" /\ q.old = reqs[r].old /\ q.todo = Live \ {reqs[r].ref}
    <2>1. Live \ {reqs[r].ref} \in SUBSET Nat /\ reqs[r] \in Request
      BY LiveKnown, FactorsTyped
    <2> QED
      BY <1>1, <2>1 DEF Request, Pcs, Others
  <1>3. reqs' = [reqs EXCEPT ![r] = q] /\ reqs[r].pc = "list"
    BY <1>1, FactorsTyped DEF RevokeList, At, Request
  <1>4. fams' = fams /\ failed' \in 0..failed
    BY FactorsTyped DEF RevokeList
  <1>5. reqs'[r] = q
    BY <1>2, <1>3, ReqGoes DEF IdInv
  <1>6. Ends(r)
    BY DEF IdInv, SessInv
  <1>7. Ends(r)'
    BY <1>2, <1>3, <1>4, <1>5, <1>6, LiveKnown DEF Ends
  <1>8. FamsGrow
    BY <1>4, FamsStay
  <1> QED
    BY <1>2, <1>3, <1>4, <1>7, <1>8, FactorsTyped, OwingStep DEF RevokeList, factorVars, Factors, Exports

LEMMA RevokeLoopInv ==
  ASSUME IdInv, NEW r \in Reqs, RevokeLoop(r), UNCHANGED <<factorVars, Exports>>
  PROVE  IdInv' /\ FamsGrow
  <1>0. Ends(r) /\ reqs[r].pc = "loop" /\ reqs[r] \in Request /\ failed' \in 0..failed /\ user' = user
    BY FactorsTyped DEF IdInv, SessInv, RevokeLoop, At
  <1>1. ASSUME NEW f \in reqs[r].todo, fams' = [fams EXCEPT ![f] = Revoked(@)],
               reqs' = [reqs EXCEPT ![r].todo = @ \ {f}]
        PROVE  IdInv' /\ FamsGrow
    <2>1. f \in DOMAIN fams /\ fams[f] \in RefreshTokenFamily
      BY <1>0, FactorsTyped, ElementsOf DEF Ends
    <2>2. PICK x : x = Revoked(fams[f])
      OBVIOUS
    <2>3. fams' \in Seq(RefreshTokenFamily) /\ FamsGrow /\ fams'[f] = x /\ x.st = "revoked"
      BY <1>1, <2>1, <2>2, RevokedTyped, FamilySet
    <2>4. PICK q : q = [reqs[r] EXCEPT !.todo = reqs[r].todo \ {f}]
      OBVIOUS
    <2>5. q \in Request /\ q.pc = "loop" /\ q.old = reqs[r].old /\ q.todo = reqs[r].todo \ {f}
      BY <1>0, <2>4 DEF Request
    <2>6. reqs' = [reqs EXCEPT ![r] = q]
      BY <1>1, <2>4
    <2>7. reqs'[r] = q
      BY <2>5, <2>6, ReqGoes DEF IdInv
    <2>8. Ends(r)'
      BY <1>0, <2>3, <2>5, <2>7 DEF Ends, FamsGrow
    <2> QED
      BY <1>0, <2>3, <2>5, <2>6, <2>8, FactorsTyped, OwingStep DEF RevokeLoop, factorVars, Factors, Exports
  <1>2. ASSUME NEW pc \in {"issue", "done"}, reqs[r].todo = {}, Goto(r, pc), UNCHANGED fams
        PROVE  IdInv' /\ FamsGrow
    <2>1. PICK q : q = [reqs[r] EXCEPT !.pc = pc]
      OBVIOUS
    <2>2. q \in Request /\ q.pc = pc /\ q.old = reqs[r].old
      BY <1>0, <2>1 DEF Request, Pcs
    <2>3. reqs' = [reqs EXCEPT ![r] = q]
      BY <1>2, <2>1 DEF Goto
    <2>4. reqs'[r] = q
      BY <2>2, <2>3, ReqGoes DEF IdInv
    <2>5. Ends(r)'
      BY <1>0, <1>2, <2>2, <2>4 DEF Ends
    <2>6. FamsGrow
      BY <1>2, FamsStay
    <2> QED
      BY <1>0, <1>2, <2>2, <2>3, <2>5, <2>6, FactorsTyped, OwingStep DEF RevokeLoop, factorVars, Factors, Exports
  <1> QED
    BY <1>1, <1>2 DEF RevokeLoop

(* The account: mailed tokens and guesses *)

LEMMA ConsumeReadInv ==
  ASSUME IdInv, NEW t \in DOMAIN mails, NEW r \in Reqs, ConsumeRead(r, t), UNCHANGED <<factorVars, Exports>>
  PROVE  IdInv' /\ FamsGrow
  <1>1. PICK u \in UserRow : u = IF mails[t].kind = "exchange" THEN user ELSE NoUser
    BY FactorsTyped, IdleTyped
  <1>2. PICK o \in Ops : o = OpOf[mails[t].kind]
    <2>1. mails[t].kind \in {"verify", "reset", "exchange"}
      BY DEF ConsumeRead, OpOf
    <2>2. OpOf["verify"] \in Ops /\ OpOf["reset"] \in Ops /\ OpOf["exchange"] \in Ops
      BY DEF OpOf, Ops
    <2> QED
      BY <2>1, <2>2
  <1>3. PICK q : q = [Idle EXCEPT !.op = o, !.pc = "consume", !.ref = t, !.me = u]
    OBVIOUS
  <1>4. q \in Request /\ q.pc = "consume" /\ q.old = {} /\ q.ref = t
    <2>1. t \in Nat
      BY FactorsTyped
    <2> QED
      BY <1>3, <2>1, IdleTyped DEF Idle, Request, Pcs
  <1>5. reqs' = [reqs EXCEPT ![r] = q] /\ reqs[r].pc = "idle"
    BY <1>1, <1>2, <1>3 DEF ConsumeRead
  <1>6. reqs' \in [Reqs -> Request] /\ reqs'[r] = q /\ \A s \in Reqs : s # r => reqs'[s] = reqs[s]
    BY <1>4, <1>5, ReqGoes DEF IdInv
  <1>7. UNCHANGED <<user, fams, mails, failed, mix, Factors, Exports>>
    BY DEF ConsumeRead, factorVars, Factors, Exports
  <1>8. IdTypes' /\ FamsGrow
    BY <1>6, <1>7, FamsStay DEF IdInv, IdTypes, FactorTypeOK, Factors, Exports
  <1>9. SessInv' /\ LockInv' /\ GuessInv'
    BY <1>4, <1>5, <1>6, <1>7, <1>8, SessFrame, LockFrame, GuessFrame DEF IdInv, IdTypes, Factors
  <1>10. RowInv'
    BY <1>4, <1>6, <1>7, FactorsTyped DEF IdInv, RowInv, Mailed, Exports
  <1> QED
    BY <1>8, <1>9, <1>10 DEF IdInv

LEMMA ConsumeSaveInv ==
  ASSUME IdInv, NEW r \in Reqs, ConsumeSave(r), UNCHANGED <<factorVars, Exports>>
  PROVE  IdInv' /\ FamsGrow
  <1>1. PICK t \in DOMAIN mails : t = reqs[r].ref
    BY DEF IdInv, RowInv, ConsumeSave, At
  <1>2. mails[t] \in Token /\ mails # <<>>
    BY FactorsTyped, ElementsOf
  <1>3. user.here
    BY <1>2 DEF IdInv, RowInv
  <1>4. PICK k, e : k = mails[t].kind /\ e = [mails[t] EXCEPT !.st = "used"]
    OBVIOUS
  <1>5. k \in {"verify", "reset", "exchange", "mfa"} /\ e \in Token
    BY <1>2, <1>4 DEF Token
  <1>6. mails' = [mails EXCEPT ![t] = e]
    BY <1>1, <1>4 DEF ConsumeSave
  <1>7. mails' \in Seq(Token) /\ DOMAIN mails' = DOMAIN mails
    BY <1>5, <1>6, TokenSet DEF IdInv
  <1>8. PICK u : u = IF k = "exchange" THEN reqs[r].me ELSE user
    OBVIOUS
  <1>9. u \in UserRow /\ (k = "reset" => u.here) /\ reqs[r] \in Request
    BY <1>3, <1>8, FactorsTyped DEF Request
  <1>10. PICK q : q = [reqs[r] EXCEPT !.pc = k, !.me = u]
    OBVIOUS
  <1>11. q \in Request /\ q.pc = k /\ q.me = u /\ q.old = reqs[r].old
    BY <1>5, <1>9, <1>10 DEF Request, Pcs
  <1>12. reqs' = [reqs EXCEPT ![r] = q] /\ reqs[r].pc = "consume"
    BY <1>1, <1>4, <1>8, <1>9, <1>10 DEF ConsumeSave, At, Request
  <1>13. reqs' \in [Reqs -> Request] /\ reqs'[r] = q /\ \A s \in Reqs : s # r => reqs'[s] = reqs[s]
    BY <1>11, <1>12, ReqGoes DEF IdInv
  <1>14. UNCHANGED <<user, fams, failed, mix, Factors, Exports>>
    BY DEF ConsumeSave, factorVars, Factors, Exports
  <1>15. IdTypes' /\ FamsGrow
    BY <1>7, <1>13, <1>14, FamsStay DEF IdInv, IdTypes, FactorTypeOK, Factors, Exports
  <1>16. q.old = {}
    BY <1>11, <1>12, FactorsTyped
  <1>17. SessInv' /\ LockInv' /\ GuessInv'
    BY <1>5, <1>11, <1>12, <1>13, <1>14, <1>15, <1>16, SessFrame, LockFrame, GuessFrame
       DEF IdInv, IdTypes, Factors
  <1>18. RowInv'
    <2>1. mails' # <<>>
      BY <1>2, <1>7, FactorsTyped
    <2> QED
      BY <1>3, <1>5, <1>7, <1>9, <1>11, <1>13, <1>14, <2>1 DEF IdInv, RowInv, Mailed, Exports
  <1> QED
    BY <1>15, <1>17, <1>18 DEF IdInv

-----------------------------------------------------------------------------
\* The gate is passed below the threshold, by no more requests than there are.
LEMMA LoginGateInv ==
  ASSUME IdInv, NEW r \in Reqs, LoginGate(r), UNCHANGED <<factorVars, Exports>>
  PROVE  IdInv' /\ FamsGrow
  <1>1. /\ reqs' \in [Reqs -> Request] /\ reqs[r].pc = "idle" /\ reqs'[r].pc = "auth" /\ reqs'[r].old = {}
        /\ \A s \in Reqs : s # r => reqs'[s] = reqs[s]
    <2>1. "login" \in Ops /\ "auth" \in Pcs /\ Begin(r, "login", "auth", 0)
      BY DEF LoginGate, Ops, Pcs
    <2> QED
      BY <2>1, Begun DEF IdInv
  <1>2. UNCHANGED <<user, fams, mails, failed, mix, Factors, Exports>> /\ failed < Threshold
    BY DEF LoginGate, factorVars, Factors, Exports
  <1>3. IdTypes' /\ FamsGrow
    BY <1>1, <1>2, FamsStay DEF IdInv, IdTypes, FactorTypeOK, Factors, Exports
  <1>4. LockInv'
    <2>1. PICK S : S = Checking'
      OBVIOUS
    <2>2. S \in SUBSET Reqs
      BY <2>1 DEF Checking
    <2>3. Cardinality(S) \in Nat /\ Cardinality(S) <= Cardinality(Reqs) /\ Cardinality(Reqs) \in Nat
      BY <2>2, Fewer
    <2>4. failed' < Threshold /\ failed' \in Nat /\ Threshold \in Nat
      BY <1>2, AccountsAssumption DEF IdInv, IdTypes
    <2> QED
      BY <2>1, <2>3, <2>4 DEF LockInv
  <1>5. SessInv'
    BY <1>1, <1>3, SessFrame DEF IdInv
  <1>6. GuessInv'
    BY <1>1, <1>2, GuessFrame DEF IdInv, Factors
  <1>7. RowInv'
    BY <1>1, <1>2, <1>3, RowFrame DEF IdInv, Mailed, Exports
  <1> QED
    BY <1>3, <1>4, <1>5, <1>6, <1>7 DEF IdInv

\* A failure is recorded by a request that was checking.
LEMMA LoginWrongInv ==
  ASSUME IdInv, NEW r \in Reqs, At(r, "auth"), failed' = failed + 1, Finish(r),
         UNCHANGED <<user, fams, mails, mix, Factors, Exports>>
  PROVE  IdInv' /\ FamsGrow
  <1>1. /\ reqs' \in [Reqs -> Request] /\ reqs[r].pc = "auth" /\ reqs'[r].pc = "idle" /\ reqs'[r].old = {}
        /\ \A s \in Reqs : s # r => reqs'[s] = reqs[s]
    BY Finished DEF At, IdInv
  <1>2. IdTypes' /\ FamsGrow
    BY <1>1, FamsStay DEF IdInv, IdTypes, FactorTypeOK, Factors, Exports
  <1>3. LockInv'
    <2>1. PICK S : S = Checking'
      OBVIOUS
    <2>2. S = Checking \ {r} /\ r \in Checking /\ Checking \in SUBSET Reqs
      BY <1>1, <2>1 DEF Checking
    <2>3. IsFiniteSet(Checking) /\ Cardinality(Checking) \in Nat
      BY <2>2, Fewer
    <2>4. Cardinality(S) = Cardinality(Checking) - 1
      BY <2>2, <2>3, FS_RemoveElement
    <2>5. Cardinality(Reqs) \in Nat /\ Threshold \in Nat /\ failed \in Nat
      BY <2>2, Fewer, AccountsAssumption DEF IdInv, IdTypes
    <2>6. failed' + Cardinality(S) <= Threshold + Cardinality(Reqs) - 1
      BY <2>3, <2>4, <2>5 DEF IdInv, LockInv
    <2> QED
      BY <2>1, <2>6 DEF LockInv
  <1>4. SessInv'
    BY <1>1, <1>2, SessFrame DEF IdInv
  <1>5. GuessInv'
    BY <1>1, GuessFrame DEF IdInv, Factors
  <1>6. RowInv'
    BY <1>1, <1>2, RowFrame DEF IdInv, Mailed, Exports
  <1> QED
    BY <1>2, <1>3, <1>4, <1>5, <1>6 DEF IdInv

(* The arithmetic of the counter *)

LEMMA CeilingFalls ==
  ASSUME NEW f \in Nat, f < Cardinality(Reqs)
  PROVE  LET n == Cardinality(Reqs)
         IN  /\ Ceiling(f) \in Int /\ n \in Nat /\ MaxMisses \in Nat \ {0}
             /\ Ceiling(f) >= 2 * n
             /\ Ceiling(f - 1) = Ceiling(f) + 2 * (MaxMisses - 2 + n - f)
             /\ Ceiling(f) + 2 * (MaxMisses - 2 + n - f) <= n * (2 * MaxMisses + n - 1)
  <1>0. PICK n, M : n = Cardinality(Reqs) /\ M = MaxMisses
    OBVIOUS
  <1>1. n \in Nat \ {0} /\ M \in Nat \ {0} /\ f < n
    BY <1>0, Fewer, SecondFactorAssumption
  <1>2. PICK k \in Nat : k = n - f - 1
    BY <1>1
  <1>3. f = n - k - 1
    BY <1>1, <1>2
  <1>4. Ceiling(f) = 2 * n + 2 * k * (M - 2) + (k + 1) * k
    BY <1>0, <1>1, <1>2 DEF Ceiling
  <1>5. Ceiling(f - 1) = 2 * n + 2 * (k + 1) * (M - 2) + (k + 2) * (k + 1)
    BY <1>0, <1>1, <1>2 DEF Ceiling
  <1>6. k * (2 * M + k - 3) >= 0
    <2>1. CASE k = 0
      BY <1>1, <2>1
    <2>2. CASE k # 0
      <3>1. 2 * M + k - 3 \in Nat
        BY <1>1, <2>2
      <3> QED
        BY <3>1
    <2> QED
      BY <2>1, <2>2
  <1>7. Ceiling(f) >= 2 * n
    BY <1>1, <1>4, <1>6
  <1>8. Ceiling(f - 1) = Ceiling(f) + 2 * (M - 2 + n - f)
    BY <1>1, <1>2, <1>3, <1>4, <1>5
  <1>9. f * (2 * M + 2 * n - f - 3) >= 0
    <2>1. CASE f = 0
      BY <1>1, <2>1
    <2>2. CASE f # 0
      <3>1. 2 * M + 2 * n - f - 3 \in Nat
        BY <1>1, <2>2
      <3> QED
        BY <3>1
    <2> QED
      BY <2>1, <2>2
  <1>10. Ceiling(f) + 2 * (M - 2 + n - f) <= n * (2 * M + n - 1)
    BY <1>1, <1>3, <1>4, <1>9
  <1>11. Ceiling(f) \in Int
    BY <1>1, <1>4
  <1> QED
    BY <1>0, <1>1, <1>7, <1>8, <1>10, <1>11

\* Some codes in flight, f + x of them misses.
Classes(f, x, z) == /\ f \in Nat /\ x \in Nat /\ z \in Nat
                    /\ f + x <= z /\ z <= Cardinality(Reqs)

LEMMA Constants == Cardinality(Reqs) \in Nat \ {0} /\ MaxMisses \in Nat \ {0}
  <1>1. {} \in SUBSET Reqs
    OBVIOUS
  <1> QED
    BY <1>1, Fewer, SecondFactorAssumption

LEMMA FitsReset ==
  ASSUME NEW f, NEW x, NEW z, Classes(f, x, z)
  PROVE  Fits(0, 0, f, x, z)
  BY Constants DEF Classes, Fits

\* The gate of the counter lets one more through.
LEMMA FitsPass ==
  ASSUME NEW m \in Nat, NEW g \in Nat, NEW f, NEW x, NEW z, NEW y \in Nat,
         Classes(f, x, z), Fits(m, g, f, x, z), m < MaxMisses \/ y <= z, y <= Cardinality(Reqs)
  PROVE  Fits(m, g, f, x, y)
  BY Constants DEF Classes, Fits

LEMMA FitsFirstGuess ==
  ASSUME NEW g \in Nat, NEW f, NEW x, NEW z, Classes(f, x, z), Fits(0, g, f, x, z)
  PROVE  Fits(0, g + 1, f + 1, x, z)
  BY Constants DEF Classes, Fits

LEMMA FitsLaterGuess ==
  ASSUME NEW m \in Nat \ {0}, NEW g \in Nat, NEW f, NEW x, NEW z, Classes(f, x, z), Fits(m, g, f, x, z)
  PROVE  Fits(m, g + 1, f, x + 1, z)
  <1>1. f < Cardinality(Reqs) /\ f \in Nat /\ x \in Nat
    BY DEF Fits, Classes
  <1>2. Ceiling(f) \in Int
    BY <1>1, CeilingFalls
  <1> QED
    BY <1>1, <1>2, Constants DEF Classes, Fits

\* A first miss is counted: it sets the counter to 1, whatever it was.
LEMMA FitsFirst ==
  ASSUME NEW m \in Nat, NEW g \in Nat, NEW f, NEW x, NEW z, Classes(f, x, z), f # 0, Fits(m, g, f, x, z)
  PROVE  Fits(1, g, f - 1, x, z - 1)
  <1>0. PICK n, M : n = Cardinality(Reqs) /\ M = MaxMisses
    OBVIOUS
  <1>1. n \in Nat \ {0} /\ M \in Nat \ {0} /\ f \in Nat /\ x \in Nat /\ z \in Nat /\ f + x <= z /\ z <= n
    BY <1>0, Constants DEF Classes
  <1>2. f - 1 \in Nat /\ f - 1 < n
    BY <1>1
  <1>3. Ceiling(f - 1) \in Int /\ Ceiling(f - 1) >= 2 * n
    BY <1>0, <1>2, CeilingFalls
  <1>4. 2 * g <= Ceiling(f - 1) + 2 * x
    <2>1. CASE m = 0
      <3>1. g <= n
        BY <1>1, <2>1 DEF Fits
      <3> QED
        BY <1>1, <1>3, <3>1
    <2>2. CASE m # 0
      <3>1. f < n /\ 2 * g <= Ceiling(f) + 2 * (m - 1) + 2 * x /\ m + z <= M - 1 + n
        BY <1>0, <1>1, <2>2 DEF Fits
      <3>2. Ceiling(f - 1) = Ceiling(f) + 2 * (M - 2 + n - f) /\ Ceiling(f) \in Int
        BY <1>0, <1>1, <3>1, CeilingFalls
      <3>3. m - 1 <= M - 2 + n - f
        BY <1>1, <3>1
      <3> QED
        BY <1>1, <3>1, <3>2, <3>3
    <2> QED
      BY <2>1, <2>2
  <1>5. 1 + (z - 1) <= M - 1 + n
    BY <1>1
  <1> QED
    BY <1>0, <1>1, <1>2, <1>3, <1>4, <1>5 DEF Fits

\* A later one adds to it, or makes it 1 where it had gone.
LEMMA FitsLater ==
  ASSUME NEW m \in Nat, NEW g \in Nat, NEW f, NEW x, NEW z, Classes(f, x, z), x # 0, Fits(m, g, f, x, z)
  PROVE  Fits(m + 1, g, f, x - 1, z - 1)
  <1>0. PICK n, M : n = Cardinality(Reqs) /\ M = MaxMisses
    OBVIOUS
  <1>1. n \in Nat \ {0} /\ M \in Nat \ {0} /\ f \in Nat /\ x \in Nat /\ z \in Nat /\ f + x <= z /\ z <= n
    BY <1>0, Constants DEF Classes
  <1>2. f < n
    BY <1>1
  <1>3. Ceiling(f) \in Int /\ Ceiling(f) >= 2 * n
    BY <1>0, <1>1, <1>2, CeilingFalls
  <1>4. 2 * g <= Ceiling(f) + 2 * m + 2 * (x - 1)
    <2>1. CASE m = 0
      <3>1. g <= f
        BY <2>1 DEF Fits
      <3> QED
        BY <1>1, <1>2, <1>3, <2>1, <3>1
    <2>2. CASE m # 0
      BY <1>1, <1>3, <2>2 DEF Fits
    <2> QED
      BY <2>1, <2>2
  <1>5. (m + 1) + (z - 1) <= M - 1 + n
    BY <1>0, <1>1 DEF Fits
  <1> QED
    BY <1>0, <1>1, <1>2, <1>3, <1>4, <1>5 DEF Fits

LEMMA FitsBound ==
  ASSUME NEW m \in Nat, NEW g \in Nat, NEW f, NEW x, NEW z, Classes(f, x, z), Fits(m, g, f, x, z)
  PROVE  2 * g <= Cardinality(Reqs) * (2 * MaxMisses + Cardinality(Reqs) - 1)
  <1>0. PICK n, M : n = Cardinality(Reqs) /\ M = MaxMisses
    OBVIOUS
  <1>1. n \in Nat \ {0} /\ M \in Nat \ {0} /\ f \in Nat /\ x \in Nat /\ z \in Nat /\ f + x <= z /\ z <= n
    BY <1>0, Constants DEF Classes
  <1>2. CASE m = 0
    <2>1. g <= n
      BY <1>1, <1>2 DEF Fits
    <2>2. n * (2 * M + n - 3) >= 0
      BY <1>1
    <2> QED
      BY <1>0, <1>1, <2>1, <2>2
  <1>3. CASE m # 0
    <2>1. f < n /\ 2 * g <= Ceiling(f) + 2 * (m - 1) + 2 * x /\ m + z <= M - 1 + n
      BY <1>0, <1>1, <1>3 DEF Fits
    <2>2. Ceiling(f) \in Int /\ Ceiling(f) + 2 * (M - 2 + n - f) <= n * (2 * M + n - 1)
      BY <1>0, <1>1, <2>1, CeilingFalls
    <2>3. (m - 1) + x <= M - 2 + n - f
      BY <1>1, <2>1
    <2> QED
      BY <1>0, <1>1, <2>1, <2>2, <2>3
  <1> QED
    BY <1>2, <1>3

(* The counter and the requests *)

LEMMA ClassesKnown ==
  ASSUME NEW Z \in SUBSET Reqs, NEW F \in SUBSET Z, NEW X \in SUBSET Z, F \intersect X = {}
  PROVE  Classes(Cardinality(F), Cardinality(X), Cardinality(Z))
  <1>1. IsFiniteSet(F) /\ IsFiniteSet(X) /\ Cardinality(F) \in Nat /\ Cardinality(X) \in Nat
        /\ Cardinality(Z) \in Nat /\ Cardinality(Z) <= Cardinality(Reqs)
    BY Fewer
  <1>2. Cardinality(F \union X) = Cardinality(F) + Cardinality(X) - Cardinality(F \intersect X)
    BY <1>1, FS_Union
  <1>3. Cardinality(F \intersect X) = 0
    BY FS_EmptySet
  <1>4. F \union X \in SUBSET Z
    OBVIOUS
  <1>5. Cardinality(F \union X) <= Cardinality(Z)
    BY <1>4, Fewer
  <1> QED
    BY <1>1, <1>2, <1>3, <1>5 DEF Classes

LEMMA PathClasses ==
  ASSUME NEW p \in Paths
  PROVE  Classes(Cardinality(Firsts(p)), Cardinality(Laters(p)), Cardinality(Passing(p)))
  <1>1. /\ Passing(p) \in SUBSET Reqs /\ Firsts(p) \in SUBSET Passing(p) /\ Laters(p) \in SUBSET Passing(p)
        /\ Firsts(p) \intersect Laters(p) = {}
    BY DEF Passing, Firsts, Laters, On
  <1> QED
    BY <1>1, ClassesKnown

\* One request moves: it stays on its side of a class, leaves it or enters it.
Mine(r, p, S) == reqs[r].pc \in S /\ PathOf(r) = p

LEMMA Elsewhere ==
  ASSUME NEW CONSTANT r \in Reqs, NEW CONSTANT p, NEW CONSTANT S,
         \A s \in Reqs : s # r => reqs'[s] = reqs[s]
  PROVE  /\ \A s \in Reqs : s # r => (s \in On(p, S)' <=> s \in On(p, S))
         /\ (r \in On(p, S) <=> Mine(r, p, S)) /\ (r \in On(p, S)' <=> Mine(r, p, S)')
         /\ On(p, S)' \in SUBSET Reqs /\ On(p, S) \in SUBSET Reqs
  BY DEF On, PathOf, Mine

LEMMA ClassKept ==
  ASSUME NEW CONSTANT r \in Reqs, NEW CONSTANT p, NEW CONSTANT S,
         \A s \in Reqs : s # r => reqs'[s] = reqs[s], Mine(r, p, S) <=> Mine(r, p, S)'
  PROVE  On(p, S)' = On(p, S)
  <1>1. PICK T, U : T = On(p, S) /\ U = On(p, S)'
    OBVIOUS
  <1>2. U = T
    BY <1>1, Elsewhere
  <1> QED
    BY <1>1, <1>2

LEMMA ClassLeft ==
  ASSUME NEW CONSTANT r \in Reqs, NEW CONSTANT p, NEW CONSTANT S,
         \A s \in Reqs : s # r => reqs'[s] = reqs[s], Mine(r, p, S), ~Mine(r, p, S)'
  PROVE  Cardinality(On(p, S)') = Cardinality(On(p, S)) - 1 /\ Cardinality(On(p, S)) # 0
  <1>1. PICK T, U : T = On(p, S) /\ U = On(p, S)'
    OBVIOUS
  <1>2. U = T \ {r} /\ r \in T /\ T \in SUBSET Reqs /\ U \in SUBSET Reqs
    BY <1>1, Elsewhere
  <1>3. IsFiniteSet(T) /\ Cardinality(T) \in Nat /\ Cardinality(U) \in Nat
    BY <1>2, Fewer
  <1>4. Cardinality(U) = Cardinality(T) - 1
    BY <1>2, <1>3, FS_RemoveElement
  <1>5. Cardinality(T) # 0
    BY <1>3, <1>4
  <1> QED
    BY <1>1, <1>4, <1>5

LEMMA ClassEntered ==
  ASSUME NEW CONSTANT r \in Reqs, NEW CONSTANT p, NEW CONSTANT S,
         \A s \in Reqs : s # r => reqs'[s] = reqs[s], ~Mine(r, p, S), Mine(r, p, S)'
  PROVE  Cardinality(On(p, S)') = Cardinality(On(p, S)) + 1
  <1>1. PICK T, U : T = On(p, S) /\ U = On(p, S)'
    OBVIOUS
  <1>2. U = T \union {r} /\ r \notin T /\ T \in SUBSET Reqs
    BY <1>1, Elsewhere
  <1>3. IsFiniteSet(T)
    BY <1>2, Fewer
  <1>4. Cardinality(U) = Cardinality(T) + 1
    BY <1>2, <1>3, FS_AddElement
  <1> QED
    BY <1>1, <1>4

\* A path whose classes and counters do not change.
LEMMA PathKept ==
  ASSUME IdInv, NEW CONSTANT r \in Reqs, NEW CONSTANT p \in Paths,
         \A s \in Reqs : s # r => reqs'[s] = reqs[s],
         \A S \in {{"firstmiss"}, {"miss"}, {"judge", "firstmiss", "miss"}} : ~Mine(r, p, S) /\ ~Mine(r, p, S)',
         misses'[p] = misses[p], guesses'[p] = guesses[p]
  PROVE  Counted(p)'
  <1>1. \A S \in {{"firstmiss"}, {"miss"}, {"judge", "firstmiss", "miss"}} : On(p, S)' = On(p, S)
    BY ClassKept
  <1>2. Counted(p)
    BY DEF IdInv, GuessInv
  <1> QED
    BY <1>1, <1>2 DEF Counted, Firsts, Laters, Passing, Fits, Ceiling

\* What a move does to the classes of its path.
LEMMA PassingEntered ==
  ASSUME NEW CONSTANT r \in Reqs, NEW CONSTANT p \in Paths,
         \A s \in Reqs : s # r => reqs'[s] = reqs[s], PathOf(r)' = p,
         reqs[r].pc \notin {"judge", "firstmiss", "miss"}, reqs'[r].pc = "judge"
  PROVE  Firsts(p)' = Firsts(p) /\ Laters(p)' = Laters(p)
  <1>1. On(p, {"firstmiss"})' = On(p, {"firstmiss"}) /\ On(p, {"miss"})' = On(p, {"miss"})
    <2>1. \A S \in {{"firstmiss"}, {"miss"}} : Mine(r, p, S) <=> Mine(r, p, S)'
      BY DEF Mine
    <2> QED
      BY <2>1, ClassKept
  <1> QED
    BY <1>1 DEF Firsts, Laters

(* The account: the checks of a second factor *)

\* A check moves on: beside the counters only the misses of its challenge change.
LEMMA CheckStep ==
  ASSUME IdInv, NEW r \in Reqs, reqs' \in [Reqs -> Request], \A s \in Reqs : s # r => reqs'[s] = reqs[s],
         reqs'[r].old = {}, reqs'[r].pc \notin {"auth", "loop"} \union Mailed,
         UNCHANGED <<user, fams, failed, mix, device, codes, Exports>>,
         mails' \in Seq(Token), DOMAIN mails' = DOMAIN mails,
         misses' \in [Paths -> Nat], guesses' \in [Paths -> Nat], GuessInv'
  PROVE  IdInv' /\ FamsGrow
  <1>1. IdTypes' /\ FamsGrow
    BY FamsStay DEF IdInv, IdTypes, FactorTypeOK, Exports
  <1>2. SessInv'
    BY <1>1, SessFrame DEF IdInv
  <1>3. LockInv'
    <2>1. failed' <= failed
      BY DEF IdInv, IdTypes
    <2>2. \A s \in Reqs : reqs'[s].pc = "auth" => reqs[s].pc = "auth"
      OBVIOUS
    <2> QED
      BY <1>1, <2>1, <2>2, LockFrame DEF IdInv
  <1>4. RowInv'
    <2>1. mails' # <<>> => mails # <<>>
      BY FactorsTyped
    <2>2. (mails' # <<>> \/ user.name = "anon" \/ user.pending # "no" \/ night.pc # "idle") => user.here
      BY <2>1 DEF IdInv, RowInv
    <2> QED
      BY <1>1, <2>2, RowFrame DEF IdInv, Exports
  <1> QED
    BY <1>1, <1>2, <1>3, <1>4 DEF IdInv

LEMMA CountersTyped ==
  ASSUME IdInv, NEW p \in Paths
  PROVE  /\ misses \in [Paths -> Nat] /\ guesses \in [Paths -> Nat]
         /\ misses[p] \in Nat /\ guesses[p] \in Nat /\ Counted(p)
  BY DEF IdInv, IdTypes, FactorTypeOK, GuessInv

LEMMA PathIsPath == ASSUME NEW r PROVE PathOf(r) \in Paths
  BY DEF PathOf, Paths

\* A code passes the counter.
LEMMA ThroughInv ==
  ASSUME IdInv, NEW CONSTANT r \in Reqs, NEW CONSTANT op \in {"mfa", "stepup"}, NEW CONSTANT p \in Paths, NEW ref \in Nat,
         Begin(r, op, "judge", ref), p = IF op = "mfa" THEN "login" ELSE "stepup", misses[p] < MaxMisses,
         UNCHANGED <<user, fams, mails, failed, mix, Factors, Exports>>
  PROVE  IdInv' /\ FamsGrow
  <1>1. /\ reqs' \in [Reqs -> Request] /\ reqs[r].pc = "idle" /\ reqs'[r].pc = "judge" /\ reqs'[r].old = {}
        /\ reqs'[r].op = op /\ \A s \in Reqs : s # r => reqs'[s] = reqs[s]
    <2>1. op \in Ops /\ "judge" \in Pcs
      BY DEF Ops, Pcs
    <2> QED
      BY <2>1, Begun DEF IdInv
  <1>2. PathOf(r)' = p /\ UNCHANGED <<misses, guesses>>
    BY <1>1 DEF PathOf, Factors
  <1>3. GuessInv'
    <2> SUFFICES ASSUME NEW CONSTANT w \in Paths PROVE Counted(w)'
      BY DEF GuessInv
    <2>1. CASE w = p
      <3>1. Firsts(p)' = Firsts(p) /\ Laters(p)' = Laters(p)
        BY <1>1, <1>2, PassingEntered
      <3>2. PICK Z : Z = Passing(p)'
        OBVIOUS
      <3>3. Z \in SUBSET Reqs
        BY <3>2 DEF Passing, On
      <3>4. Cardinality(Z) \in Nat /\ Cardinality(Z) <= Cardinality(Reqs)
        BY <3>3, Fewer
      <3>5. PICK m \in Nat, g \in Nat, f \in Nat, x \in Nat, z \in Nat :
             /\ m = misses[p] /\ g = guesses[p] /\ f = Cardinality(Firsts(p))
             /\ x = Cardinality(Laters(p)) /\ z = Cardinality(Passing(p))
        BY CountersTyped, PathClasses DEF Classes
      <3>6. Classes(f, x, z) /\ Fits(m, g, f, x, z)
        BY <3>5, PathClasses, CountersTyped DEF Counted
      <3>7. Fits(m, g, f, x, Cardinality(Z))
        BY <3>4, <3>5, <3>6, FitsPass
      <3>8. Counted(p)'
        BY <1>2, <3>1, <3>2, <3>5, <3>7 DEF Counted, Fits, Ceiling
      <3> QED
        BY <2>1, <3>8
    <2>2. CASE w # p
      <3>1. \A S \in {{"firstmiss"}, {"miss"}, {"judge", "firstmiss", "miss"}} : ~Mine(r, w, S) /\ ~Mine(r, w, S)'
        BY <1>1, <1>2, <2>2 DEF Mine
      <3> QED
        BY <1>1, <1>2, <3>1, PathKept
    <2> QED
      BY <2>1, <2>2
  <1> QED
    BY <1>1, <1>3, FactorsTyped, CountersTyped, CheckStep DEF Mailed, Factors, IdInv, IdTypes, FactorTypeOK

LEMMA CheckOpensInv ==
  ASSUME IdInv, NEW r \in Reqs, StepUp(r) \/ \E t \in DOMAIN mails : MFAVerify(r, t), UNCHANGED Exports
  PROVE  IdInv' /\ FamsGrow
  <1>1. CASE StepUp(r)
    <2>1. Begin(r, "stepup", "judge", 0) /\ misses["stepup"] < MaxMisses /\ "stepup" \in Paths
      BY <1>1 DEF StepUp, Paths
    <2>2. UNCHANGED <<user, fams, mails, failed, mix, Factors, Exports>>
      BY <1>1 DEF StepUp, factorVars, Factors
    <2> QED
      BY <2>1, <2>2, ThroughInv
  <1>2. ASSUME NEW t \in DOMAIN mails, MFAVerify(r, t) PROVE IdInv' /\ FamsGrow
    <2>1. Begin(r, "mfa", "judge", t) /\ misses["login"] < MaxMisses /\ "login" \in Paths
      BY <1>2 DEF MFAVerify, Paths
    <2>2. UNCHANGED <<user, fams, mails, failed, mix, Factors, Exports>> /\ t \in Nat
      BY <1>2, FactorsTyped DEF MFAVerify, factorVars, Factors
    <2> QED
      BY <2>1, <2>2, ThroughInv
  <1> QED
    BY <1>1, <1>2

\* The counter of p, and the request about it, change; the other path is left alone.
LEMMA OnePath ==
  ASSUME IdInv, NEW CONSTANT r \in Reqs, NEW CONSTANT p \in Paths, p = PathOf(r), Counted(p)',
         reqs[r].pc \in {"judge", "firstmiss", "miss", "right"}, PathOf(r)' = p \/ reqs'[r].pc = "idle",
         reqs' \in [Reqs -> Request], \A s \in Reqs : s # r => reqs'[s] = reqs[s],
         reqs'[r].old = {}, reqs'[r].pc \notin {"auth", "loop"} \union Mailed,
         UNCHANGED <<user, fams, failed, mix, device, codes, Exports>>,
         mails' \in Seq(Token), DOMAIN mails' = DOMAIN mails,
         misses' \in [Paths -> Nat], guesses' \in [Paths -> Nat],
         \A w \in Paths : w # p => misses'[w] = misses[w] /\ guesses'[w] = guesses[w]
  PROVE  IdInv' /\ FamsGrow
  <1>1. GuessInv'
    <2> SUFFICES ASSUME NEW CONSTANT w \in Paths PROVE Counted(w)'
      BY DEF GuessInv
    <2>1. CASE w = p
      BY <2>1
    <2>2. CASE w # p
      <3>1. \A S \in {{"firstmiss"}, {"miss"}, {"judge", "firstmiss", "miss"}} : ~Mine(r, w, S) /\ ~Mine(r, w, S)'
        BY <2>2 DEF Mine
      <3> QED
        BY <2>2, <3>1, PathKept
    <2> QED
      BY <2>1, <2>2
  <1> QED
    BY <1>1, CheckStep

\* A code is judged: right, a backup code, or one guess more.
LEMMA JudgeInv ==
  ASSUME IdInv, NEW CONSTANT r \in Reqs, Judge(r), UNCHANGED Exports
  PROVE  IdInv' /\ FamsGrow
  <1>1. reqs[r].pc = "judge" /\ UNCHANGED <<user, fams, mails, failed, device, mix, codes, misses>>
    BY DEF Judge, At
  <1>2. CASE guesses' = guesses /\ (Finish(r) \/ Goto(r, "right"))
    <2>1. Moves(r)
      BY <1>1, <1>2, CalmMove DEF Pcs, Unwatched
    <2>2. UNCHANGED <<fams, misses, guesses, mix, jobs, work, files, night, deaths>>
      BY <1>1, <1>2 DEF Exports
    <2> QED
      BY <1>1, <2>1, <2>2, FactorsTyped, RowsChange DEF Moves
  <1>3. ASSUME NEW c \in codes.unused, reqs' = [reqs EXCEPT ![r].pc = "spend", ![r].todo = {c}], guesses' = guesses
        PROVE  IdInv' /\ FamsGrow
    <2>1. PICK q : q = [reqs[r] EXCEPT !.pc = "spend", !.todo = {c}]
      OBVIOUS
    <2>2. q \in Request /\ q.pc = "spend" /\ q.old = {}
      <3>1. reqs[r] \in Request /\ reqs[r].old = {} /\ {c} \in SUBSET Nat
        BY <1>1, FactorsTyped DEF BackupCode
      <3> QED
        BY <2>1, <3>1 DEF Request, Pcs
    <2>3. reqs' = [reqs EXCEPT ![r] = q]
      BY <1>3, <2>1, FactorsTyped DEF Request
    <2>4. UNCHANGED <<fams, misses, guesses, mix, jobs, work, files, night, deaths>>
      BY <1>1, <1>3 DEF Exports
    <2> QED
      BY <1>1, <2>2, <2>3, <2>4, FactorsTyped, RowsChange DEF Calm, Mailed
  <1>4. ASSUME NEW CONSTANT p \in Paths, p = PathOf(r), guesses' = [guesses EXCEPT ![p] = @ + 1],
               Goto(r, IF misses[p] = 0 THEN "firstmiss" ELSE "miss")
        PROVE  IdInv' /\ FamsGrow
    <2>1. PICK pc \in {"firstmiss", "miss"} : pc = IF misses[p] = 0 THEN "firstmiss" ELSE "miss"
      OBVIOUS
    <2>2. /\ reqs' \in [Reqs -> Request] /\ reqs'[r].pc = pc /\ reqs'[r].old = {} /\ PathOf(r)' = p
          /\ \A s \in Reqs : s # r => reqs'[s] = reqs[s]
      <3>1. Goto(r, pc) /\ pc \in Pcs
        BY <1>4, <2>1 DEF Pcs
      <3>2. reqs[r].old = {}
        BY <1>1, FactorsTyped
      <3> QED
        BY <1>4, <3>1, <3>2, Gone DEF IdInv, PathOf
    <2>3. guesses' \in [Paths -> Nat] /\ guesses'[p] = guesses[p] + 1 /\ \A w \in Paths : w # p => guesses'[w] = guesses[w]
      BY <1>4, CountersTyped
    <2>4. PICK m \in Nat, g \in Nat, f \in Nat, x \in Nat, z \in Nat :
           /\ m = misses[p] /\ g = guesses[p] /\ f = Cardinality(Firsts(p))
           /\ x = Cardinality(Laters(p)) /\ z = Cardinality(Passing(p))
      BY CountersTyped, PathClasses DEF Classes
    <2>5. Classes(f, x, z) /\ Fits(m, g, f, x, z)
      BY <2>4, PathClasses, CountersTyped DEF Counted
    <2>6. Passing(p)' = Passing(p)
      <3>1. Mine(r, p, {"judge", "firstmiss", "miss"}) <=> Mine(r, p, {"judge", "firstmiss", "miss"})'
        BY <1>1, <1>4, <2>1, <2>2 DEF Mine
      <3> QED
        BY <2>2, <3>1, ClassKept DEF Passing
    <2>9. reqs'[r].pc \notin {"auth", "loop"} \union Mailed /\ UNCHANGED Exports
      BY <2>1, <2>2 DEF Mailed
    <2>7. CASE m = 0
      <3>1. Cardinality(Firsts(p)') = f + 1
        <4>1. ~Mine(r, p, {"firstmiss"}) /\ Mine(r, p, {"firstmiss"})'
          BY <1>1, <2>1, <2>2, <2>4, <2>7 DEF Mine
        <4> QED
          BY <2>2, <2>4, <4>1, ClassEntered DEF Firsts
      <3>2. Laters(p)' = Laters(p)
        <4>1. Mine(r, p, {"miss"}) <=> Mine(r, p, {"miss"})'
          BY <1>1, <2>1, <2>2, <2>4, <2>7 DEF Mine
        <4> QED
          BY <2>2, <4>1, ClassKept DEF Laters
      <3>3. Fits(0, g + 1, f + 1, x, z)
        BY <2>5, <2>7, FitsFirstGuess
      <3>4. Counted(p)'
        BY <1>1, <2>3, <2>4, <2>6, <2>7, <3>1, <3>2, <3>3 DEF Counted, Fits, Ceiling
      <3> QED
        BY <1>1, <1>4, <2>1, <2>2, <2>3, <2>9, <3>4, FactorsTyped, CountersTyped, OnePath
    <2>8. CASE m # 0
      <3>1. Cardinality(Laters(p)') = x + 1
        <4>1. ~Mine(r, p, {"miss"}) /\ Mine(r, p, {"miss"})'
          BY <1>1, <2>1, <2>2, <2>4, <2>8 DEF Mine
        <4> QED
          BY <2>2, <2>4, <4>1, ClassEntered DEF Laters
      <3>2. Firsts(p)' = Firsts(p)
        <4>1. Mine(r, p, {"firstmiss"}) <=> Mine(r, p, {"firstmiss"})'
          BY <1>1, <2>1, <2>2, <2>4, <2>8 DEF Mine
        <4> QED
          BY <2>2, <4>1, ClassKept DEF Firsts
      <3>3. Fits(m, g + 1, f, x + 1, z)
        BY <2>5, <2>8, FitsLaterGuess
      <3>4. Counted(p)'
        BY <1>1, <2>3, <2>4, <2>6, <2>8, <3>1, <3>2, <3>3 DEF Counted, Fits, Ceiling
      <3> QED
        BY <1>1, <1>4, <2>1, <2>2, <2>3, <2>9, <3>4, FactorsTyped, CountersTyped, OnePath
    <2> QED
      BY <2>7, <2>8
  <1> QED
    <2>1. PICK p \in Paths : p = PathOf(r)
      BY PathIsPath
    <2> QED
      BY <1>2, <1>3, <1>4, <2>1 DEF Judge
\* A miss is counted, and the challenge of a login with it.
LEMMA CountMissInv ==
  ASSUME IdInv, NEW CONSTANT r \in Reqs, CountMiss(r), UNCHANGED Exports
  PROVE  IdInv' /\ FamsGrow
  <1>1. PICK p \in Paths : p = PathOf(r)
    BY PathIsPath
  <1>2. /\ reqs[r].pc \in {"firstmiss", "miss"} /\ Finish(r)
        /\ UNCHANGED <<user, fams, failed, device, mix, codes, guesses>>
    BY DEF CountMiss
  <1>3. /\ reqs' \in [Reqs -> Request] /\ reqs'[r].pc = "idle" /\ reqs'[r].old = {}
        /\ \A s \in Reqs : s # r => reqs'[s] = reqs[s]
    BY <1>2, Finished DEF IdInv
  <1>4. PICK m \in Nat, g \in Nat, f \in Nat, x \in Nat, z \in Nat :
         /\ m = misses[p] /\ g = guesses[p] /\ f = Cardinality(Firsts(p))
         /\ x = Cardinality(Laters(p)) /\ z = Cardinality(Passing(p))
    BY CountersTyped, PathClasses DEF Classes
  <1>5. Classes(f, x, z) /\ Fits(m, g, f, x, z)
    BY <1>4, PathClasses, CountersTyped DEF Counted
  <1>6. Cardinality(Passing(p)') = z - 1
    <2>1. Mine(r, p, {"judge", "firstmiss", "miss"}) /\ ~Mine(r, p, {"judge", "firstmiss", "miss"})'
      BY <1>1, <1>2, <1>3 DEF Mine
    <2> QED
      BY <1>3, <1>4, <2>1, ClassLeft DEF Passing
  <1>7. PICK v \in Nat : v = IF reqs[r].pc = "firstmiss" \/ m = 0 THEN 1 ELSE m + 1
    OBVIOUS
  <1>8. misses' = [misses EXCEPT ![p] = v]
    BY <1>1, <1>4, <1>7 DEF CountMiss, At
  <1>9. misses' \in [Paths -> Nat] /\ misses'[p] = v /\ \A w \in Paths : w # p => misses'[w] = misses[w]
    BY <1>8, CountersTyped
  <1>10. Counted(p)'
    <2>1. CASE reqs[r].pc = "firstmiss"
      <3>1. Mine(r, p, {"firstmiss"}) /\ ~Mine(r, p, {"firstmiss"})'
            /\ (Mine(r, p, {"miss"}) <=> Mine(r, p, {"miss"})')
        BY <1>1, <1>3, <2>1 DEF Mine
      <3>2. Cardinality(Firsts(p)') = f - 1 /\ f # 0
        BY <1>3, <1>4, <3>1, ClassLeft DEF Firsts
      <3>3. Laters(p)' = Laters(p)
        BY <1>3, <3>1, ClassKept DEF Laters
      <3>4. Fits(1, g, f - 1, x, z - 1) /\ v = 1
        BY <1>5, <1>7, <2>1, <3>2, FitsFirst
      <3> QED
        BY <1>2, <1>4, <1>6, <1>9, <3>2, <3>3, <3>4 DEF Counted, Fits, Ceiling
    <2>2. CASE reqs[r].pc = "miss"
      <3>1. Mine(r, p, {"miss"}) /\ ~Mine(r, p, {"miss"})'
            /\ (Mine(r, p, {"firstmiss"}) <=> Mine(r, p, {"firstmiss"})')
        BY <1>1, <1>3, <2>2 DEF Mine
      <3>2. Cardinality(Laters(p)') = x - 1 /\ x # 0
        BY <1>3, <1>4, <3>1, ClassLeft DEF Laters
      <3>3. Firsts(p)' = Firsts(p)
        BY <1>3, <3>1, ClassKept DEF Firsts
      <3>4. Fits(m + 1, g, f, x - 1, z - 1) /\ v = m + 1
        BY <1>5, <1>7, <2>2, <3>2, FitsLater
      <3> QED
        BY <1>2, <1>4, <1>6, <1>9, <3>2, <3>3, <3>4 DEF Counted, Fits, Ceiling
    <2> QED
      BY <1>2, <2>1, <2>2
  <1>11. mails' \in Seq(Token) /\ DOMAIN mails' = DOMAIN mails
    <2>1. PICK t : t = reqs[r].ref
      OBVIOUS
    <2>2. mails' = Missed(t)
      BY <2>1 DEF CountMiss
    <2>3. CASE t = 0
      BY <2>2, <2>3, FactorsTyped DEF Missed
    <2>4. CASE t # 0
      <3>1. PICK e : e = [mails[t] EXCEPT !.misses = mails[t].misses + 1,
                             !.st = IF mails[t].misses + 1 >= MaxMisses THEN "burned" ELSE mails[t].st]
        OBVIOUS
      <3>2. t \in DOMAIN mails => mails[t] \in Token
        BY FactorsTyped, ElementsOf
      <3>3. ASSUME t \in DOMAIN mails PROVE e \in Token
        <4>1. PICK k \in Nat : k = mails[t].misses + 1
          BY <3>2, <3>3 DEF Token
        <4>2. PICK st \in {"issued", "used", "expired", "burned"} :
                st = IF k >= MaxMisses THEN "burned" ELSE mails[t].st
          BY <3>2, <3>3 DEF Token
        <4>3. e = [mails[t] EXCEPT !.misses = k, !.st = st]
          BY <3>1, <4>1, <4>2
        <4> QED
          BY <3>2, <3>3, <4>3 DEF Token
      <3>4. mails' = [mails EXCEPT ![t] = e]
        <4>1. CASE t \in DOMAIN mails
          BY <2>2, <2>4, <3>1, <3>2, <4>1, FactorsTyped DEF Missed, Token
        <4>2. CASE t \notin DOMAIN mails
          BY <2>2, <2>4, <4>2, FactorsTyped DEF Missed
        <4> QED
          BY <4>1, <4>2
      <3> QED
        BY <3>3, <3>4, TokenSet DEF IdInv
    <2> QED
      BY <2>3, <2>4
  <1>12. reqs'[r].pc \notin {"auth", "loop"} \union Mailed /\ UNCHANGED Exports
    BY <1>3 DEF Mailed
  <1> QED
    BY <1>1, <1>2, <1>3, <1>9, <1>10, <1>11, <1>12, CountersTyped, OnePath

\* A right code clears the counter.
LEMMA PassedInv ==
  ASSUME IdInv, NEW CONSTANT r \in Reqs, Passed(r), UNCHANGED Exports
  PROVE  IdInv' /\ FamsGrow
  <1>1. PICK p \in Paths : p = PathOf(r)
    BY PathIsPath
  <1>2. /\ reqs[r].pc = "right" /\ UNCHANGED <<user, fams, failed, device, mix, codes>>
        /\ misses' = [misses EXCEPT ![p] = 0] /\ guesses' = [guesses EXCEPT ![p] = 0]
    BY <1>1 DEF Passed, At
  <1>3. /\ reqs' \in [Reqs -> Request] /\ reqs'[r].pc \in {"idle", "issue"} /\ reqs'[r].old = {}
        /\ (PathOf(r)' = p \/ reqs'[r].pc = "idle")
        /\ \A s \in Reqs : s # r => reqs'[s] = reqs[s]
    <2>1. Finish(r) \/ Goto(r, "issue")
      BY DEF Passed
    <2>2. "issue" \in Pcs /\ reqs[r].old = {}
      BY <1>2, FactorsTyped DEF Pcs
    <2> QED
      BY <1>1, <2>1, <2>2, Finished, Gone DEF IdInv, PathOf
  <1>4. /\ misses' \in [Paths -> Nat] /\ misses'[p] = 0 /\ guesses' \in [Paths -> Nat] /\ guesses'[p] = 0
        /\ \A w \in Paths : w # p => misses'[w] = misses[w] /\ guesses'[w] = guesses[w]
    BY <1>2, CountersTyped
  <1>5. Counted(p)'
    <2>1. PICK F, X, Z : F = Firsts(p)' /\ X = Laters(p)' /\ Z = Passing(p)'
      OBVIOUS
    <2>2. Z \in SUBSET Reqs /\ F \in SUBSET Z /\ X \in SUBSET Z /\ F \intersect X = {}
      BY <2>1 DEF Firsts, Laters, Passing, On
    <2>3. Fits(0, 0, Cardinality(F), Cardinality(X), Cardinality(Z))
      BY <2>2, ClassesKnown, FitsReset
    <2> QED
      BY <1>4, <2>1, <2>3 DEF Counted, Fits, Ceiling
  <1>6. mails' \in Seq(Token) /\ DOMAIN mails' = DOMAIN mails
    <2>1. PICK t, e : t = reqs[r].ref /\ e = [mails[t] EXCEPT !.misses = 0]
      OBVIOUS
    <2>2. mails' = mails \/ mails' = [mails EXCEPT ![t] = e]
      BY <2>1 DEF Passed
    <2>3. t \in DOMAIN mails => mails[t] \in Token
      BY FactorsTyped, ElementsOf
    <2>4. t \in DOMAIN mails => e \in Token
      BY <2>1, <2>3 DEF Token
    <2> QED
      BY <2>2, <2>4, TokenSet, FactorsTyped DEF IdInv
  <1>7. reqs'[r].pc \notin {"auth", "loop"} \union Mailed /\ UNCHANGED Exports
    BY <1>3 DEF Mailed
  <1> QED
    BY <1>1, <1>2, <1>3, <1>4, <1>5, <1>6, <1>7, OnePath

LEMMA WindowInv ==
  ASSUME IdInv, NEW CONSTANT p \in Paths, WindowPasses(p), UNCHANGED Exports
  PROVE  IdInv' /\ FamsGrow
  <1>1. UNCHANGED <<user, fams, mails, failed, device, reqs, mix, codes>>
    BY DEF WindowPasses, accountVars
  <1>2. /\ misses' \in [Paths -> Nat] /\ misses'[p] = 0 /\ guesses' \in [Paths -> Nat] /\ guesses'[p] = 0
        /\ \A w \in Paths : w # p => misses'[w] = misses[w] /\ guesses'[w] = guesses[w]
    BY CountersTyped DEF WindowPasses
  <1>3. GuessInv'
    <2> SUFFICES ASSUME NEW CONSTANT w \in Paths PROVE Counted(w)'
      BY DEF GuessInv
    <2>1. Firsts(w)' = Firsts(w) /\ Laters(w)' = Laters(w) /\ Passing(w)' = Passing(w)
      BY <1>1 DEF Firsts, Laters, Passing, On, PathOf
    <2>2. CASE w = p
      <3>1. Fits(0, 0, Cardinality(Firsts(p)), Cardinality(Laters(p)), Cardinality(Passing(p)))
        BY PathClasses, FitsReset
      <3> QED
        BY <1>2, <2>1, <2>2, <3>1 DEF Counted, Fits, Ceiling
    <2>3. CASE w # p
      BY <1>2, <2>1, <2>3, CountersTyped DEF Counted, Fits, Ceiling
    <2> QED
      BY <2>2, <2>3
  <1>4. IdTypes' /\ FamsGrow
    BY <1>1, <1>2, FamsStay DEF IdInv, IdTypes, FactorTypeOK, Exports
  <1>5. SessInv' /\ LockInv' /\ RowInv'
    BY <1>1, <1>4, SessFrame, LockFrame, RowFrame DEF IdInv, IdTypes, Exports
  <1> QED
    BY <1>3, <1>4, <1>5 DEF IdInv

(* The account: theorems *)

LEMMA IdInitInv == IdentityInit => IdInv
  <1> SUFFICES ASSUME IdentityInit PROVE IdInv
    OBVIOUS
  <1> USE DEF IdentityInit, Init, FactorInit, ErasureInit
  <1>1. Settled \in UserRow /\ Settled.here /\ Settled.name = "own" /\ Settled.pending = "no"
        /\ NoUser \in UserRow /\ NoUser.name = "own" /\ NoUser.pending = "no"
    BY DEF Settled, NoUser, UserRow
  <1>2. NewFamily \in RefreshTokenFamily
    BY AccountsAssumption DEF NewFamily, RefreshTokenFamily
  <1>3. fams \in Seq(RefreshTokenFamily) /\ user \in UserRow /\ user.name = "own" /\ user.pending = "no"
    BY <1>1, <1>2
  <1>4. \A r \in Reqs : reqs[r] = Idle
    OBVIOUS
  <1>5. IdTypes
    <2>1. FactorTypeOK
      BY DEF FactorTypeOK, NoDevice, MFADevice, BackupCode, Paths
    <2>2. night \in Night /\ jobs \in Seq(DataExportJob) /\ work \in Seq({"queued", "running", "stored", "over"})
          /\ Len(work) = Len(jobs) /\ files \subseteq DOMAIN jobs
      BY DEF Night
    <2>3. reqs \in [Reqs -> Request]
      BY IdleTyped
    <2> QED
      BY <1>3, <2>1, <2>2, <2>3 DEF IdTypes
  <1>6. SessInv
    BY <1>4, IdleTyped DEF SessInv, Ends
  <1>7. LockInv
    <2>1. Checking = {}
      BY <1>4, IdleTyped DEF Checking
    <2>2. Cardinality(Checking) = 0 /\ Threshold \in Nat \ {0}
      BY <2>1, FS_EmptySet, AccountsAssumption
    <2> QED
      BY <2>2, Constants DEF LockInv
  <1>8. GuessInv
    <2> SUFFICES ASSUME NEW p \in Paths PROVE Counted(p)
      BY DEF GuessInv
    <2>1. misses[p] = 0 /\ guesses[p] = 0
      OBVIOUS
    <2> QED
      BY <2>1, PathClasses, FitsReset DEF Counted
  <1>9. RowInv
    BY <1>3, <1>4, IdleTyped DEF RowInv, Mailed
  <1> QED
    BY <1>5, <1>6, <1>7, <1>8, <1>9 DEF IdInv

LEMMA IdNextInv == IdInv /\ [IdentityNext]_allVars => IdInv' /\ FamsGrow
  <1> SUFFICES ASSUME IdInv, [IdentityNext]_allVars PROVE IdInv' /\ FamsGrow
    OBVIOUS
  <1>1. CASE TokenStep /\ UNCHANGED <<factorVars, erasureVars>>
    <2>1. UNCHANGED <<factorVars, Exports>>
      BY <1>1 DEF Exports, erasureVars
    <2>2. CASE Register \/ ResendVerification \/ PasswordReset \/ OAuthPostCallback
      BY <2>1, <2>2, RegisterInv, MailInv, SocialInv
    <2>3. ASSUME NEW t \in DOMAIN mails, TokenExpires(t) \/ \E r \in Reqs : ConsumeRead(r, t)
          PROVE  IdInv' /\ FamsGrow
      BY <2>1, <2>3, ExpiryInv, ConsumeReadInv
    <2>4. ASSUME NEW r \in Reqs, ConsumeSave(r) \/ VerifyEmail(r) \/ ResetSave(r) \/ OAuthExchange(r)
          PROVE  IdInv' /\ FamsGrow
      BY <2>1, <2>4, ConsumeSaveInv, VerifyInv, ResetSaveInv, ExchangeCodeInv
    <2> QED
      BY <1>1, <2>2, <2>3, <2>4 DEF TokenStep
  <1>2. CASE SessionStep /\ UNCHANGED <<factorVars, erasureVars>>
    <2>1. UNCHANGED <<factorVars, Exports>>
      BY <1>2 DEF Exports, erasureVars
    <2>2. CASE LockoutPasses
      BY <2>1, <2>2, LockoutPassesInv
    <2>3. ASSUME NEW r \in Reqs, \/ LoginGate(r) \/ IssuePair(r) \/ RevokeOne(r) \/ ChangeSave(r)
                                 \/ RevokeList(r) \/ RevokeLoop(r) \/ Respond(r)
          PROVE  IdInv' /\ FamsGrow
      BY <2>1, <2>3, LoginGateInv, IssuePairInv, RevokeOneInv, ChangeSaveInv, RevokeListInv, RevokeLoopInv,
         RespondInv
    <2>4. ASSUME NEW r \in Reqs, NEW b \in BOOLEAN, LoginCheck(r, b) PROVE IdInv' /\ FamsGrow
      <3>1. CASE b /\ user.here /\ user.pw /\ user.active
        BY <2>1, <2>4, <3>1, LoginRightInv
      <3>2. CASE ~(b /\ user.here /\ user.pw /\ user.active)
        <4>1. At(r, "auth") /\ failed' = failed + 1 /\ Finish(r) /\ UNCHANGED <<user, fams, mails, device, mix>>
          BY <2>4, <3>2 DEF LoginCheck
        <4>2. UNCHANGED <<user, fams, mails, mix, Factors, Exports>>
          BY <2>1, <4>1 DEF factorVars, Factors
        <4> QED
          BY <4>1, <4>2, LoginWrongInv
      <3> QED
        BY <3>1, <3>2
    <2>5. ASSUME NEW r \in Reqs, NEW b \in BOOLEAN, AdminSetActive(r, b) PROVE IdInv' /\ FamsGrow
      <3>1. CASE b = TRUE
        BY <2>1, <2>5, <3>1, OwnerInv
      <3>2. CASE b = FALSE
        BY <2>1, <2>5, <3>2, DisabledInv
      <3> QED
        BY <3>1, <3>2
    <2>6. ASSUME NEW r \in Reqs, NEW f \in DOMAIN fams,
                 Logout(r, f) \/ SessionsRevokeAll(r, f) \/ PasswordChange(r, f)
          PROVE  IdInv' /\ FamsGrow
      BY <2>1, <2>6, BeginsInv
    <2>7. ASSUME NEW f \in DOMAIN fams, NEW jti \in 1..MaxRot, Refresh(f, jti) PROVE IdInv' /\ FamsGrow
      BY <2>1, <2>7, RotationInv
    <2> QED
      BY <1>2, <2>2, <2>3, <2>4, <2>5, <2>6, <2>7 DEF SessionStep
  <1>3. CASE FactorStep /\ UNCHANGED erasureVars
    <2>1. UNCHANGED Exports
      BY <1>3 DEF Exports, erasureVars
    <2>2. ASSUME NEW r \in Reqs, Enroll(r) \/ EnrollConfirm(r) \/ Disable(r) \/ Regenerate(r)
          PROVE  IdInv' /\ FamsGrow
      BY <2>1, <2>2, BeginsInv
    <2>3. ASSUME NEW r \in Reqs, EnrollDelete(r) \/ EnrollCreate(r) \/ ConfirmSave(r) \/ DisableDelete(r) \/ DisableWipe(r)
          PROVE  IdInv' /\ FamsGrow
      BY <2>1, <2>3, DeviceInv
    <2>4. ASSUME NEW r \in Reqs, WipeCodes(r) \/ MintCodes(r) \/ SpendCode(r) PROVE IdInv' /\ FamsGrow
      BY <2>1, <2>4, WipeInv, CodesInv
    <2>5. ASSUME NEW r \in Reqs, StepUp(r) \/ \E t \in DOMAIN mails : MFAVerify(r, t) PROVE IdInv' /\ FamsGrow
      BY <2>1, <2>5, CheckOpensInv
    <2>6. ASSUME NEW r \in Reqs, Judge(r) \/ CountMiss(r) \/ Passed(r) PROVE IdInv' /\ FamsGrow
      BY <2>1, <2>6, JudgeInv, CountMissInv, PassedInv
    <2>7. ASSUME NEW p \in Paths, WindowPasses(p) PROVE IdInv' /\ FamsGrow
      BY <2>1, <2>7, WindowInv
    <2> QED
      BY <1>3, <2>2, <2>3, <2>4, <2>5, <2>6, <2>7 DEF FactorStep
  <1>4. CASE ErasureStep
    <2>1. CASE DeleteRequest \/ DeleteCancel \/ ThirtyDaysPass
      BY <2>1, OwnerInv
    <2>2. CASE NightStep \/ NightDies
      BY <2>2, NightInv, ScrubInv DEF NightStep
    <2>3. ASSUME NEW r \in Reqs, ExportLook(r) \/ ExportRequest(r) PROVE IdInv' /\ FamsGrow
      BY <2>3, BeginsInv, ExportRequestInv
    <2>4. ASSUME NEW j \in DOMAIN jobs, \/ ExportStart(j) \/ ExportStore(j) \/ ExportPublish(j)
                                        \/ ExportFails(j) \/ ExportDies(j) \/ Evict(j)
          PROVE  IdInv' /\ FamsGrow
      BY <2>4, TaskInv
    <2> QED
      BY <1>4, <2>1, <2>2, <2>3, <2>4 DEF ErasureStep
  <1>5. CASE UNCHANGED allVars
    <2>1. UNCHANGED <<user, fams, mails, failed, device, reqs, mix, codes, misses, guesses, jobs, files, work, night, deaths>>
      BY <1>5 DEF allVars, vars, accountVars, factorVars, erasureVars
    <2>2. IdTypes' /\ FamsGrow
      BY <2>1, FamsStay DEF IdInv, IdTypes, FactorTypeOK
    <2> QED
      BY <2>1, <2>2, CalmStep DEF IdInv, IdTypes
  <1> QED
    BY <1>1, <1>2, <1>3, <1>4, <1>5 DEF IdentityNext

LEMMA SessionsEnded == IdInv => AllTyped /\ OldSessionsEnded
  <1> SUFFICES ASSUME IdInv PROVE AllTyped /\ OldSessionsEnded
    OBVIOUS
  <1>1. AllTyped
    <2>1. /\ \A f \in DOMAIN fams : fams[f] \in RefreshTokenFamily
          /\ \A t \in DOMAIN mails : mails[t] \in Token
          /\ \A j \in DOMAIN jobs : jobs[j] \in DataExportJob
      BY FactorsTyped, JobsTyped, ElementsOf
    <2> QED
      BY <2>1 DEF IdInv, IdTypes, AllTyped, TypeOK
  <1>2. OldSessionsEnded
    BY DEF IdInv, SessInv, Ends, OldSessionsEnded
  <1> QED
    BY <1>1, <1>2

LEMMA Guessed == IdInv => GuessingIsBounded
  <1> SUFFICES ASSUME IdInv PROVE LockoutHolds /\ GuessesBounded
    BY DEF GuessingIsBounded
  <1>1. LockoutHolds
    <2>1. Checking \in SUBSET Reqs
      BY DEF Checking
    <2>2. Cardinality(Checking) \in Nat /\ Cardinality(Reqs) \in Nat
      BY <2>1, Fewer
    <2>3. failed \in Nat /\ Threshold \in Nat /\ failed + Cardinality(Checking) <= Threshold + Cardinality(Reqs) - 1
      BY AccountsAssumption DEF IdInv, IdTypes, LockInv
    <2> QED
      BY <2>2, <2>3 DEF LockoutHolds
  <1>2. GuessesBounded
    <2> SUFFICES ASSUME NEW p \in Paths
                 PROVE  2 * guesses[p] <= Cardinality(Reqs) * (2 * MaxMisses + Cardinality(Reqs) - 1)
      BY DEF GuessesBounded
    <2> QED
      BY PathClasses, CountersTyped, FitsBound DEF Counted
  <1> QED
    BY <1>1, <1>2

\* Only the save of a reset that had loaded the row before writes an erased name back.
LEMMA Revival ==
  ASSUME IdInv, [IdentityNext]_allVars, user.name = "anon", user'.name = "own"
  PROVE  \E r \in Reqs : At(r, "reset") /\ reqs[r].me.name = "own"
  <1>1. user \in UserRow /\ user.here /\ user' # user
    BY FactorsTyped DEF IdInv, RowInv
  <1>2. \/ Register \/ OAuthPostCallback \/ DeleteRequest \/ DeleteCancel \/ ThirtyDaysPass \/ ScrubRow
        \/ \E r \in Reqs : \/ VerifyEmail(r) \/ ResetSave(r) \/ ChangeSave(r)
                           \/ \E b \in BOOLEAN : AdminSetActive(r, b)
    <2>1. CASE TokenStep
      BY <1>1, <2>1 DEF TokenStep, ResendVerification, PasswordReset, TokenExpires, ConsumeRead, ConsumeSave,
                        OAuthExchange
    <2>2. CASE SessionStep
      BY <1>1, <2>2 DEF SessionStep, LockoutPasses, LoginGate, IssuePair, RevokeOne, RevokeList, RevokeLoop,
                        Respond, LoginCheck, Logout, SessionsRevokeAll, PasswordChange, Refresh
    <2>3. CASE FactorStep
      BY <1>1, <2>3 DEF FactorStep, Enroll, EnrollDelete, EnrollCreate, EnrollConfirm, ConfirmSave, Disable,
                        DisableDelete, DisableWipe,
                        Regenerate, WipeCodes, MintCodes, StepUp, Judge, SpendCode, CountMiss, Passed, MFAVerify,
                        WindowPasses, accountVars
    <2>4. CASE ErasureStep
      BY <1>1, <2>4 DEF ErasureStep, NightStep, NightReads, DropSecrets, ListExports, PurgeExport, NightDies,
                        ExportLook, ExportRequest, ExportStart, ExportStore, ExportPublish, ExportFails, ExportDies,
                        Evict, vars, accountVars
    <2> QED
      BY <1>1, <2>1, <2>2, <2>3, <2>4 DEF IdentityNext, allVars, vars, accountVars
  <1>3. ASSUME NEW r \in Reqs, ResetSave(r) PROVE At(r, "reset") /\ reqs[r].me.name = "own"
    <2>1. reqs[r].me \in UserRow
      BY FactorsTyped DEF Request
    <2> QED
      BY <1>3, <2>1 DEF ResetSave, UserRow
  <1>4. ~Register /\ ~OAuthPostCallback
    BY <1>1 DEF Register, OAuthPostCallback
  <1>5. ~DeleteRequest /\ ~DeleteCancel /\ ~ThirtyDaysPass /\ ~ScrubRow
    BY <1>1 DEF DeleteRequest, DeleteCancel, ThirtyDaysPass, ScrubRow, Scrub, UserRow
  <1>6. ASSUME NEW r \in Reqs
        PROVE  ~VerifyEmail(r) /\ ~ChangeSave(r) /\ \A b \in BOOLEAN : ~AdminSetActive(r, b)
    BY <1>1 DEF VerifyEmail, ChangeSave, AdminSetActive, UserRow
  <1> QED
    BY <1>2, <1>3, <1>4, <1>5, <1>6

\* Only the confirmation of the pending device that is there verifies one.
LEMMA Confirmed ==
  ASSUME IdInv, [IdentityNext]_allVars, mfa_enabled', ~mfa_enabled
  PROVE  \E r \in Reqs : /\ At(r, "confirm") /\ reqs[r].ref = device.id
                         /\ device'.id = device.id /\ device.st = "pending"
  <1>1. device \in MFADevice /\ device' # device /\ device'.st = "verified" /\ device.st # "verified"
    BY FactorsTyped DEF mfa_enabled
  <1>2. \/ DropSecrets
        \/ \E r \in Reqs : EnrollDelete(r) \/ EnrollCreate(r) \/ ConfirmSave(r) \/ DisableDelete(r)
    <2>1. CASE TokenStep
      BY <1>1, <2>1 DEF TokenStep, Register, OAuthPostCallback, ResendVerification, PasswordReset, TokenExpires,
                        ConsumeRead, ConsumeSave, VerifyEmail, ResetSave, OAuthExchange
    <2>2. CASE SessionStep
      BY <1>1, <2>2 DEF SessionStep, LockoutPasses, LoginGate, IssuePair, RevokeOne, RevokeList, RevokeLoop,
                        ChangeSave, AdminSetActive, Respond, LoginCheck, Logout, SessionsRevokeAll,
                        PasswordChange, Refresh
    <2>3. CASE FactorStep
      BY <1>1, <2>3 DEF FactorStep, Enroll, EnrollConfirm, Disable, DisableWipe, Regenerate, WipeCodes, MintCodes,
                        StepUp, Judge, SpendCode, CountMiss, Passed, MFAVerify, WindowPasses, accountVars
    <2>4. CASE ErasureStep
      BY <1>1, <2>4 DEF ErasureStep, NightStep, NightReads, ScrubRow, ListExports, PurgeExport, NightDies,
                        DeleteRequest, DeleteCancel, ThirtyDaysPass, ExportLook, ExportRequest, ExportStart,
                        ExportStore, ExportPublish, ExportFails, ExportDies, Evict, vars, accountVars
    <2> QED
      BY <1>1, <2>1, <2>2, <2>3, <2>4 DEF IdentityNext, allVars, vars, accountVars
  <1>3. ~DropSecrets
    BY <1>1 DEF DropSecrets, MFADevice
  <1>4. ASSUME NEW r \in Reqs PROVE ~EnrollDelete(r) /\ ~EnrollCreate(r) /\ ~DisableDelete(r)
    BY <1>1 DEF EnrollDelete, EnrollCreate, DisableDelete, mfa_enabled, MFADevice
  <1>5. ASSUME NEW r \in Reqs, ConfirmSave(r)
        PROVE  At(r, "confirm") /\ reqs[r].ref = device.id /\ device'.id = device.id /\ device.st = "pending"
    BY <1>1, <1>5 DEF ConfirmSave, MFADevice
  <1> QED
    BY <1>2, <1>3, <1>4, <1>5

(* The strategies *)

CallOps == {"", "patch", "delete", "show", "put", "rotate", "dryrun", "upload"}
CallPcs == {"idle", "save", "config", "mint", "answer", "write", "create", "files"}
Config == [here : BOOLEAN, secret : Nat, version : Nat, json_schema : {0} \union {s.id : s \in Schemas}]
Call == [op : CallOps, pc : CallPcs, id : Nat, row : Strategy, cfg : Config, imp : BOOLEAN]

StratTypes ==
    /\ strats \in Seq(Strategy) /\ Len(strats) <= MaxStrats
    /\ hooks \in [1..MaxStrats -> Config] /\ minted \in Nat
    /\ \A i \in 1..MaxStrats : hooks[i].secret <= minted
    /\ calls \in [Calls -> Call]

\* A call is about a row there is, and an impersonating one is on its way to an answer.
Apt(q) ==
    /\ q.pc \notin {"idle", "create"} => q.id \in DOMAIN strats
    /\ q.imp => q.op = "show" /\ q.pc \in {"idle", "config", "answer"}
StratInv == StratTypes /\ (\A c \in Calls : Apt(calls[c])) /\ UploadsWhole

-----------------------------------------------------------------------------
LEMMA LeastNumber ==
  ASSUME NEW T, T \subseteq Nat, T # {}
  PROVE  \E x \in T : \A y \in T : x <= y
  <1> DEFINE R == {p \in Nat \X Nat : p[1] < p[2]}
  <1>1. IsWellFoundedOn(R, Nat)
    BY NatLessThanWellFounded DEF OpToRel
  <1>2. PICK x \in T : \A y \in T : <<y, x>> \notin R
    <2> HIDE DEF R
    <2> QED
      BY <1>1, WFMin
  <1>3. ASSUME NEW y \in T PROVE x <= y
    <2>1. <<y, x>> \in Nat \X Nat
      OBVIOUS
    <2>2. ~ (y < x)
      BY <1>2, <2>1
    <2> QED
      BY <2>2
  <1> QED
    BY <1>3

\* MaxStrats rows cannot take MaxStrats + 1 suffixes.
LEMMA SlugIsFree ==
  ASSUME StratTypes, NEW base \in Nat
  PROVE  _make_unique_slug(base) \in Seq(Nat)
  <1> DEFINE rows  == {j \in DOMAIN strats : ~strats[j].system}
             taken == {strats[i].slug : i \in rows}
             free  == {n \in 1..(MaxStrats + 1) : <<base, n>> \notin taken}
  <1>1. MaxStrats \in Nat /\ rows \subseteq 1..MaxStrats
    <2>1. DOMAIN strats = 1..Len(strats) /\ Len(strats) \in Nat /\ Len(strats) <= MaxStrats
      BY ElementsOf DEF StratTypes
    <2> QED
      BY <2>1, StrategiesAssumption
  <1>2. free # {}
    <2>1. SUFFICES ASSUME free = {} PROVE FALSE
      OBVIOUS
    <2>2. \A n \in 1..(MaxStrats + 1) : \E i \in rows : strats[i].slug = <<base, n>>
      BY <2>1
    <2> DEFINE f == [n \in 1..(MaxStrats + 1) |-> CHOOSE i \in rows : strats[i].slug = <<base, n>>]
    <2>3. \A n \in 1..(MaxStrats + 1) : f[n] \in rows /\ strats[f[n]].slug = <<base, n>>
      <3> HIDE DEF rows
      <3> QED
        BY <2>2
    <2>4. f \in [1..(MaxStrats + 1) -> 1..MaxStrats]
      BY <1>1, <2>3
    <2> HIDE DEF f
    <2>5. /\ IsFiniteSet(1..(MaxStrats + 1)) /\ IsFiniteSet(1..MaxStrats)
          /\ Cardinality(1..MaxStrats) < Cardinality(1..(MaxStrats + 1))
      <3>1. IsFiniteSet(1..MaxStrats) /\ Cardinality(1..MaxStrats) = MaxStrats
        BY <1>1, FS_Interval
      <3>2. IsFiniteSet(1..(MaxStrats + 1)) /\ Cardinality(1..(MaxStrats + 1)) = MaxStrats + 1
        BY <1>1, FS_Interval
      <3> QED
        BY <1>1, <3>1, <3>2
    <2>6. PICK x \in 1..(MaxStrats + 1), y \in 1..(MaxStrats + 1) : x # y /\ f[x] = f[y]
      BY <2>4, <2>5, FS_PigeonHole
    <2>7. <<base, x>> = <<base, y>>
      BY <2>3, <2>6
    <2> QED
      BY <2>6, <2>7
  <1>3. free \subseteq Nat
    BY <1>1
  <1>4. \E n \in free : \A m \in free : n <= m
    <2> HIDE DEF free
    <2> QED
      BY <1>2, <1>3, LeastNumber
  <1>5. PICK n \in free : _make_unique_slug(base) = <<base, n>>
    BY <1>4 DEF _make_unique_slug
  <1> QED
    BY <1>1, <1>5

LEMMA QuietTyped ==
  /\ NoRow \in Strategy /\ NoConfig \in Config
  /\ Quiet \in Call /\ Apt(Quiet) /\ Quiet.pc = "idle" /\ ~Quiet.imp
  <1>1. NoRow \in Strategy
    BY DEF NoRow, Strategy, Kind
  <1>2. NoConfig \in Config
    BY DEF NoConfig, Config
  <1> QED
    BY <1>1, <1>2 DEF Quiet, Call, CallOps, CallPcs, Apt

\* A request works; rows are only added.
LEMMA CallStepInv ==
  ASSUME StratInv, NEW c \in Calls, NEW q \in Call, calls' = [calls EXCEPT ![c] = q], Apt(q)',
         strats' \in Seq(Strategy), Len(strats') <= MaxStrats, DOMAIN strats \subseteq DOMAIN strats',
         hooks' \in [1..MaxStrats -> Config], minted' \in Nat,
         \A i \in 1..MaxStrats : hooks'[i].secret <= minted', UploadsWhole'
  PROVE  StratInv'
  <1>1. calls' \in [Calls -> Call] /\ calls'[c] = q /\ \A d \in Calls : d # c => calls'[d] = calls[d]
    BY DEF StratInv, StratTypes
  <1>2. \A d \in Calls : Apt(calls[d])'
    BY <1>1 DEF StratInv, Apt
  <1> QED
    BY <1>1, <1>2 DEF StratInv, StratTypes

\* Rows keep their files, and no upload under way is left.
LEMMA NoUploadLeft ==
  ASSUME StratInv, NEW c \in Calls, NEW q, calls' = [calls EXCEPT ![c] = q], ~AtCall(c, "upload", "files"),
         DOMAIN strats' = DOMAIN strats,
         \A i \in DOMAIN strats : /\ strats'[i].files = strats[i].files \/ strats'[i].files = Kind
                                  /\ strats'[i].cut = strats[i].cut
  PROVE  UploadsWhole'
  <1>1. \A d \in Calls : d # c => calls'[d] = calls[d]
    BY DEF StratInv, StratTypes
  <1>2. SUFFICES ASSUME NEW i \in DOMAIN strats
                 PROVE  \/ strats'[i].files = Kind \/ strats'[i].cut
                        \/ \E d \in Calls : AtCall(d, "upload", "files")' /\ calls'[d].id = i
    BY DEF UploadsWhole
  <1>3. \/ strats[i].files = Kind \/ strats[i].cut
        \/ \E d \in Calls : AtCall(d, "upload", "files") /\ calls[d].id = i
    BY DEF StratInv, UploadsWhole
  <1>4. CASE strats[i].files = Kind \/ strats[i].cut
    BY <1>2, <1>4
  <1>5. ASSUME NEW d \in Calls, AtCall(d, "upload", "files"), calls[d].id = i
        PROVE  AtCall(d, "upload", "files")' /\ calls'[d].id = i
    <2>1. d # c
      BY <1>5
    <2>2. calls'[d] = calls[d]
      BY <1>1, <2>1
    <2> QED
      BY <1>5, <2>2 DEF AtCall
  <1> QED
    BY <1>3, <1>4, <1>5

LEMMA StratTyped ==
  ASSUME StratInv
  PROVE  /\ strats \in Seq(Strategy) /\ Len(strats) \in Nat /\ Len(strats) <= MaxStrats /\ MaxStrats \in Nat
         /\ DOMAIN strats = 1..Len(strats) /\ DOMAIN strats \subseteq 1..MaxStrats
         /\ \A i \in DOMAIN strats : strats[i] \in Strategy
         /\ hooks \in [1..MaxStrats -> Config] /\ minted \in Nat
         /\ \A i \in 1..MaxStrats : hooks[i].secret <= minted
         /\ \A c \in Calls : calls[c] \in Call /\ Apt(calls[c])
  <1>1. strats \in Seq(Strategy) /\ Len(strats) <= MaxStrats /\ MaxStrats \in Nat
    BY StrategiesAssumption DEF StratInv, StratTypes
  <1>2. DOMAIN strats = 1..Len(strats) /\ Len(strats) \in Nat /\ \A i \in DOMAIN strats : strats[i] \in Strategy
    BY <1>1, ElementsOf
  <1> QED
    BY <1>1, <1>2 DEF StratInv, StratTypes

\* Nothing but the record of a request that is not in its files.
LEMMA OnlyCall ==
  ASSUME StratInv, NEW c \in Calls, NEW q \in Call, calls' = [calls EXCEPT ![c] = q], Apt(q),
         ~AtCall(c, "upload", "files"), UNCHANGED <<strats, hooks, minted>>
  PROVE  StratInv'
  <1>1. UploadsWhole'
    BY NoUploadLeft
  <1>2. Apt(q)'
    BY DEF Apt
  <1> QED
    BY <1>1, <1>2, StratTyped, CallStepInv

LEMMA OpenCallInv ==
  ASSUME StratInv, NEW c \in Calls, NEW op, NEW i, NEW imp \in BOOLEAN, OpenCall(c, op, i, imp)
  PROVE  StratInv'
  <1>1. PICK q : q = [Quiet EXCEPT !.op = op, !.id = i, !.row = strats[i], !.imp = imp,
                        !.pc = IF op \in {"patch", "delete"} THEN "save" ELSE "config"]
    OBVIOUS
  <1>2. /\ op \in {"patch", "delete", "show", "put", "rotate", "dryrun"} /\ i \in DOMAIN strats
        /\ imp => op = "show"
    BY DEF OpenCall, Visible
  <1>3. i \in Nat /\ strats[i] \in Strategy
    BY <1>2, StratTyped
  <1>4. /\ q.op = op /\ q.id = i /\ q.imp = imp /\ q.pc = IF op \in {"patch", "delete"} THEN "save" ELSE "config"
    BY <1>1 DEF Quiet
  <1>5. q \in Call
    BY <1>1, <1>2, <1>3, QuietTyped DEF Call, CallOps, CallPcs, Quiet
  <1>6. Apt(q)
    BY <1>2, <1>4 DEF Apt
  <1> QED
    BY <1>1, <1>5, <1>6, OnlyCall DEF OpenCall, AtCall

LEMMA RowSet ==
  ASSUME strats \in Seq(Strategy), NEW i, NEW e, i \in DOMAIN strats => e \in Strategy,
         strats' = [strats EXCEPT ![i] = e]
  PROVE  strats' \in Seq(Strategy) /\ Len(strats') = Len(strats) /\ DOMAIN strats' = DOMAIN strats
  <1>1. Len(strats) \in Nat /\ DOMAIN strats = 1..Len(strats) /\ \A j \in DOMAIN strats : strats[j] \in Strategy
    BY ElementsOf
  <1>2. DOMAIN strats' = DOMAIN strats /\ \A j \in DOMAIN strats : strats'[j] = IF j = i THEN e ELSE strats[j]
    OBVIOUS
  <1>3. strats' = [j \in 1..Len(strats) |-> strats'[j]]
    BY <1>1
  <1>4. strats' \in [1..Len(strats) -> Strategy]
    BY <1>1, <1>2, <1>3
  <1> QED
    BY <1>1, <1>2, <1>4, IsSeqOf

\* A row gets a new value; it keeps its files and what became of its upload.
LEMMA RowSaved ==
  ASSUME StratInv, NEW c \in Calls, ~AtCall(c, "upload", "files"), NEW i, NEW e,
         i \in DOMAIN strats => e \in Strategy /\ e.files = strats[i].files /\ e.cut = strats[i].cut,
         strats' = [strats EXCEPT ![i] = e], CallEnds(c), UNCHANGED <<hooks, minted>>
  PROVE  StratInv'
  <1>0. strats \in Seq(Strategy) /\ (i \in DOMAIN strats => e \in Strategy)
    BY StratTyped
  <1>1. strats' \in Seq(Strategy) /\ Len(strats') = Len(strats) /\ DOMAIN strats' = DOMAIN strats
    BY <1>0, RowSet
  <1>4. \A j \in DOMAIN strats : strats'[j] = IF j = i THEN e ELSE strats[j]
    OBVIOUS
  <1>2. UploadsWhole'
    BY <1>1, <1>4, NoUploadLeft DEF CallEnds
  <1>3. Apt(Quiet)'
    BY DEF Apt, Quiet
  <1> QED
    BY <1>1, <1>2, <1>3, StratTyped, QuietTyped, CallStepInv DEF CallEnds

LEMMA PatchInv ==
  ASSUME StratInv, NEW c \in Calls, NEW on \in BOOLEAN, Patch(c, on)
  PROVE  StratInv'
  <1>1. PICK i : i = calls[c].id
    OBVIOUS
  <1>2. PICK e : e = [strats[i] EXCEPT !.is_enabled = on, !.deleted = calls[c].row.deleted]
    OBVIOUS
  <1>3. strats' = [strats EXCEPT ![i] = e] /\ ~AtCall(c, "upload", "files")
    BY <1>1, <1>2 DEF Patch, AtCall
  <1>4. i \in DOMAIN strats => e \in Strategy /\ e.files = strats[i].files /\ e.cut = strats[i].cut
    BY <1>2, StratTyped DEF Strategy, Call
  <1> QED
    BY <1>3, <1>4, RowSaved DEF Patch

LEMMA DeleteInv ==
  ASSUME StratInv, NEW c \in Calls, Delete(c)
  PROVE  StratInv'
  <1>1. PICK i : i = calls[c].id
    OBVIOUS
  <1>2. PICK e : e = [strats[i] EXCEPT !.is_enabled = FALSE, !.deleted = TRUE]
    OBVIOUS
  <1>3. strats' = [strats EXCEPT ![i] = e] /\ ~AtCall(c, "upload", "files")
    BY <1>1, <1>2 DEF Delete, AtCall
  <1>4. i \in DOMAIN strats => e \in Strategy /\ e.files = strats[i].files /\ e.cut = strats[i].cut
    BY <1>2, StratTyped DEF Strategy
  <1> QED
    BY <1>3, <1>4, RowSaved DEF Delete

LEMMA FindConfigInv ==
  ASSUME StratInv, NEW c \in Calls, FindConfig(c)
  PROVE  StratInv'
  <1>0. /\ calls[c] \in Call /\ Apt(calls[c]) /\ calls[c].pc = "config"
    BY StratTyped DEF FindConfig
  <1>1. PICK i : i = calls[c].id
    OBVIOUS
  <1>2. i \in DOMAIN strats /\ hooks[i] \in Config
    BY <1>0, <1>1, StratTyped DEF Apt
  <1>3. PICK pc : pc = CASE hooks[i].here -> Rest(calls[c].op)
                         [] ~hooks[i].here /\ calls[c].imp -> "answer"
                         [] OTHER -> "mint"
    OBVIOUS
  <1>4. pc \in {"answer", "write", "mint"} /\ (calls[c].imp => pc = "answer")
    BY <1>0, <1>2, <1>3 DEF Rest, Apt, Config, Call
  <1>5. PICK q : q = [calls[c] EXCEPT !.cfg = hooks[i], !.pc = pc]
    OBVIOUS
  <1>6. q \in Call /\ q.pc = pc /\ q.imp = calls[c].imp /\ q.op = calls[c].op /\ q.id = calls[c].id
    BY <1>0, <1>2, <1>4, <1>5 DEF Call, CallPcs
  <1>7. calls' = [calls EXCEPT ![c] = q]
    BY <1>1, <1>3, <1>5 DEF FindConfig
  <1>8. Apt(q)
    BY <1>0, <1>4, <1>6 DEF Apt
  <1> QED
    BY <1>0, <1>6, <1>7, <1>8, OnlyCall DEF FindConfig, AtCall

\* A config gets a new value, whose secret is not one of tomorrow's.
LEMMA ConfigSaved ==
  ASSUME StratInv, NEW c \in Calls, ~AtCall(c, "upload", "files"), NEW i, NEW e \in Config,
         minted' \in Nat, minted <= minted', e.secret <= minted',
         hooks' = [hooks EXCEPT ![i] = e], NEW q \in Call, Apt(q), calls' = [calls EXCEPT ![c] = q],
         UNCHANGED strats
  PROVE  StratInv'
  <1>1. hooks' \in [1..MaxStrats -> Config] /\ \A j \in 1..MaxStrats : hooks'[j] = IF j = i THEN e ELSE hooks[j]
    BY StratTyped
  <1>2. \A j \in 1..MaxStrats : hooks'[j].secret <= minted'
    <2> SUFFICES ASSUME NEW j \in 1..MaxStrats PROVE hooks'[j].secret <= minted'
      OBVIOUS
    <2>1. hooks[j].secret <= minted /\ hooks[j].secret \in Nat /\ minted \in Nat
      BY StratTyped DEF Config
    <2> QED
      BY <1>1, <2>1
  <1>3. UploadsWhole'
    BY NoUploadLeft
  <1>4. Apt(q)'
    BY DEF Apt
  <1> QED
    BY <1>1, <1>2, <1>3, <1>4, StratTyped, CallStepInv

LEMMA FreshSecret == ASSUME StratInv, Fresh PROVE minted' \in Nat /\ minted < minted' /\ minted' >= 1
  BY StratTyped DEF Fresh

LEMMA MintInv ==
  ASSUME StratInv, NEW c \in Calls, Mint(c)
  PROVE  StratInv'
  <1>0. calls[c] \in Call /\ Apt(calls[c]) /\ calls[c].pc = "mint" /\ ~AtCall(c, "upload", "files")
    BY StratTyped DEF Mint, AtCall
  <1>1. PICK i : i = calls[c].id
    OBVIOUS
  <1>2. CASE hooks[i].here /\ CallEnds(c) /\ UNCHANGED <<strats, hooks, minted>>
    BY <1>0, <1>2, QuietTyped, OnlyCall DEF CallEnds
  <1>3. CASE Fresh /\ ~hooks[i].here
    <2>1. PICK new : new = [here |-> TRUE, secret |-> minted', version |-> 1, json_schema |-> 0]
      OBVIOUS
    <2>2. PICK q : q = [calls[c] EXCEPT !.cfg = new, !.pc = Rest(calls[c].op)]
      OBVIOUS
    <2>3. minted' \in Nat /\ minted <= minted'
      BY <1>3, FreshSecret, StratTyped
    <2>4. new \in Config /\ new.secret <= minted'
      BY <2>1, <2>3 DEF Config
    <2>5. q \in Call /\ q.pc \in {"answer", "write"} /\ q.imp = calls[c].imp /\ q.id = calls[c].id
      BY <1>0, <2>2, <2>4 DEF Call, CallPcs, Rest
    <2>6. Apt(q)
      BY <1>0, <2>5 DEF Apt
    <2>7. hooks' = [hooks EXCEPT ![i] = new] /\ calls' = [calls EXCEPT ![c] = q] /\ UNCHANGED strats
      BY <1>1, <1>3, <2>1, <2>2 DEF Mint
    <2> QED
      BY <1>0, <2>3, <2>4, <2>5, <2>6, <2>7, ConfigSaved
  <1> QED
    BY <1>1, <1>2, <1>3 DEF Mint

LEMMA AnswerCallInv == ASSUME StratInv, NEW c \in Calls, AnswerCall(c) PROVE StratInv'
  BY QuietTyped, OnlyCall DEF AnswerCall, CallEnds, AtCall

LEMMA PutInv ==
  ASSUME StratInv, NEW c \in Calls, NEW s \in Schemas, Put(c, s)
  PROVE  StratInv'
  <1>0. calls[c] \in Call /\ Apt(calls[c]) /\ calls[c].pc = "write" /\ ~AtCall(c, "upload", "files")
    BY StratTyped DEF Put, AtCall
  <1>1. PICK i : i = calls[c].id
    OBVIOUS
  <1>2. i \in 1..MaxStrats /\ hooks[i] \in Config /\ hooks[i].secret <= minted /\ minted \in Nat
    BY <1>0, <1>1, StratTyped DEF Apt
  <1>3. PICK e : e = [hooks[i] EXCEPT !.json_schema = s.id]
    OBVIOUS
  <1>4. e \in Config /\ e.secret = hooks[i].secret
    BY <1>2, <1>3 DEF Config
  <1>5. hooks' = [hooks EXCEPT ![i] = e] /\ minted' = minted /\ UNCHANGED strats
    BY <1>1, <1>3 DEF Put
  <1>6. minted' \in Nat /\ minted <= minted' /\ e.secret <= minted'
    BY <1>2, <1>4, <1>5
  <1>7. calls' = [calls EXCEPT ![c] = Quiet] /\ Quiet \in Call /\ Apt(Quiet)
    BY QuietTyped DEF Put, CallEnds
  <1> QED
    BY <1>0, <1>4, <1>5, <1>6, <1>7, ConfigSaved

LEMMA RotateInv ==
  ASSUME StratInv, NEW c \in Calls, rotate_secret(c)
  PROVE  StratInv'
  <1>0. calls[c] \in Call /\ Apt(calls[c]) /\ calls[c].pc = "write" /\ ~AtCall(c, "upload", "files")
    BY StratTyped DEF rotate_secret, AtCall
  <1>1. PICK i : i = calls[c].id
    OBVIOUS
  <1>2. i \in 1..MaxStrats /\ hooks[i] \in Config /\ minted \in Nat
    BY <1>0, <1>1, StratTyped DEF Apt
  <1>3. minted' \in Nat /\ minted <= minted'
    BY <1>2, FreshSecret DEF rotate_secret
  <1>4. PICK e : e = [hooks[i] EXCEPT !.secret = minted', !.version = calls[c].cfg.version + 1]
    OBVIOUS
  <1>5. e \in Config /\ e.secret <= minted'
    <2>1. calls[c].cfg.version + 1 \in Nat
      BY <1>0 DEF Call, Config
    <2>2. e \in Config /\ e.secret = minted'
      BY <1>2, <1>3, <1>4, <2>1 DEF Config
    <2> QED
      BY <1>3, <2>2
  <1>6. hooks' = [hooks EXCEPT ![i] = e] /\ UNCHANGED strats
    BY <1>1, <1>4 DEF rotate_secret
  <1> QED
    BY <1>0, <1>3, <1>5, <1>6, QuietTyped, ConfigSaved DEF rotate_secret, CallEnds

LEMMA UploadInv ==
  ASSUME StratInv, NEW c \in Calls, NEW b \in Bundles, Upload(c, b)
  PROVE  StratInv'
  <1>1. PICK entry : entry = [NoRow EXCEPT !.slug = _make_unique_slug(b.stem), !.is_enabled = TRUE]
    OBVIOUS
  <1>2. entry \in Strategy
    <2>1. _make_unique_slug(b.stem) \in Seq(Nat)
      BY SlugIsFree, StrategiesAssumption DEF StratInv
    <2> QED
      BY <1>1, <2>1, QuietTyped DEF Strategy
  <1>3. PICK q : q = [Quiet EXCEPT !.op = "upload", !.pc = "create", !.row = entry]
    OBVIOUS
  <1>4. q \in Call /\ q.pc = "create" /\ ~q.imp
    BY <1>2, <1>3, QuietTyped DEF Call, CallOps, CallPcs, Quiet
  <1>5. Apt(q)
    BY <1>4 DEF Apt
  <1>6. calls' = [calls EXCEPT ![c] = q] /\ ~AtCall(c, "upload", "files") /\ UNCHANGED <<strats, hooks, minted>>
    BY <1>1, <1>3 DEF Upload, AtCall
  <1> QED
    BY <1>4, <1>5, <1>6, OnlyCall

LEMMA CreateRowInv ==
  ASSUME StratInv, NEW c \in Calls, CreateRow(c)
  PROVE  StratInv'
  <1>0. /\ calls[c] \in Call /\ calls[c].op = "upload" /\ calls[c].pc = "create" /\ ~calls[c].imp
        /\ ~AtCall(c, "upload", "files") /\ strats \in Seq(Strategy)
    BY StratTyped DEF CreateRow, AtCall, Apt
  <1>1. CASE CallEnds(c) /\ UNCHANGED <<strats, hooks, minted>>
    BY <1>0, <1>1, QuietTyped, OnlyCall DEF CallEnds
  <1>2. CASE ~(CallEnds(c) /\ UNCHANGED <<strats, hooks, minted>>)
    <2>1. /\ Len(strats) < MaxStrats /\ strats' = Append(strats, calls[c].row)
          /\ calls' = [calls EXCEPT ![c].id = Len(strats'), ![c].pc = "files"]
          /\ UNCHANGED <<hooks, minted>>
      BY <1>2 DEF CreateRow
    <2>2. PICK e : e = calls[c].row
      OBVIOUS
    <2>3. e \in Strategy
      BY <1>0, <2>2 DEF Call
    <2>4. PICK t : t = Append(strats, e)
      OBVIOUS
    <2>5. /\ t \in Seq(Strategy) /\ Len(t) = Len(strats) + 1 /\ Len(strats) \in Nat
          /\ DOMAIN strats \subseteq DOMAIN t
          /\ \A i \in DOMAIN t : i \in DOMAIN strats \/ i = Len(strats) + 1
          /\ \A i \in DOMAIN strats : t[i] = strats[i]
      BY <1>0, <2>3, <2>4, Appended
    <2>6. strats' = t
      BY <2>1, <2>2, <2>4
    <2>14. PICK n \in Nat : n = Len(t)
      BY <2>5
    <2>7. PICK q : q = [calls[c] EXCEPT !.id = n, !.pc = "files"]
      OBVIOUS
    <2>8. q \in Call /\ q.op = "upload" /\ q.pc = "files" /\ q.id = Len(t) /\ ~q.imp
      BY <1>0, <2>7, <2>14 DEF Call, CallPcs
    <2>9. calls' = [calls EXCEPT ![c] = q]
      BY <2>1, <2>6, <2>7, <2>14
    <2>10. calls'[c] = q /\ \A d \in Calls : d # c => calls'[d] = calls[d]
      BY <2>9 DEF StratInv, StratTypes
    <2>11. Apt(q)'
      BY <2>5, <2>6, <2>8 DEF Apt
    <2>12. UploadsWhole'
      <3>1. SUFFICES ASSUME NEW i \in DOMAIN t
                     PROVE  \/ t[i].files = Kind \/ t[i].cut
                            \/ \E d \in Calls : AtCall(d, "upload", "files")' /\ calls'[d].id = i
        BY <2>6 DEF UploadsWhole
      <3>2. CASE i \in DOMAIN strats
        <4>1. \/ strats[i].files = Kind \/ strats[i].cut
              \/ \E d \in Calls : AtCall(d, "upload", "files") /\ calls[d].id = i
          BY <3>2 DEF StratInv, UploadsWhole
        <4>2. ASSUME NEW d \in Calls, AtCall(d, "upload", "files"), calls[d].id = i
              PROVE  AtCall(d, "upload", "files")' /\ calls'[d].id = i
          <5>1. calls'[d] = calls[d]
            BY <1>0, <2>10, <4>2
          <5> QED
            BY <4>2, <5>1 DEF AtCall
        <4> QED
          BY <2>5, <3>2, <4>1, <4>2
      <3>3. CASE i = Len(strats) + 1
        BY <2>5, <2>8, <2>10, <3>3 DEF AtCall
      <3> QED
        BY <2>5, <3>2, <3>3
    <2>13. Len(strats') <= MaxStrats
      BY <2>1, <2>5, <2>6, StrategiesAssumption
    <2> QED
      BY <2>1, <2>5, <2>6, <2>8, <2>9, <2>11, <2>12, <2>13, StratTyped, CallStepInv
  <1> QED
    BY <1>1, <1>2

\* The upload of a row goes on until the row has its three files, or is cut.
LEMMA FilesInv ==
  ASSUME StratInv, NEW c \in Calls, AddFile(c) \/ UploadCut(c)
  PROVE  StratInv'
  <1>0. /\ calls[c] \in Call /\ Apt(calls[c]) /\ calls[c].op = "upload" /\ calls[c].pc = "files"
        /\ ~calls[c].imp /\ strats \in Seq(Strategy)
    BY StratTyped DEF AddFile, UploadCut, AtCall, Apt
  <1>1. PICK i : i = calls[c].id
    OBVIOUS
  <1>2. i \in DOMAIN strats /\ strats[i] \in Strategy /\ strats[i].files \subseteq Kind
    BY <1>0, <1>1, StratTyped DEF Apt, Strategy
  <1>3. PICK e : e = IF AddFile(c) THEN [strats[i] EXCEPT !.files = @ \union {NextFile(strats[i].files)}]
                                   ELSE [strats[i] EXCEPT !.cut = TRUE]
    OBVIOUS
  <1>4. e \in Strategy
    <2>1. strats[i].files \union {NextFile(strats[i].files)} \subseteq Kind
      BY <1>2 DEF NextFile, Kind
    <2> QED
      BY <1>2, <1>3, <2>1 DEF Strategy
  <1>5. PICK q : q = IF e.files = Kind \/ e.cut THEN Quiet ELSE calls[c]
    OBVIOUS
  <1>6. /\ strats' = [strats EXCEPT ![i] = e] /\ UNCHANGED <<hooks, minted>>
        /\ AddFile(c) => calls' = IF e.files = Kind THEN [calls EXCEPT ![c] = Quiet] ELSE calls
        /\ ~AddFile(c) => calls' = [calls EXCEPT ![c] = Quiet] /\ e.cut
    <2>1. CASE AddFile(c)
      <3>1. e.files = strats[i].files \union {NextFile(strats[i].files)}
        BY <1>2, <1>3, <2>1 DEF Strategy
      <3> QED
        BY <1>1, <1>3, <2>1, <3>1 DEF AddFile, CallEnds
    <2>2. CASE ~AddFile(c)
      <3>1. UploadCut(c) /\ e = [strats[i] EXCEPT !.cut = TRUE]
        BY <1>3, <2>2
      <3>2. e.cut
        BY <1>2, <3>1 DEF Strategy
      <3> QED
        BY <1>1, <2>2, <3>1, <3>2 DEF UploadCut, CallEnds
    <2> QED
      BY <2>1, <2>2
  <1>7. /\ strats' \in Seq(Strategy) /\ Len(strats') = Len(strats) /\ DOMAIN strats' = DOMAIN strats
        /\ \A j \in DOMAIN strats : strats'[j] = IF j = i THEN e ELSE strats[j]
    <2>1. strats' \in Seq(Strategy) /\ Len(strats') = Len(strats) /\ DOMAIN strats' = DOMAIN strats
      BY <1>0, <1>4, <1>6, RowSet
    <2>2. \A j \in DOMAIN strats : strats'[j] = IF j = i THEN e ELSE strats[j]
      BY <1>6
    <2> QED
      BY <2>1, <2>2
  <1>8. PICK k : k = calls'[c]
    OBVIOUS
  <1>9. /\ k \in {Quiet, calls[c]} /\ calls' = [calls EXCEPT ![c] = k]
        /\ k = calls[c] \/ e.files = Kind \/ e.cut
        /\ \A d \in Calls : d # c => calls'[d] = calls[d]
    BY <1>6, <1>8 DEF StratInv, StratTypes
  <1>10. k \in Call /\ Apt(k)'
    <2>1. Apt(k)
      BY <1>0, <1>9, QuietTyped
    <2> QED
      BY <1>0, <1>7, <1>9, <2>1, QuietTyped DEF Apt
  <1>11. UploadsWhole'
    <2>1. SUFFICES ASSUME NEW j \in DOMAIN strats
                   PROVE  \/ strats'[j].files = Kind \/ strats'[j].cut
                          \/ \E d \in Calls : AtCall(d, "upload", "files")' /\ calls'[d].id = j
      BY <1>7 DEF UploadsWhole
    <2>2. CASE j = i
      BY <1>0, <1>1, <1>7, <1>8, <1>9, <2>2 DEF AtCall
    <2>3. CASE j # i
      <3>1. \/ strats[j].files = Kind \/ strats[j].cut
            \/ \E d \in Calls : AtCall(d, "upload", "files") /\ calls[d].id = j
        BY DEF StratInv, UploadsWhole
      <3>2. ASSUME NEW d \in Calls, AtCall(d, "upload", "files"), calls[d].id = j
            PROVE  AtCall(d, "upload", "files")' /\ calls'[d].id = j
        <4>1. calls'[d] = calls[d]
          BY <1>1, <1>9, <2>3, <3>2
        <4> QED
          BY <3>2, <4>1 DEF AtCall
      <3> QED
        BY <1>7, <2>3, <3>1, <3>2
    <2> QED
      BY <2>2, <2>3
  <1> QED
    BY <1>6, <1>7, <1>9, <1>10, <1>11, StratTyped, CallStepInv

LEMMA RowsSeeded ==
  ASSUME StratInv, UNCHANGED <<hooks, minted, calls>>, strats' \in Seq(Strategy), Len(strats') <= MaxStrats,
         DOMAIN strats \subseteq DOMAIN strats',
         \A i \in DOMAIN strats' :
            strats'[i].files = Kind \/ (i \in DOMAIN strats /\ strats'[i] = strats[i])
  PROVE  StratInv'
  <1>1. UploadsWhole'
    BY DEF StratInv, UploadsWhole, AtCall
  <1>2. StratTypes' /\ \A c \in Calls : Apt(calls[c])'
    BY DEF StratInv, StratTypes, Apt
  <1> QED
    BY <1>1, <1>2 DEF StratInv

LEMMA SeedInv ==
  ASSUME StratInv, NEW f \in Folders, Seed(f)
  PROVE  StratInv'
  <1> DEFINE same == {i \in DOMAIN strats : strats[i].system /\ strats[i].slug = f.slug}
  <1>0. strats \in Seq(Strategy) /\ Len(strats) \in Nat /\ Len(strats) <= MaxStrats /\ MaxStrats \in Nat
        /\ DOMAIN strats = 1..Len(strats) /\ \A i \in DOMAIN strats : strats[i] \in Strategy
    BY StratTyped
  <1>1. PICK e : e = [NoRow EXCEPT !.system = TRUE, !.slug = f.slug, !.is_enabled = TRUE, !.files = Kind]
    OBVIOUS
  <1>2. e \in Strategy /\ e.files = Kind
    BY <1>1, QuietTyped, StrategiesAssumption DEF NoRow, Strategy
  <1>3. CASE Len(strats) < MaxStrats /\ strats' = Append(strats, e)
    <2>1. PICK t : t = Append(strats, e)
      OBVIOUS
    <2>2. /\ t \in Seq(Strategy) /\ Len(t) = Len(strats) + 1 /\ DOMAIN strats \subseteq DOMAIN t
          /\ \A i \in DOMAIN t : IF i \in DOMAIN strats THEN t[i] = strats[i] ELSE t[i] = e
      BY <1>0, <1>2, <2>1, Appended
    <2>3. strats' = t /\ Len(t) <= MaxStrats
      BY <1>0, <1>3, <2>1, <2>2
    <2> QED
      BY <1>2, <2>2, <2>3, RowsSeeded DEF Seed
  <1>4. CASE strats' = [i \in DOMAIN strats |-> IF i \in same THEN [strats[i] EXCEPT !.files = Kind] ELSE strats[i]]
    <2>1. \A i \in DOMAIN strats : [strats[i] EXCEPT !.files = Kind] \in Strategy
                                   /\ [strats[i] EXCEPT !.files = Kind].files = Kind
      BY <1>0 DEF Strategy
    <2>2. DOMAIN strats' = DOMAIN strats /\ \A i \in DOMAIN strats : strats'[i] \in Strategy
          /\ (strats'[i].files = Kind \/ strats'[i] = strats[i])
      BY <1>0, <1>4, <2>1
    <2>3. strats' \in [1..Len(strats) -> Strategy]
      <3>1. strats' = [i \in 1..Len(strats) |-> strats'[i]]
        BY <1>0, <1>4
      <3> QED
        BY <1>0, <2>2, <3>1
    <2>4. strats' \in Seq(Strategy) /\ Len(strats') = Len(strats)
      BY <1>0, <2>3, IsSeqOf
    <2> QED
      BY <1>0, <2>2, <2>4, RowsSeeded DEF Seed
  <1> QED
    BY <1>1, <1>3, <1>4 DEF Seed

LEMMA StratInitInv == StratInit => StratInv
  <1> SUFFICES ASSUME StratInit PROVE StratInv
    OBVIOUS
  <1>0. MaxStrats \in Nat /\ MaxStrats >= 1
    BY StrategiesAssumption
  <1>1. PICK e : e = [NoRow EXCEPT !.slug = <<1, 1>>, !.is_enabled = TRUE, !.files = Kind]
    OBVIOUS
  <1>2. e \in Strategy /\ e.files = Kind
    <2>1. <<1, 1>> \in Seq(Nat)
      OBVIOUS
    <2> QED
      BY <1>1, <2>1, QuietTyped DEF NoRow, Strategy
  <1>3. strats = <<e>>
    BY <1>1 DEF StratInit
  <1>4. strats \in Seq(Strategy) /\ Len(strats) = 1 /\ DOMAIN strats = {1} /\ strats[1] = e
    BY <1>2, <1>3
  <1>5. StratTypes
    <2>1. \A i \in 1..MaxStrats : hooks[i].secret = 0
      BY DEF StratInit, NoConfig
    <2> QED
      BY <1>0, <1>4, <2>1, QuietTyped DEF StratInit, StratTypes
  <1>6. \A c \in Calls : Apt(calls[c])
    BY QuietTyped DEF StratInit
  <1>7. UploadsWhole
    BY <1>2, <1>4 DEF UploadsWhole
  <1> QED
    BY <1>5, <1>6, <1>7 DEF StratInv

LEMMA StratNextInv == StratInv /\ [CallNext]_stratVars => StratInv'
  <1> SUFFICES ASSUME StratInv, [CallNext]_stratVars PROVE StratInv'
    OBVIOUS
  <1>1. ASSUME NEW c \in Calls, NEW op \in callMix, NEW i \in DOMAIN strats, NEW imp \in BOOLEAN,
               OpenCall(c, op, i, imp)
        PROVE  StratInv'
    BY <1>1, OpenCallInv
  <1>2. ASSUME NEW c \in Calls, \/ \E on \in BOOLEAN : Patch(c, on)
                                \/ Delete(c) \/ FindConfig(c) \/ Mint(c) \/ AnswerCall(c) \/ rotate_secret(c)
                                \/ \E s \in Schemas : Put(c, s)
        PROVE  StratInv'
    BY <1>2, PatchInv, DeleteInv, FindConfigInv, MintInv, AnswerCallInv, RotateInv, PutInv
  <1>3. ASSUME NEW c \in Calls, CreateRow(c) \/ AddFile(c) \/ UploadCut(c) PROVE StratInv'
    BY <1>3, CreateRowInv, FilesInv
  <1>4. ASSUME NEW c \in Calls, NEW b \in Bundles, Upload(c, b) PROVE StratInv'
    BY <1>4, UploadInv
  <1>5. ASSUME NEW f \in Folders, Seed(f) PROVE StratInv'
    BY <1>5, SeedInv
  <1>6. CASE UNCHANGED stratVars
    BY <1>6 DEF stratVars, StratInv, StratTypes, Apt, UploadsWhole, AtCall
  <1>7. ASSUME NEW c \in Calls, NEW b \in Bundles, UploadRefused(c, b) PROVE StratInv'
    BY <1>6, <1>7 DEF UploadRefused
  <1> QED
    BY <1>1, <1>2, <1>3, <1>4, <1>5, <1>6, <1>7 DEF CallNext

-----------------------------------------------------------------------------
\* Where a secret moves, it moves to the one just minted.
LEMMA SecretsMove ==
  ASSUME StratInv, [CallNext]_stratVars, NEW i \in 1..MaxStrats, hooks'[i].secret # hooks[i].secret
  PROVE  minted' > minted /\ hooks'[i].secret = minted'
  <1>0. hooks \in [1..MaxStrats -> Config] /\ minted \in Nat /\ \A c \in Calls : calls[c] \in Call
    BY StratTyped
  <1>1. ASSUME NEW c \in Calls, Mint(c) PROVE minted' > minted /\ hooks'[i].secret = minted'
    <2>1. PICK new : new = [here |-> TRUE, secret |-> minted', version |-> 1, json_schema |-> 0]
      OBVIOUS
    <2>2. new.secret = minted'
      BY <2>1
    <2>3. minted' = minted + 1 /\ hooks' = [hooks EXCEPT ![calls[c].id] = new]
      BY <1>1, <2>1 DEF Mint, Fresh
    <2>4. hooks'[i] = new
      BY <1>0, <2>3
    <2> QED
      BY <1>0, <2>2, <2>3, <2>4
  <1>2. ASSUME NEW c \in Calls, rotate_secret(c) PROVE minted' > minted /\ hooks'[i].secret = minted'
    BY <1>0, <1>2 DEF rotate_secret, Fresh, Config
  <1>3. ASSUME NEW c \in Calls, NEW s \in Schemas, Put(c, s) PROVE FALSE
    BY <1>0, <1>3 DEF Put, Config
  <1>4. ~UNCHANGED hooks
    OBVIOUS
  <1>5. CallNext
    BY <1>4 DEF stratVars
  <1>6. \E c \in Calls : Mint(c) \/ rotate_secret(c) \/ \E s \in Schemas : Put(c, s)
    BY <1>4, <1>5 DEF CallNext, OpenCall, Patch, Delete, FindConfig, AnswerCall, Upload, UploadRefused, CreateRow,
                      AddFile, UploadCut, Seed, stratVars
  <1> QED
    BY <1>1, <1>2, <1>3, <1>6

\* The steps of an impersonating admin's request only look.
LEMMA ReadsMove ==
  ASSUME StratInv, [CallNext]_stratVars, NEW c \in Calls, calls[c].imp, calls'[c] # calls[c]
  PROVE  UNCHANGED <<strats, hooks, minted>>
  <1>0. calls \in [Calls -> Call] /\ calls[c].op = "show" /\ calls[c].pc \in {"idle", "config", "answer"}
    BY StratTyped DEF StratInv, StratTypes, Apt
  <1>1. CASE \E d \in Calls : \/ \E op \in callMix, i \in DOMAIN strats, imp \in BOOLEAN : OpenCall(d, op, i, imp)
                              \/ FindConfig(d) \/ AnswerCall(d)
                              \/ \E b \in Bundles : Upload(d, b) \/ UploadRefused(d, b)
    BY <1>1 DEF OpenCall, FindConfig, AnswerCall, Upload, UploadRefused, stratVars
  <1>2. ASSUME NEW d \in Calls, \/ \E on \in BOOLEAN : Patch(d, on)
                                \/ Delete(d) \/ Mint(d) \/ rotate_secret(d)
                                \/ \E s \in Schemas : Put(d, s)
                                \/ CreateRow(d) \/ AddFile(d) \/ UploadCut(d)
        PROVE  FALSE
    <2>1. d # c
      BY <1>0, <1>2 DEF Patch, Delete, Mint, rotate_secret, Put, CreateRow, AddFile, UploadCut, AtCall
    <2>2. calls' = calls \/ \E q : calls' = [calls EXCEPT ![d] = q]
      <3>1. CASE CallEnds(d)
        BY <3>1 DEF CallEnds
      <3>2. CASE Mint(d) /\ ~CallEnds(d)
        BY <3>2 DEF Mint
      <3>3. CASE CreateRow(d) /\ ~CallEnds(d)
        BY <3>3 DEF CreateRow
      <3> QED
        BY <1>2, <3>1, <3>2, <3>3 DEF Patch, Delete, rotate_secret, Put, AddFile, UploadCut
    <2> QED
      BY <1>0, <2>1, <2>2
  <1>3. CASE \E f \in Folders : Seed(f)
    BY <1>3 DEF Seed
  <1>4. CASE UNCHANGED stratVars
    BY <1>4 DEF stratVars
  <1> QED
    BY <1>1, <1>2, <1>3, <1>4 DEF CallNext

LEMMA StratHolds == StratInv => StratTypeOK /\ UploadsWhole
  <1> SUFFICES ASSUME StratInv PROVE StratTypeOK
    BY DEF StratInv
  <1>1. \A i \in 1..MaxStrats : hooks[i].secret \in 0..minted
    BY StratTyped DEF Config
  <1> QED
    BY <1>1, StratTyped DEF StratTypeOK

(* The gate of live trading *)

LEMMA LookTyped ==
  ASSUME GateTypeOK, NEW p \in Procs, NEW pc \in {"idle", "load", "keep", "share"}, NEW saw \in Override,
         LookGoes(p, pc, saw)
  PROVE  look' \in [Procs -> [pc : {"idle", "load", "keep", "share"}, saw : Override]]
  BY DEF GateTypeOK, LookGoes

LEMMA MemoryTyped ==
  ASSUME GateTypeOK, NEW p \in Procs, NEW v \in Cached, Remember(p, v)
  PROVE  memory' \in [Procs -> Cached]
  BY DEF GateTypeOK, Remember

LEMMA FailsTyped ==
  ASSUME GateTypeOK, MayFail \/ fails' = fails
  PROVE  fails' \in 0..MaxFails
  BY LiveGateAssumption DEF GateTypeOK, MayFail

LEMMA RedisTyped ==
  ASSUME GateTypeOK, NEW v \in Override, SetRedis(v)
  PROVE  redis' \in Cached /\ fails' \in 0..MaxFails
  BY FailsTyped DEF GateTypeOK, SetRedis, Cached

LEMMA GateNextInv == GateTypeOK /\ [GateNext]_gateVars => GateTypeOK'
  <1> SUFFICES ASSUME GateTypeOK, [GateNext]_gateVars PROVE GateTypeOK'
    OBVIOUS
  <1>0. /\ "none" \in Override /\ "none" \in Cached /\ "absent" \in Cached /\ Override \subseteq Cached
        /\ "on" \in Override /\ "off" \in Override
    BY DEF Override, Cached
  <1>1. ASSUME NEW p \in Procs, AskRedis(p) PROVE GateTypeOK'
    <2>1. CASE redis # "absent" /\ Remember(p, redis) /\ UNCHANGED <<look, fails>>
      <3>1. redis \in Cached
        BY DEF GateTypeOK
      <3> QED
        BY <1>1, <2>1, <3>1, MemoryTyped DEF AskRedis, GateTypeOK
    <2>2. CASE LookGoes(p, "load", "none") /\ UNCHANGED memory /\ (MayFail \/ fails' = fails)
      BY <1>0, <1>1, <2>2, LookTyped, FailsTyped DEF AskRedis, GateTypeOK
    <2> QED
      BY <1>1, <2>1, <2>2 DEF AskRedis
  <1>2. ASSUME NEW p \in Procs, LoadRow(p) PROVE GateTypeOK'
    <2>1. CASE LookGoes(p, "keep", row) /\ UNCHANGED <<memory, fails>>
      <3>1. row \in Override
        BY DEF GateTypeOK
      <3> QED
        BY <1>2, <2>1, <3>1, LookTyped DEF LoadRow, GateTypeOK
    <2>2. CASE MayFail /\ LookGoes(p, "idle", "none") /\ (UNCHANGED memory \/ Remember(p, "none"))
      <3>1. look' \in [Procs -> [pc : {"idle", "load", "keep", "share"}, saw : Override]]
        BY <1>0, <2>2, LookTyped
      <3>2. memory' \in [Procs -> Cached]
        BY <1>0, <2>2, MemoryTyped DEF GateTypeOK
      <3> QED
        BY <1>2, <2>2, <3>1, <3>2, FailsTyped DEF LoadRow, GateTypeOK
    <2> QED
      BY <1>2, <2>1, <2>2 DEF LoadRow
  <1>3. ASSUME NEW p \in Procs, KeepRow(p) \/ ShareFlip(p) PROVE GateTypeOK'
    <2>1. PICK v \in Override : v = look[p].saw
      BY DEF GateTypeOK
    <2>2. /\ SetRedis(v) /\ LookGoes(p, "idle", "none") /\ UNCHANGED <<env, row, flips>>
          /\ Remember(p, v) \/ Remember(p, "absent")
      BY <1>3, <2>1 DEF KeepRow, ShareFlip
    <2>3. redis' \in Cached /\ fails' \in 0..MaxFails
      BY <2>2, RedisTyped
    <2>4. memory' \in [Procs -> Cached]
      BY <1>0, <2>2, MemoryTyped
    <2>5. look' \in [Procs -> [pc : {"idle", "load", "keep", "share"}, saw : Override]]
      BY <1>0, <2>2, LookTyped
    <2> QED
      BY <2>2, <2>3, <2>4, <2>5 DEF GateTypeOK
  <1>4. ASSUME NEW p \in Procs, MemoryExpires(p) PROVE GateTypeOK'
    BY <1>0, <1>4, MemoryTyped DEF MemoryExpires, GateTypeOK
  <1>5. ASSUME NEW p \in Procs, NEW v \in {"on", "off"}, FlipRow(p, v) PROVE GateTypeOK'
    <2>1. look' \in [Procs -> [pc : {"idle", "load", "keep", "share"}, saw : Override]]
      BY <1>0, <1>5, LookTyped DEF FlipRow
    <2>2. flips' \in 0..MaxFlips
      BY <1>5, LiveGateAssumption DEF FlipRow, GateTypeOK
    <2> QED
      BY <1>0, <1>5, <2>1, <2>2 DEF FlipRow, GateTypeOK
  <1>6. CASE RedisExpires
    BY <1>0, <1>6 DEF RedisExpires, GateTypeOK
  <1>7. CASE UNCHANGED gateVars
    BY <1>7 DEF gateVars, GateTypeOK
  <1> QED
    BY <1>1, <1>2, <1>3, <1>4, <1>5, <1>6, <1>7 DEF GateNext, GateStep

LEMMA GateInitInv == GateInit => GateTypeOK
  BY LiveGateAssumption DEF GateInit, GateTypeOK, NoLook, Override, Cached

-----------------------------------------------------------------------------
(* Impersonation *)

LEMMA DeputyInitInv == DeputyInit => DeputyTypeOK
  BY DEF DeputyInit, DeputyTypeOK, NoVisit

\* One row changes, or none.
LEMMA DeputyRow ==
  ASSUME DeputyTypeOK, NEW i, NEW e, i \in DOMAIN deputies => e \in ImpersonationSession,
         deputies' = [deputies EXCEPT ![i] = e]
  PROVE  /\ deputies' \in Seq(ImpersonationSession) /\ DOMAIN deputies' = DOMAIN deputies
         /\ \A j \in DOMAIN deputies : deputies'[j] = IF j = i THEN e ELSE deputies[j]
  <1>1. /\ Len(deputies) \in Nat /\ DOMAIN deputies = 1..Len(deputies)
        /\ \A j \in DOMAIN deputies : deputies[j] \in ImpersonationSession
    BY ElementsOf DEF DeputyTypeOK
  <1>2. DOMAIN deputies' = DOMAIN deputies
        /\ \A j \in DOMAIN deputies : deputies'[j] = IF j = i THEN e ELSE deputies[j]
    BY <1>1
  <1>3. deputies' = [j \in 1..Len(deputies) |-> deputies'[j]]
    BY <1>1
  <1>4. deputies' \in [1..Len(deputies) -> ImpersonationSession]
    BY <1>1, <1>2, <1>3
  <1> QED
    BY <1>1, <1>2, <1>4, IsSeqOf

\* A session that is over stays over, and lets no request in.
Closed ==
    \A i \in Sessions : ~is_active(deputies[i]) =>
      /\ ~is_active(deputies'[i])
      /\ \A d \in Desks : visits[d].pc = "idle" => visits'[d].pc # "read" \/ visits'[d].of # i

LEMMA DeputyNextInv == DeputyTypeOK /\ [DeputyNext]_deputyVars => DeputyTypeOK' /\ Closed
  <1> SUFFICES ASSUME DeputyTypeOK, [DeputyNext]_deputyVars PROVE DeputyTypeOK' /\ Closed
    OBVIOUS
  <1>0. /\ deputies \in Seq(ImpersonationSession) /\ Sessions \subseteq Nat
        /\ visits \in [Desks -> [pc : {"idle", "stop", "read"}, of : Nat]] /\ target \in BOOLEAN
        /\ \A j \in Sessions : deputies[j] \in ImpersonationSession
    BY ElementsOf DEF DeputyTypeOK, Sessions
  <1>1. CASE start_session
    <2>1. PICK e : e = [ended |-> FALSE, expired |-> FALSE]
      OBVIOUS
    <2>2. PICK t : t = Append(deputies, e)
      OBVIOUS
    <2>3. e \in ImpersonationSession
      BY <2>1 DEF ImpersonationSession
    <2>4. t \in Seq(ImpersonationSession) /\ \A i \in Sessions : t[i] = deputies[i]
      <3>1. DOMAIN deputies \subseteq DOMAIN t
            /\ \A i \in DOMAIN t : IF i \in DOMAIN deputies THEN t[i] = deputies[i] ELSE t[i] = e
        BY <1>0, <2>2, <2>3, Appended
      <3>2. t \in Seq(ImpersonationSession)
        BY <1>0, <2>2, <2>3, Appended
      <3> QED
        BY <3>1, <3>2 DEF Sessions
    <2>5. deputies' = t /\ UNCHANGED <<target, visits>>
      BY <1>1, <2>1, <2>2 DEF start_session
    <2> QED
      BY <1>0, <2>4, <2>5 DEF DeputyTypeOK, Closed
  <1>2. ASSUME NEW i, NEW e \in ImpersonationSession, deputies' = [deputies EXCEPT ![i] = e], target' = target,
               i \in Sessions /\ ~is_active(deputies[i]) => ~is_active(e),
               \/ visits' = visits
               \/ \E d \in Desks : Leaves(d)
        PROVE  DeputyTypeOK' /\ Closed
    <2>1. /\ deputies' \in Seq(ImpersonationSession)
          /\ \A j \in Sessions : deputies'[j] = IF j = i THEN e ELSE deputies[j]
      BY <1>2, DeputyRow DEF Sessions
    <2>2. visits' \in [Desks -> [pc : {"idle", "stop", "read"}, of : Nat]]
          /\ \A d \in Desks : visits'[d] = visits[d] \/ visits'[d].pc = "idle"
      BY <1>0, <1>2 DEF Leaves, NoVisit
    <2>3. \A j \in Sessions : ~is_active(deputies[j]) => ~is_active(deputies'[j])
      BY <1>2, <2>1
    <2> QED
      BY <1>0, <1>2, <2>1, <2>2, <2>3 DEF DeputyTypeOK, Closed
  <1>3. ASSUME NEW i \in Sessions, ExpiresAt(i) PROVE DeputyTypeOK' /\ Closed
    <2>1. PICK e : e = [deputies[i] EXCEPT !.expired = TRUE]
      OBVIOUS
    <2>2. e \in ImpersonationSession /\ ~is_active(e)
      BY <1>0, <2>1 DEF ImpersonationSession, is_active
    <2> QED
      BY <1>2, <1>3, <2>1, <2>2 DEF ExpiresAt
  <1>4. ASSUME NEW d \in Desks, stop_session(d) PROVE DeputyTypeOK' /\ Closed
    <2>1. PICK i : i = visits[d].of
      OBVIOUS
    <2>2. PICK e : e = [deputies[i] EXCEPT !.ended = TRUE]
      OBVIOUS
    <2>3. CASE i \in Sessions
      <3>1. e \in ImpersonationSession /\ ~is_active(e)
        BY <1>0, <2>2, <2>3 DEF ImpersonationSession, is_active
      <3> QED
        BY <1>2, <1>4, <2>1, <2>2, <3>1 DEF stop_session
    <2>4. CASE i \notin Sessions
      <3>1. PICK k : k \in ImpersonationSession /\ ~is_active(k)
        <4>1. PICK k : k = [ended |-> TRUE, expired |-> TRUE]
          OBVIOUS
        <4>2. k \in ImpersonationSession /\ ~is_active(k)
          BY <4>1 DEF ImpersonationSession, is_active
        <4> QED
          BY <4>2
      <3>2. [deputies EXCEPT ![i] = e] = [deputies EXCEPT ![i] = k]
        BY <1>0, <2>4 DEF Sessions
      <3> QED
        BY <1>2, <1>4, <2>1, <2>2, <2>4, <3>1, <3>2 DEF stop_session
    <2> QED
      BY <2>3, <2>4
  <1>5. ASSUME NEW d \in Desks, NEW i \in Sessions, StopLooks(d, i) \/ authenticate(d, i)
        PROVE  DeputyTypeOK' /\ Closed
    <2>1. PICK pc \in {"stop", "read"} : /\ Visit(d, pc, i) /\ UNCHANGED <<target, deputies>>
                                         /\ pc = "read" => is_active(deputies[i])
      BY <1>5 DEF StopLooks, authenticate
    <2>2. PICK v : v = [pc |-> pc, of |-> i]
      OBVIOUS
    <2>3. v \in [pc : {"idle", "stop", "read"}, of : Nat] /\ v.pc = pc /\ v.of = i
      BY <1>0, <2>2
    <2>4. visits' = [visits EXCEPT ![d] = v]
      BY <2>1, <2>2 DEF Visit
    <2>5. visits' \in [Desks -> [pc : {"idle", "stop", "read"}, of : Nat]]
          /\ visits'[d] = v /\ \A c \in Desks : c # d => visits'[c] = visits[c]
      BY <1>0, <2>3, <2>4
    <2>6. ASSUME NEW j \in Sessions, ~is_active(deputies[j]), NEW c \in Desks, visits[c].pc = "idle"
          PROVE  visits'[c].pc # "read" \/ visits'[c].of # j
      BY <2>1, <2>3, <2>5, <2>6
    <2> QED
      BY <1>0, <2>1, <2>5, <2>6 DEF DeputyTypeOK, Closed
  <1>6. ASSUME UNCHANGED deputies, target' \in BOOLEAN, visits' = visits \/ \E d \in Desks : Leaves(d)
        PROVE  DeputyTypeOK' /\ Closed
    <2>1. visits' \in [Desks -> [pc : {"idle", "stop", "read"}, of : Nat]]
          /\ \A d \in Desks : visits'[d] = visits[d] \/ visits'[d].pc = "idle"
      BY <1>0, <1>6 DEF Leaves, NoVisit
    <2> QED
      BY <1>0, <1>6, <2>1 DEF DeputyTypeOK, Closed
  <1>7. CASE TargetSwitched \/ \E d \in Desks : has_permission(d)
    BY <1>0, <1>6, <1>7 DEF TargetSwitched, has_permission
  <1>8. CASE UNCHANGED deputyVars
    BY <1>0, <1>6, <1>8 DEF deputyVars
  <1> QED
    BY <1>1, <1>3, <1>4, <1>5, <1>7, <1>8 DEF DeputyNext

(* The TradeStation links *)

Tokens == [access : Nat, login : Nat, refresh : Nat]
TsPc == {"idle", "took", "exchange", "accounts", "retry", "link", "request", "save"}
OneCall == [pc : TsPc, tokens : Tokens, state : Nat, verifier : BOOLEAN,
            left : SUBSET TsAccounts, row : TsAccounts \union {0}]

TsTypes ==
    /\ rotates \in BOOLEAN /\ issued \in Nat
    /\ latest \in [Logins -> Nat] /\ link \in [TsAccounts -> Tokens]
    /\ covers \in [Logins -> SUBSET TsAccounts]
    /\ ts \in [TsCalls -> OneCall]

CallsBack(c) == ts[c].pc \in {"accounts", "retry", "link"}
Uses(c) == ts[c].pc \in {"request", "save"}
Holds(c) == CallsBack(c) \/ Uses(c)
LoginOf(c) == ts[c].tokens.login
Known(t) == t.login \in Logins /\ 1 <= t.refresh /\ t.refresh <= latest[t.login]

\* A callback exchanges the code of a login it was sent from.
StateKnown == \A c \in TsCalls : ts[c].pc \in {"took", "exchange"} => ts[c].state \in Logins

\* Whoever has tokens has them from the broker.
TokensKnown ==
    /\ \A n \in TsAccounts : link[n].login # 0 => Known(link[n])
    /\ \A c \in TsCalls : Holds(c) => Known(ts[c].tokens)

\* Tokens are in rows of their login only, and in none before the broker listed some.
Placed ==
    /\ \A g \in Logins : latest[g] = 0 => covers[g] = {}
    /\ \A n \in TsAccounts : link[n].login # 0 => n \in covers[link[n].login]
    /\ \A c \in TsCalls :
         /\ Uses(c) => ts[c].row \in TsAccounts /\ ts[c].row \in covers[LoginOf(c)]
         /\ ts[c].pc = "link" => ts[c].left \subseteq covers[LoginOf(c)] /\ ts[c].left # {}
         /\ ts[c].pc \in {"accounts", "retry"} => covers[LoginOf(c)] = {}

OneCallback == \A c, d \in TsCalls : CallsBack(c) /\ CallsBack(d) /\ LoginOf(c) = LoginOf(d) => c = d

\* The rows a callback has yet to write have no token of its login, nor has a call of theirs.
Unwritten ==
    \A c \in TsCalls : ts[c].pc = "link" =>
        \A m \in ts[c].left : /\ link[m].login # LoginOf(c)
                              /\ \A d \in TsCalls : Uses(d) /\ ts[d].row = m => LoginOf(d) # LoginOf(c)

OneRefresh == ~rotates => \A g \in Logins : latest[g] <= 1

\* What is about to be saved is accepted, and everyone else of that login has an older one.
FreshSave ==
    rotates => \A c \in TsCalls : ts[c].pc = "save" =>
        /\ Accepts(ts[c].tokens)
        /\ \A n \in TsAccounts : link[n].login = LoginOf(c) => link[n].refresh < ts[c].tokens.refresh
        /\ \A d \in TsCalls : d # c /\ Holds(d) /\ LoginOf(d) = LoginOf(c)
             => ts[d].tokens.refresh < ts[c].tokens.refresh

\* So is what a callback is about to store in the only row of the login, unless it has
\* refreshed and dropped what it got.
FreshLink ==
    rotates => \A c \in TsCalls :
        /\ ts[c].pc = "accounts" => Accepts(ts[c].tokens)
        /\ ts[c].pc = "retry" => LoginOf(c) \in strayed
        /\ ts[c].pc = "link" /\ LoginOf(c) \notin strayed /\ (\E n \in TsAccounts : covers[LoginOf(c)] = {n})
             => Accepts(ts[c].tokens)

\* In the only row of a login a token is only dead while the call that has the next one
\* has yet to save it.
DeadIsReplaced ==
    rotates => \A n \in TsAccounts :
        /\ link[n].login # 0 /\ covers[link[n].login] = {n} /\ link[n].login \notin strayed /\ ~Accepts(link[n])
        => \E c \in TsCalls : ts[c].pc = "save" /\ LoginOf(c) = link[n].login

TsInv ==
    /\ TsTypes /\ StateKnown /\ TokensKnown /\ Placed /\ OneCallback /\ Unwritten
    /\ OneRefresh /\ FreshSave /\ FreshLink /\ DeadIsReplaced

-----------------------------------------------------------------------------
LEMMA NoCallTyped == NoTsCall \in OneCall /\ NoTsCall.pc = "idle"
  BY DEF NoTsCall, Unlinked, TsPc, Tokens, OneCall

LEMMA TsInitInv == TsInit => TsInv
  <1> SUFFICES ASSUME TsInit PROVE TsInv
    OBVIOUS
  <1>1. TsTypes
    BY NoCallTyped DEF TsInit, TsTypes, Unlinked, Tokens
  <1>2. \A c \in TsCalls : ts[c].pc = "idle"
    BY NoCallTyped DEF TsInit
  <1>3. (\A n \in TsAccounts : link[n].login = 0) /\ (\A g \in Logins : latest[g] = 0 /\ covers[g] = {})
    BY DEF TsInit, Unlinked
  <1> QED
    BY <1>1, <1>2, <1>3
       DEF TsInv, StateKnown, TokensKnown, Placed, OneCallback, Unwritten, OneRefresh, FreshSave, FreshLink,
           DeadIsReplaced, Holds, CallsBack, Uses

\* What RowStaysUsable says of it.
LEMMA RowUsable == TsInv => RowStaysUsable
  <1> SUFFICES ASSUME TsInv PROVE RowStaysUsable
    OBVIOUS
  <1>1. ASSUME NEW n \in TsAccounts, link[n].login # 0, ~rotates PROVE Accepts(link[n])
    <2>1. Known(link[n]) /\ link[n] \in Tokens /\ latest[link[n].login] <= 1 /\ latest[link[n].login] \in Nat
      BY <1>1 DEF TsInv, TsTypes, TokensKnown, OneRefresh, Known
    <2> QED
      BY <1>1, <2>1 DEF Known, Accepts, Tokens
  <1>2. ASSUME NEW n \in TsAccounts, link[n].login # 0, rotates, covers[link[n].login] = {n},
               link[n].login \notin strayed, ~\E c \in TsCalls : ts[c].pc = "save" /\ LoginOf(c) = link[n].login
        PROVE  Accepts(link[n])
    BY <1>2 DEF TsInv, DeadIsReplaced
  <1> QED
    BY <1>1, <1>2 DEF RowStaysUsable, AtTs, LoginOf

LEMMA CallGoes ==
  ASSUME TsTypes, NEW c \in TsCalls, NEW k \in OneCall, TsGoes(c, k)
  PROVE  ts' \in [TsCalls -> OneCall] /\ ts'[c] = k /\ \A d \in TsCalls : d # c => ts'[d] = ts[d]
  BY DEF TsGoes, TsTypes

LEMMA InRange ==
  ASSUME TsInv
  PROVE  /\ 0 \notin Logins /\ Logins \subseteq Nat
         /\ \A c \in TsCalls : ts[c] \in OneCall /\ ts[c].tokens \in Tokens /\ LoginOf(c) \in Nat /\ ts[c].tokens.refresh \in Nat
         /\ \A c \in TsCalls : Holds(c) => LoginOf(c) \in Logins /\ latest[LoginOf(c)] \in Nat /\ 1 <= latest[LoginOf(c)]
                                           /\ 1 <= ts[c].tokens.refresh /\ ts[c].tokens.refresh <= latest[LoginOf(c)]
         /\ \A n \in TsAccounts : link[n] \in Tokens /\ link[n].login \in Nat /\ link[n].refresh \in Nat
         /\ \A n \in TsAccounts : link[n].login # 0 =>
              /\ link[n].login \in Logins /\ latest[link[n].login] \in Nat /\ 1 <= latest[link[n].login]
              /\ 1 <= link[n].refresh /\ link[n].refresh <= latest[link[n].login]
  <1>1. 0 \notin Logins /\ Logins \subseteq Nat
    BY TsLinkAssumption DEF Logins
  <1>2. \A c \in TsCalls : ts[c] \in OneCall /\ ts[c].tokens \in Tokens /\ LoginOf(c) \in Nat /\ ts[c].tokens.refresh \in Nat
    BY DEF TsInv, TsTypes, OneCall, Tokens, LoginOf
  <1>3. \A n \in TsAccounts : link[n] \in Tokens /\ link[n].login \in Nat /\ link[n].refresh \in Nat
    BY DEF TsInv, TsTypes, Tokens
  <1>4. \A g \in Logins : latest[g] \in Nat
    BY DEF TsInv, TsTypes
  <1>5. ASSUME NEW c \in TsCalls, Holds(c)
        PROVE  /\ LoginOf(c) \in Logins /\ latest[LoginOf(c)] \in Nat /\ 1 <= latest[LoginOf(c)]
               /\ 1 <= ts[c].tokens.refresh /\ ts[c].tokens.refresh <= latest[LoginOf(c)]
    BY <1>2, <1>4, <1>5 DEF TsInv, TokensKnown, Known, LoginOf
  <1>6. ASSUME NEW n \in TsAccounts, link[n].login # 0
        PROVE  /\ link[n].login \in Logins /\ latest[link[n].login] \in Nat /\ 1 <= latest[link[n].login]
               /\ 1 <= link[n].refresh /\ link[n].refresh <= latest[link[n].login]
    BY <1>3, <1>4, <1>6 DEF TsInv, TokensKnown, Known
  <1> QED
    BY <1>1, <1>2, <1>3, <1>5, <1>6

\* A call that has no tokens any more, or none yet; what it had to save has strayed.
LEMMA EmptyHanded ==
  ASSUME TsInv, NEW c \in TsCalls, NEW k \in OneCall, TsGoes(c, k), k.pc \in {"idle", "took", "exchange"},
         k.pc # "idle" => k.state \in Logins, UNCHANGED <<link, latest, rotates, issued, covers>>,
         strayed \subseteq strayed', ts[c].pc = "save" => LoginOf(c) \in strayed'
  PROVE  TsInv'
  <1>1. ts' \in [TsCalls -> OneCall] /\ ts'[c] = k /\ \A d \in TsCalls : d # c => ts'[d] = ts[d]
    BY CallGoes DEF TsInv
  <1>2. \A d \in TsCalls : Holds(d)' => d # c
    BY <1>1 DEF Holds, CallsBack, Uses
  <1>4. \A d \in TsCalls : Holds(d)' => ts'[d] = ts[d] /\ Holds(d)
    BY <1>1, <1>2 DEF Holds, CallsBack, Uses
  <1>5. TsTypes' /\ StateKnown'
    BY <1>1 DEF TsInv, TsTypes, StateKnown
  <1>6. TokensKnown'
    BY <1>4 DEF TsInv, TokensKnown, Known
  <1>7. Placed' /\ OneCallback' /\ OneRefresh'
    BY <1>4 DEF TsInv, Placed, OneCallback, OneRefresh, Holds, CallsBack, Uses, LoginOf
  <1>8. Unwritten'
    BY <1>4 DEF TsInv, Unwritten, Holds, CallsBack, Uses, LoginOf
  <1>9. FreshSave'
    BY <1>4 DEF TsInv, FreshSave, Holds, CallsBack, Uses, LoginOf, Accepts
  <1>10. FreshLink'
    BY <1>4 DEF TsInv, FreshLink, Holds, CallsBack, LoginOf, Accepts
  <1>11. DeadIsReplaced'
    <2>1. ASSUME NEW n \in TsAccounts, rotates, link[n].login # 0, covers[link[n].login] = {n},
                 link[n].login \notin strayed', ~Accepts(link[n])
          PROVE  \E e \in TsCalls : ts'[e].pc = "save" /\ ts'[e].tokens.login = link[n].login
      <3>1. PICK e \in TsCalls : ts[e].pc = "save" /\ LoginOf(e) = link[n].login
        BY <2>1 DEF TsInv, DeadIsReplaced
      <3> QED
        BY <1>1, <2>1, <3>1 DEF LoginOf
    <2> QED
      BY <2>1 DEF DeadIsReplaced, Accepts, LoginOf
  <1> QED
    BY <1>5, <1>6, <1>7, <1>8, <1>9, <1>10, <1>11 DEF TsInv

-----------------------------------------------------------------------------
\* The first token of a login, in nobody else's hands.
LEMMA ExchangeInv ==
  ASSUME TsInv, NEW c \in TsCalls, exchange_code_for_tokens(c)
  PROVE  TsInv'
  <1>0. ts[c].pc = "exchange" /\ UNCHANGED <<link, rotates, covers, strayed>>
    BY DEF exchange_code_for_tokens, AtTs, RestSame
  <1>1. CASE TsGoes(c, NoTsCall) /\ BrokerSame
    BY <1>0, <1>1, EmptyHanded, NoCallTyped DEF BrokerSame
  <1>2. CASE /\ latest[ts[c].state] = 0 /\ Issues(ts[c].state, 1)
             /\ TsGoes(c, [NoTsCall EXCEPT !.pc = "accounts",
                            !.tokens = [access |-> issued + 1, login |-> ts[c].state, refresh |-> 1]])
    <2>1. PICK a \in Nat : a = issued + 1
      BY DEF TsInv, TsTypes
    <2>2. PICK g \in Logins : g = ts[c].state
      BY <1>0 DEF TsInv, StateKnown
    <2>3. g \in Nat /\ g # 0
      BY <2>2, InRange
    <2>4. PICK t : t = [access |-> a, login |-> g, refresh |-> 1]
      OBVIOUS
    <2>5. t \in Tokens /\ t.login = g /\ t.refresh = 1
      BY <2>3, <2>4 DEF Tokens
    <2>6. PICK k : k = [NoTsCall EXCEPT !.pc = "accounts", !.tokens = t]
      OBVIOUS
    <2>7. k \in OneCall /\ k.pc = "accounts" /\ k.tokens = t
      BY <2>5, <2>6, NoCallTyped DEF NoTsCall, OneCall, TsPc
    <2>8. TsGoes(c, k)
      BY <1>2, <2>1, <2>2, <2>4, <2>6
    <2>9. ts' \in [TsCalls -> OneCall] /\ ts'[c] = k /\ \A d \in TsCalls : d # c => ts'[d] = ts[d]
      BY <2>7, <2>8, CallGoes DEF TsInv
    <2>10. latest[g] = 0 /\ issued' = a /\ latest' = [latest EXCEPT ![g] = 1]
      BY <1>2, <2>1, <2>2 DEF Issues
    <2>11. /\ latest' \in [Logins -> Nat] /\ latest'[g] = 1
           /\ \A h \in Logins : h # g => latest'[h] = latest[h]
      BY <2>10 DEF TsInv, TsTypes
    <2>12. TsTypes' /\ StateKnown'
      BY <1>0, <2>7, <2>9, <2>10, <2>11 DEF TsInv, TsTypes, StateKnown
    <2>13. /\ \A n \in TsAccounts : link[n].login # 0 => link[n].login # g /\ link[n].login \in Logins
           /\ \A d \in TsCalls : Holds(d) => LoginOf(d) # g /\ LoginOf(d) \in Logins
      BY <2>10, InRange
    <2>14. \A d \in TsCalls : d # c => /\ Holds(d)' <=> Holds(d)
                                       /\ CallsBack(d)' <=> CallsBack(d)
                                       /\ Uses(d)' <=> Uses(d)
      BY <2>9 DEF Holds, CallsBack, Uses
    <2>15. CallsBack(c)' /\ ~Uses(c)' /\ Holds(c)'
      BY <2>7, <2>9 DEF Holds, CallsBack, Uses
    <2>16. \A d \in TsCalls : d # c /\ Holds(d) =>
             /\ latest'[LoginOf(d)] = latest[LoginOf(d)] /\ LoginOf(d) # g
             /\ Accepts(ts[d].tokens) => Accepts(ts[d].tokens)'
      BY <2>9, <2>11, <2>13 DEF LoginOf, Accepts
    <2>17. \A n \in TsAccounts : link[n].login # 0 =>
             latest'[link[n].login] = latest[link[n].login] /\ (Accepts(link[n]) <=> Accepts(link[n])')
      BY <1>0, <2>11, <2>13 DEF Accepts
    <2>18. covers[g] = {}
      BY <2>10 DEF TsInv, Placed
    <2>19. TokensKnown'
      <3>1. \A n \in TsAccounts : link'[n].login # 0 => Known(link[n])'
        BY <1>0, <2>17 DEF TsInv, TokensKnown, Known
      <3>2. \A d \in TsCalls : d # c /\ Holds(d) => Known(ts[d].tokens)'
        BY <2>9, <2>16 DEF TsInv, TokensKnown, Known, LoginOf
      <3>3. Known(ts[c].tokens)'
        BY <2>5, <2>7, <2>9, <2>11 DEF Known
      <3> QED
        BY <2>14, <3>1, <3>2, <3>3 DEF TokensKnown
    <2>20. Placed'
      <3>1. \A h \in Logins : latest'[h] = 0 => covers[h] = {}
        BY <2>11 DEF TsInv, Placed
      <3>2. \A d \in TsCalls : d # c =>
               /\ Uses(d) => ts[d].row \in TsAccounts /\ ts[d].row \in covers[LoginOf(d)]
               /\ ts[d].pc = "link" => ts[d].left \subseteq covers[LoginOf(d)] /\ ts[d].left # {}
               /\ ts[d].pc \in {"accounts", "retry"} => covers[LoginOf(d)] = {}
        BY DEF TsInv, Placed
      <3>3. ASSUME NEW d \in TsCalls, d # c
            PROVE  /\ Uses(d)' => ts'[d].row \in TsAccounts /\ ts'[d].row \in covers[ts'[d].tokens.login]
                   /\ ts'[d].pc = "link" => ts'[d].left \subseteq covers[ts'[d].tokens.login] /\ ts'[d].left # {}
                   /\ ts'[d].pc \in {"accounts", "retry"} => covers[ts'[d].tokens.login] = {}
        BY <2>9, <2>14, <3>2, <3>3 DEF LoginOf
      <3>4. ts'[c].pc = "accounts" /\ covers[ts'[c].tokens.login] = {}
        BY <2>5, <2>7, <2>9, <2>18
      <3>5. \A n \in TsAccounts : link[n].login # 0 => n \in covers[link[n].login]
        BY DEF TsInv, Placed
      <3> QED
        BY <1>0, <2>15, <3>1, <3>3, <3>4, <3>5 DEF Placed, LoginOf
    <2>21. OneCallback'
      <3>1. \A d \in TsCalls : d # c /\ CallsBack(d) => LoginOf(d) # g
        BY <2>13 DEF Holds
      <3> QED
        BY <2>5, <2>7, <2>9, <2>14, <3>1 DEF TsInv, OneCallback, LoginOf
    <2>22. Unwritten'
      BY <1>0, <2>7, <2>9, <2>14, <2>15 DEF TsInv, Unwritten, LoginOf
    <2>23. OneRefresh'
      BY <1>0, <2>11 DEF TsInv, OneRefresh
    <2>24. FreshSave'
      <3>1. ASSUME rotates, NEW e \in TsCalls, ts'[e].pc = "save"
            PROVE  /\ e # c /\ ts'[e] = ts[e] /\ ts[e].pc = "save" /\ Accepts(ts[e].tokens)'
                   /\ LoginOf(e) # g
        <4>1. e # c
          BY <2>7, <2>9, <3>1
        <4>2. ts'[e] = ts[e] /\ ts[e].pc = "save" /\ Holds(e)
          BY <2>9, <3>1, <4>1 DEF Holds, Uses
        <4> QED
          BY <2>16, <3>1, <4>1, <4>2 DEF TsInv, FreshSave
      <3>2. ASSUME rotates, NEW e \in TsCalls, ts'[e].pc = "save", NEW n \in TsAccounts, link[n].login = LoginOf(e)
            PROVE  link[n].refresh < ts[e].tokens.refresh
        BY <3>1, <3>2 DEF TsInv, FreshSave
      <3>3. ASSUME rotates, NEW e \in TsCalls, ts'[e].pc = "save", NEW d \in TsCalls, d # e, Holds(d)',
                   ts'[d].tokens.login = LoginOf(e)
            PROVE  ts'[d].tokens.refresh < ts[e].tokens.refresh
        <4>1. d # c
          BY <2>5, <2>7, <2>9, <3>1, <3>3
        <4>2. ts'[d] = ts[d] /\ Holds(d)
          BY <2>9, <2>14, <3>3, <4>1
        <4> QED
          BY <3>1, <3>3, <4>2 DEF TsInv, FreshSave, LoginOf
      <3> QED
        BY <1>0, <3>1, <3>2, <3>3 DEF FreshSave, LoginOf
    <2>25. FreshLink'
      <3>1. Accepts(t)'
        BY <2>3, <2>5, <2>11 DEF Accepts
      <3>2. \A d \in TsCalls : d # c /\ rotates =>
               /\ ts[d].pc = "accounts" => Accepts(ts[d].tokens)'
               /\ ts[d].pc = "retry" => LoginOf(d) \in strayed
               /\ ts[d].pc = "link" /\ LoginOf(d) \notin strayed /\ (\E n \in TsAccounts : covers[LoginOf(d)] = {n})
                    => Accepts(ts[d].tokens)'
        BY <2>16 DEF TsInv, FreshLink, Holds, CallsBack
      <3> QED
        BY <1>0, <2>7, <2>9, <3>1, <3>2 DEF FreshLink, LoginOf, Accepts
    <2>26. DeadIsReplaced'
      BY <1>0, <2>9, <2>17 DEF TsInv, DeadIsReplaced, LoginOf
    <2> QED
      BY <2>12, <2>19, <2>20, <2>21, <2>22, <2>23, <2>24, <2>25, <2>26 DEF TsInv
  <1> QED
    BY <1>1, <1>2 DEF exchange_code_for_tokens

\* Until the accounts of a login are known, only its callback has its tokens.
LEMMA AccountsInv ==
  ASSUME TsInv, NEW c \in TsCalls, get_accounts(c)
  PROVE  TsInv'
  <1>0. ts[c].pc \in {"accounts", "retry"} /\ UNCHANGED <<link, rotates, strayed, issued, latest>>
    BY DEF get_accounts, AtTs, BrokerSame
  <1>1. CASE TsGoes(c, NoTsCall) /\ UNCHANGED covers
    BY <1>0, <1>1, EmptyHanded, NoCallTyped
  <1>2. ASSUME NEW ns \in (SUBSET TsAccounts) \ {{}}, TsGoes(c, [ts[c] EXCEPT !.pc = "link", !.left = ns]),
               covers' = [covers EXCEPT ![ts[c].tokens.login] = ns]
        PROVE  TsInv'
    <2>1. PICK g \in Logins : g = LoginOf(c)
      BY <1>0, InRange DEF Holds, CallsBack
    <2>2. PICK k : k = [ts[c] EXCEPT !.pc = "link", !.left = ns] /\ TsGoes(c, k)
      BY <1>2
    <2>3. ts[c] \in OneCall /\ g # 0
      BY <2>1, InRange
    <2>4. k \in OneCall /\ k.pc = "link" /\ k.left = ns /\ k.tokens = ts[c].tokens /\ ns # {}
      <3>1. ns \in SUBSET TsAccounts /\ ns # {} /\ "link" \in TsPc
        BY <1>2 DEF TsPc
      <3> QED
        BY <2>2, <2>3, <3>1 DEF OneCall
    <2>5. ts' \in [TsCalls -> OneCall] /\ ts'[c] = k /\ \A d \in TsCalls : d # c => ts'[d] = ts[d]
      BY <2>2, <2>4, CallGoes DEF TsInv
    <2>6. covers[g] = {}
      BY <1>0, <2>1 DEF TsInv, Placed
    <2>7. \A h \in Logins : covers'[h] = (IF h = g THEN ns ELSE covers[h])
      BY <1>2, <2>1, <2>6 DEF TsInv, TsTypes, LoginOf
    <2>8. /\ \A n \in TsAccounts : link[n].login # 0 => link[n].login # g /\ link[n].login \in Logins
          /\ \A d \in TsCalls : Uses(d) => LoginOf(d) # g /\ LoginOf(d) \in Logins
          /\ \A d \in TsCalls : CallsBack(d) /\ d # c => LoginOf(d) # g /\ LoginOf(d) \in Logins
      <3>1. CallsBack(c)
        BY <1>0 DEF CallsBack
      <3> QED
        BY <2>1, <2>6, <3>1, InRange DEF TsInv, Placed, OneCallback, Holds
    <2>9. \A d \in TsCalls : (Holds(d)' <=> Holds(d)) /\ (CallsBack(d)' <=> CallsBack(d)) /\ (Uses(d)' <=> Uses(d))
                             /\ ts'[d].tokens = ts[d].tokens /\ (d # c => ts'[d] = ts[d])
      BY <1>0, <2>4, <2>5 DEF Holds, CallsBack, Uses
    <2>10. TsTypes' /\ StateKnown'
      <3>1. covers' \in [Logins -> SUBSET TsAccounts]
        BY <1>2 DEF TsInv, TsTypes
      <3> QED
        BY <1>0, <2>4, <2>5, <3>1 DEF TsInv, TsTypes, StateKnown
    <2>11. TokensKnown' /\ OneRefresh'
      BY <1>0, <2>9 DEF TsInv, TokensKnown, Known, OneRefresh
    <2>12. Placed'
      <3>1. \A h \in Logins : latest'[h] = 0 => covers'[h] = {}
        <4>1. latest[g] # 0
          BY <1>0, <2>1, InRange DEF Holds, CallsBack
        <4> QED
          BY <1>0, <2>7, <4>1 DEF TsInv, Placed
      <3>2. \A n \in TsAccounts : link'[n].login # 0 => n \in covers'[link'[n].login]
        BY <1>0, <2>7, <2>8 DEF TsInv, Placed
      <3>3. ASSUME NEW d \in TsCalls, d # c
            PROVE  /\ Uses(d)' => ts'[d].row \in TsAccounts /\ ts'[d].row \in covers'[ts'[d].tokens.login]
                   /\ ts'[d].pc = "link" => ts'[d].left \subseteq covers'[ts'[d].tokens.login] /\ ts'[d].left # {}
                   /\ ts'[d].pc \in {"accounts", "retry"} => covers'[ts'[d].tokens.login] = {}
        <4>1. Holds(d) => covers'[LoginOf(d)] = covers[LoginOf(d)]
          BY <2>7, <2>8, <3>3 DEF Holds
        <4> QED
          BY <2>5, <2>9, <3>3, <4>1 DEF TsInv, Placed, LoginOf, Holds, Uses, CallsBack
      <3>4. ~Uses(c)' /\ ts'[c].left \subseteq covers'[ts'[c].tokens.login]
        BY <2>1, <2>4, <2>5, <2>7 DEF Uses, LoginOf
      <3> QED
        BY <2>4, <2>5, <3>1, <3>2, <3>3, <3>4 DEF Placed, LoginOf
    <2>13. OneCallback'
      BY <2>9 DEF TsInv, OneCallback, LoginOf
    <2>14. Unwritten'
      <3>1. ASSUME NEW m \in ns PROVE link[m].login # g /\ \A d \in TsCalls : Uses(d) => LoginOf(d) # g
        BY <1>2, <2>3, <2>8, <3>1
      <3>2. ASSUME NEW e \in TsCalls, e # c, ts[e].pc = "link", NEW m \in ts[e].left
            PROVE  link[m].login # LoginOf(e) /\ \A d \in TsCalls : Uses(d) /\ ts[d].row = m => LoginOf(d) # LoginOf(e)
        BY <3>2 DEF TsInv, Unwritten
      <3>3. \A d \in TsCalls : Uses(d)' => ts'[d] = ts[d] /\ Uses(d)
        BY <2>4, <2>5, <2>9 DEF Uses
      <3> QED
        BY <1>0, <2>1, <2>4, <2>5, <2>9, <3>1, <3>2, <3>3 DEF Unwritten, LoginOf
    <2>15. FreshSave'
      <3>1. \A d \in TsCalls : ts'[d].pc = "save" => ts'[d] = ts[d]
        BY <2>4, <2>5
      <3> QED
        BY <1>0, <2>9, <3>1 DEF TsInv, FreshSave, LoginOf, Accepts
    <2>16. FreshLink'
      <3>1. ASSUME rotates PROVE g \in strayed \/ Accepts(ts[c].tokens)
        BY <1>0, <2>1, <3>1 DEF TsInv, FreshLink
      <3>2. ASSUME NEW d \in TsCalls, d # c, ts[d].pc = "link" PROVE covers'[LoginOf(d)] = covers[LoginOf(d)]
        BY <2>7, <2>8, <3>2 DEF CallsBack
      <3> QED
        BY <1>0, <2>1, <2>4, <2>5, <2>9, <3>1, <3>2 DEF TsInv, FreshLink, LoginOf, Accepts
    <2>17. DeadIsReplaced'
      <3>1. \A n \in TsAccounts : link[n].login # 0 => covers'[link[n].login] = covers[link[n].login]
        BY <2>7, <2>8
      <3>2. \A d \in TsCalls : ts[d].pc = "save" => ts'[d] = ts[d]
        BY <1>0, <2>5
      <3> QED
        BY <1>0, <3>1, <3>2 DEF TsInv, DeadIsReplaced, LoginOf, Accepts
    <2> QED
      BY <2>10, <2>11, <2>12, <2>13, <2>14, <2>15, <2>16, <2>17 DEF TsInv
  <1> QED
    BY <1>1, <1>2 DEF get_accounts

\* A call starts with the tokens of its row.
LEMMA LinkCallInv ==
  ASSUME TsInv, NEW c \in TsCalls, NEW n \in TsAccounts, TsCall(c, n)
  PROVE  TsInv'
  <1>0. ts[c].pc = "idle" /\ link[n].login # 0 /\ UNCHANGED <<link, rotates, covers, strayed, issued, latest>>
    BY DEF TsCall, AtTs, BrokerSame, RestSame
  <1>1. PICK k : k = [NoTsCall EXCEPT !.pc = "request", !.tokens = link[n], !.row = n] /\ TsGoes(c, k)
    BY DEF TsCall
  <1>2. k \in OneCall /\ k.pc = "request" /\ k.tokens = link[n] /\ k.row = n
    BY <1>1, NoCallTyped DEF NoTsCall, TsPc, TsInv, TsTypes, OneCall
  <1>3. ts' \in [TsCalls -> OneCall] /\ ts'[c] = k /\ \A d \in TsCalls : d # c => ts'[d] = ts[d]
    BY <1>1, <1>2, CallGoes DEF TsInv
  <1>4. \A d \in TsCalls : d # c => (Holds(d)' <=> Holds(d)) /\ (CallsBack(d)' <=> CallsBack(d)) /\ (Uses(d)' <=> Uses(d))
    BY <1>3 DEF Holds, CallsBack, Uses
  <1>5. Uses(c)' /\ ~CallsBack(c)' /\ Holds(c)' /\ ~Holds(c)
    BY <1>0, <1>2, <1>3 DEF Holds, CallsBack, Uses
  <1>6. TsTypes' /\ StateKnown'
    BY <1>0, <1>2, <1>3 DEF TsInv, TsTypes, StateKnown
  <1>7. TokensKnown' /\ OneRefresh'
    BY <1>0, <1>2, <1>3, <1>4 DEF TsInv, TokensKnown, Known, OneRefresh
  <1>8. Placed'
    <2>1. n \in covers[link[n].login]
      BY <1>0 DEF TsInv, Placed
    <2>2. /\ Uses(c)' => ts'[c].row \in TsAccounts /\ ts'[c].row \in covers[ts'[c].tokens.login]
          /\ ts'[c].pc \notin {"link", "accounts", "retry"}
      BY <1>2, <1>3, <2>1
    <2>3. ASSUME NEW d \in TsCalls, d # c
          PROVE  /\ Uses(d)' => ts'[d].row \in TsAccounts /\ ts'[d].row \in covers[ts'[d].tokens.login]
                 /\ ts'[d].pc = "link" => ts'[d].left \subseteq covers[ts'[d].tokens.login] /\ ts'[d].left # {}
                 /\ ts'[d].pc \in {"accounts", "retry"} => covers[ts'[d].tokens.login] = {}
      BY <1>3, <1>4, <2>3 DEF TsInv, Placed, LoginOf
    <2>4. /\ \A g \in Logins : latest[g] = 0 => covers[g] = {}
          /\ \A m \in TsAccounts : link[m].login # 0 => m \in covers[link[m].login]
      BY DEF TsInv, Placed
    <2> QED
      BY <1>0, <2>2, <2>3, <2>4 DEF Placed, LoginOf
  <1>9. OneCallback'
    BY <1>3, <1>4, <1>5 DEF TsInv, OneCallback, LoginOf
  <1>10. Unwritten'
    <2>1. ASSUME NEW e \in TsCalls, ts'[e].pc = "link", NEW m \in ts'[e].left
          PROVE  /\ e # c /\ ts'[e] = ts[e] /\ link[m].login # LoginOf(e)
                 /\ \A d \in TsCalls : Uses(d) /\ ts[d].row = m => LoginOf(d) # LoginOf(e)
      BY <1>2, <1>3, <2>1 DEF TsInv, Unwritten
    <2> QED
      BY <1>0, <1>2, <1>3, <1>4, <2>1 DEF Unwritten, LoginOf
  <1>11. FreshSave'
    <2>1. ASSUME rotates, NEW e \in TsCalls, ts'[e].pc = "save"
          PROVE  /\ e # c /\ ts'[e] = ts[e] /\ Accepts(ts[e].tokens)
                 /\ \A m \in TsAccounts : link[m].login = LoginOf(e) => link[m].refresh < ts[e].tokens.refresh
                 /\ \A d \in TsCalls : d # e /\ Holds(d) /\ LoginOf(d) = LoginOf(e)
                      => ts[d].tokens.refresh < ts[e].tokens.refresh
      BY <1>2, <1>3, <2>1 DEF TsInv, FreshSave
    <2> QED
      BY <1>0, <1>2, <1>3, <1>4, <2>1 DEF FreshSave, LoginOf, Accepts
  <1>12. FreshLink'
    BY <1>0, <1>2, <1>3 DEF TsInv, FreshLink, LoginOf, Accepts
  <1>13. DeadIsReplaced'
    <2>1. \A d \in TsCalls : ts[d].pc = "save" => ts'[d] = ts[d]
      BY <1>0, <1>3
    <2> QED
      BY <1>0, <2>1 DEF TsInv, DeadIsReplaced, LoginOf, Accepts
  <1> QED
    BY <1>6, <1>7, <1>8, <1>9, <1>10, <1>11, <1>12, <1>13 DEF TsInv

\* A refresh: the new token is newer than any of its login in other hands, and nobody
\* who had one to save could have been overtaken.
LEMMA Renews ==
  ASSUME TsInv, NEW c \in TsCalls, NEW k \in OneCall, NEW g \in Logins, NEW m \in Nat, NEW r \in Nat,
         g = LoginOf(c), m = ts[c].tokens.refresh, r = IF rotates THEN m + 1 ELSE m,
         ts[c].pc \in {"request", "accounts"}, Accepts(ts[c].tokens),
         latest' = [latest EXCEPT ![g] = r], issued' \in Nat, TsGoes(c, k),
         UNCHANGED <<link, rotates, covers>>,
         \/ /\ ts[c].pc = "request" /\ k.pc = "save" /\ k.row = ts[c].row
            /\ k.tokens.login = g /\ k.tokens.refresh = r /\ strayed' = strayed
         \/ /\ ts[c].pc = "accounts" /\ k.pc = "retry" /\ k.tokens = ts[c].tokens
            /\ strayed' = strayed \union {g}
  PROVE  TsInv'
  <1>1. ts' \in [TsCalls -> OneCall] /\ ts'[c] = k /\ \A d \in TsCalls : d # c => ts'[d] = ts[d]
    BY CallGoes DEF TsInv
  <1>2. \A d \in TsCalls : /\ (Holds(d)' <=> Holds(d)) /\ (CallsBack(d)' <=> CallsBack(d)) /\ (Uses(d)' <=> Uses(d))
                           /\ LoginOf(d)' = LoginOf(d) /\ (Uses(d) => ts'[d].row = ts[d].row)
    BY <1>1 DEF Holds, CallsBack, Uses, LoginOf
  <1>3. Holds(c) /\ m = latest[g] /\ 1 <= m /\ g # 0
    BY InRange DEF Holds, CallsBack, Uses, Accepts, LoginOf
  <1>4. /\ latest' \in [Logins -> Nat] /\ latest'[g] = r
        /\ \A h \in Logins : h # g => latest'[h] = latest[h]
    BY DEF TsInv, TsTypes
  <1>5. m <= r /\ 1 <= r /\ (rotates => m < r) /\ (~rotates => r = m)
    BY <1>3
  <1>6. \A h \in Logins : latest[h] \in Nat /\ latest'[h] \in Nat /\ latest[h] <= latest'[h]
    BY <1>3, <1>4, <1>5 DEF TsInv, TsTypes
  <1>7. TsTypes' /\ StateKnown'
    BY <1>1, <1>4 DEF TsInv, TsTypes, StateKnown
  <1>8. TokensKnown'
    <2>1. ASSUME NEW t \in Tokens, Known(t) PROVE Known(t)'
      <3>1. t.refresh \in Nat
        BY DEF Tokens
      <3> QED
        BY <1>6, <2>1, <3>1 DEF Known
    <2>2. \A n \in TsAccounts : link'[n].login # 0 => Known(link[n])'
      BY <2>1, InRange DEF TsInv, TokensKnown
    <2>3. \A d \in TsCalls : d # c /\ Holds(d)' => Known(ts[d].tokens)'
      <3>1. ASSUME NEW d \in TsCalls, d # c, Holds(d)' PROVE Known(ts[d].tokens)'
        <4>1. PICK t \in Tokens : t = ts[d].tokens
          BY InRange
        <4>2. Known(t)
          BY <1>2, <3>1, <4>1 DEF TsInv, TokensKnown
        <4>3. Known(t)'
          BY <2>1, <4>2
        <4> QED
          BY <1>1, <3>1, <4>1, <4>3 DEF Known
      <3> QED
        BY <3>1
    <2>4. Known(ts[c].tokens)'
      <3>1. k.tokens.login = g /\ k.tokens.refresh \in {m, r}
        BY DEF LoginOf
      <3> QED
        BY <1>1, <1>3, <1>4, <1>5, <3>1 DEF Known
    <2> QED
      BY <2>2, <2>3, <2>4 DEF TokensKnown
  <1>9. Placed'
    <2>1. \A h \in Logins : latest'[h] = 0 => covers[h] = {}
      BY <1>3, <1>4, <1>5 DEF TsInv, Placed
    <2>2. \A d \in TsCalls : Uses(d)' => ts'[d].row \in TsAccounts /\ ts'[d].row \in covers[ts'[d].tokens.login]
      BY <1>2 DEF TsInv, Placed, LoginOf
    <2>3. \A d \in TsCalls : ts'[d].pc = "link" => ts'[d] = ts[d]
      BY <1>1
    <2>4. \A d \in TsCalls : ts'[d].pc \in {"accounts", "retry"} => ts[d].pc \in {"accounts", "retry"}
      BY <1>1
    <2> QED
      BY <1>2, <2>1, <2>2, <2>3, <2>4 DEF TsInv, Placed, LoginOf
  <1>10. OneCallback'
    BY <1>2 DEF TsInv, OneCallback
  <1>11. Unwritten'
    <2>1. \A d \in TsCalls : ts'[d].pc = "link" => ts'[d] = ts[d]
      BY <1>1
    <2> QED
      BY <1>2, <2>1 DEF TsInv, Unwritten
  <1>12. OneRefresh'
    BY <1>3, <1>4, <1>5 DEF TsInv, OneRefresh
  <1>13. ASSUME rotates, NEW e \in TsCalls, e # c, ts[e].pc = "save" PROVE LoginOf(e) \in Logins /\ LoginOf(e) # g
    <2>1. Holds(e) /\ LoginOf(e) \in Logins /\ ts[e].tokens.refresh <= latest[LoginOf(e)] /\ ts[e].tokens.refresh \in Nat
      BY <1>13, InRange DEF Holds, Uses
    <2>2. LoginOf(e) = g => m < ts[e].tokens.refresh
      BY <1>3, <1>13 DEF TsInv, FreshSave
    <2> QED
      BY <1>3, <2>1, <2>2
  <1>14. FreshSave'
    <2>1. ASSUME rotates, NEW e \in TsCalls, e # c, ts'[e].pc = "save"
          PROVE  /\ Accepts(ts[e].tokens)'
                 /\ \A n \in TsAccounts : link'[n].login = LoginOf(e)' => link'[n].refresh < ts'[e].tokens.refresh
                 /\ \A d \in TsCalls : d # e /\ Holds(d)' /\ LoginOf(d)' = LoginOf(e)'
                      => ts'[d].tokens.refresh < ts'[e].tokens.refresh
      <3>1. ts'[e] = ts[e] /\ ts[e].pc = "save" /\ LoginOf(e) \in Logins /\ LoginOf(e) # g
        BY <1>1, <1>13, <2>1
      <3>2. Accepts(ts[e].tokens)'
        BY <1>4, <2>1, <3>1 DEF TsInv, FreshSave, Accepts, LoginOf
      <3>3. \A d \in TsCalls : d # e /\ Holds(d)' /\ LoginOf(d)' = LoginOf(e)' => d # c /\ ts'[d] = ts[d] /\ Holds(d)
        BY <1>1, <1>2, <3>1
      <3> QED
        BY <1>2, <2>1, <3>1, <3>2, <3>3 DEF TsInv, FreshSave
    <2>2. ASSUME rotates, k.pc = "save"
          PROVE  /\ Accepts(ts[c].tokens)'
                 /\ \A n \in TsAccounts : link'[n].login = LoginOf(c)' => link'[n].refresh < ts'[c].tokens.refresh
                 /\ \A d \in TsCalls : d # c /\ Holds(d)' /\ LoginOf(d)' = LoginOf(c)'
                      => ts'[d].tokens.refresh < ts'[c].tokens.refresh
      <3>1. ts'[c].tokens.login = g /\ ts'[c].tokens.refresh = r
        BY <1>1, <2>2
      <3>2. Accepts(ts[c].tokens)'
        BY <1>3, <1>4, <3>1 DEF Accepts
      <3>3. ASSUME NEW n \in TsAccounts, link[n].login = g PROVE link[n].refresh < r
        <4>1. link[n].refresh <= latest[g] /\ link[n].refresh \in Nat
          BY <1>3, <3>3, InRange
        <4> QED
          BY <1>3, <1>5, <2>2, <4>1
      <3>4. ASSUME NEW d \in TsCalls, d # c, Holds(d), LoginOf(d) = g PROVE ts'[d].tokens.refresh < r
        <4>1. ts[d].tokens.refresh <= latest[g] /\ ts[d].tokens.refresh \in Nat /\ ts'[d] = ts[d]
          BY <1>1, <3>4, InRange
        <4> QED
          BY <1>3, <1>5, <2>2, <4>1
      <3> QED
        BY <1>2, <3>1, <3>2, <3>3, <3>4
    <2> QED
      BY <1>1, <2>1, <2>2 DEF FreshSave
  <1>15. FreshLink'
    <2>1. ASSUME rotates, NEW d \in TsCalls, d # c, ts[d].pc \in {"accounts", "link"}, Accepts(ts[d].tokens), LoginOf(d) # g
          PROVE  Accepts(ts[d].tokens)'
      <3>1. LoginOf(d) \in Logins /\ ts'[d] = ts[d]
        BY <1>1, <2>1, InRange DEF Holds, CallsBack
      <3> QED
        BY <1>4, <2>1, <3>1 DEF Accepts, LoginOf
    <2>2. ASSUME rotates, NEW d \in TsCalls, d # c, ts[d].pc = "accounts" PROVE LoginOf(d) # g
      <3>1. covers[LoginOf(d)] = {} /\ CallsBack(d)
        BY <2>2 DEF TsInv, Placed, CallsBack
      <3>2. CASE ts[c].pc = "request"
        BY <3>1, <3>2 DEF TsInv, Placed, Uses
      <3>3. CASE ts[c].pc = "accounts"
        BY <2>2, <3>1, <3>3 DEF TsInv, OneCallback, CallsBack
      <3> QED
        BY <3>2, <3>3
    <2>3. ASSUME rotates, NEW d \in TsCalls, d # c, ts[d].pc = "link", NEW n \in TsAccounts, covers[LoginOf(d)] = {n}
          PROVE  LoginOf(d) # g
      <3>1. n \in ts[d].left
        BY <2>3 DEF TsInv, Placed
      <3>2. CASE ts[c].pc = "request"
        <4>1. LoginOf(d) = g => ts[c].row = n
          BY <2>3, <3>2 DEF TsInv, Placed, Uses
        <4> QED
          BY <2>3, <3>1, <3>2, <4>1 DEF TsInv, Unwritten, Uses
      <3>3. CASE ts[c].pc = "accounts"
        BY <2>3, <3>3 DEF TsInv, OneCallback, CallsBack
      <3> QED
        BY <3>2, <3>3
    <2>4. ASSUME rotates, NEW d \in TsCalls, d # c
          PROVE  /\ ts[d].pc = "accounts" => Accepts(ts[d].tokens)'
                 /\ ts[d].pc = "retry" => LoginOf(d) \in strayed'
                 /\ ts[d].pc = "link" /\ LoginOf(d) \notin strayed' /\ (\E n \in TsAccounts : covers[LoginOf(d)] = {n})
                      => Accepts(ts[d].tokens)'
      <3>1. strayed \subseteq strayed'
        OBVIOUS
      <3>2. ts[d].pc = "accounts" => Accepts(ts[d].tokens)
        BY <2>4 DEF TsInv, FreshLink
      <3>3. ts[d].pc = "retry" => LoginOf(d) \in strayed
        BY <2>4 DEF TsInv, FreshLink
      <3>4. ts[d].pc = "link" /\ LoginOf(d) \notin strayed /\ (\E n \in TsAccounts : covers[LoginOf(d)] = {n})
              => Accepts(ts[d].tokens)
        BY <2>4 DEF TsInv, FreshLink
      <3> QED
        BY <2>1, <2>2, <2>3, <2>4, <3>1, <3>2, <3>3, <3>4
    <2>5. k.pc = "retry" => g \in strayed'
      OBVIOUS
    <2> QED
      BY <1>1, <1>2, <2>4, <2>5 DEF FreshLink
  <1>16. DeadIsReplaced'
    <2>1. ASSUME rotates, NEW n \in TsAccounts, link[n].login # 0, covers[link[n].login] = {n},
                 link[n].login \notin strayed', ~Accepts(link[n])'
          PROVE  \E e \in TsCalls : ts'[e].pc = "save" /\ LoginOf(e)' = link[n].login
      <3>1. CASE link[n].login = g
        <4>1. k.pc = "save"
          BY <2>1, <3>1
        <4> QED
          BY <1>1, <1>2, <3>1, <4>1
      <3>2. CASE link[n].login # g
        <4>1. link[n].login \in Logins /\ link[n].login \notin strayed
          BY <2>1, InRange
        <4>2. ~Accepts(link[n])
          BY <1>4, <2>1, <3>2, <4>1 DEF Accepts
        <4>3. PICK e \in TsCalls : ts[e].pc = "save" /\ LoginOf(e) = link[n].login
          BY <2>1, <4>1, <4>2 DEF TsInv, DeadIsReplaced
        <4>4. e # c
          BY <4>3
        <4> QED
          BY <1>1, <1>2, <4>3, <4>4
      <3> QED
        BY <3>1, <3>2
    <2> QED
      BY <2>1 DEF DeadIsReplaced
  <1> QED
    BY <1>7, <1>8, <1>9, <1>10, <1>11, <1>12, <1>14, <1>15, <1>16 DEF TsInv

LEMMA RefreshInv ==
  ASSUME TsInv, NEW c \in TsCalls, refresh(c)
  PROVE  TsInv'
  <1>0. ts[c].pc = "request" /\ UNCHANGED <<link, rotates, covers, strayed>>
    BY DEF refresh, AtTs, RestSame
  <1>1. CASE TsGoes(c, NoTsCall) /\ BrokerSame
    BY <1>0, <1>1, EmptyHanded, NoCallTyped DEF BrokerSame
  <1>2. CASE /\ Accepts(ts[c].tokens) /\ Issues(ts[c].tokens.login, Refreshed(ts[c].tokens))
             /\ TsGoes(c, [ts[c] EXCEPT !.pc = "save", !.tokens =
                  [access |-> issued + 1, login |-> ts[c].tokens.login, refresh |-> Refreshed(ts[c].tokens)]])
    <2>1. PICK g \in Logins : g = LoginOf(c)
      BY <1>0, InRange DEF Holds, Uses
    <2>2. PICK m \in Nat : m = ts[c].tokens.refresh
      BY InRange
    <2>3. PICK r \in Nat : r = IF rotates THEN m + 1 ELSE m
      OBVIOUS
    <2>4. r = Refreshed(ts[c].tokens)
      BY <2>2, <2>3 DEF Refreshed
    <2>5. PICK a \in Nat : a = issued + 1
      BY DEF TsInv, TsTypes
    <2>6. PICK t : t = [access |-> a, login |-> g, refresh |-> r]
      OBVIOUS
    <2>7. t \in Tokens /\ t.login = g /\ t.refresh = r
      BY <2>6, InRange DEF Tokens
    <2>8. PICK k : k = [ts[c] EXCEPT !.pc = "save", !.tokens = t]
      OBVIOUS
    <2>9. k \in OneCall /\ k.pc = "save" /\ k.tokens = t /\ k.row = ts[c].row
      <3>1. ts[c] \in OneCall
        BY InRange
      <3> QED
        BY <2>7, <2>8, <3>1 DEF OneCall, TsPc
    <2>10. TsGoes(c, k)
      BY <1>2, <2>1, <2>4, <2>5, <2>6, <2>8 DEF LoginOf
    <2>11. latest' = [latest EXCEPT ![g] = r] /\ issued' \in Nat
      BY <1>2, <2>1, <2>4, <2>5 DEF Issues, LoginOf
    <2> QED
      BY <1>0, <1>2, <2>1, <2>2, <2>3, <2>7, <2>9, <2>10, <2>11, Renews
  <1> QED
    BY <1>1, <1>2 DEF refresh

LEMMA CallbackRefreshInv ==
  ASSUME TsInv, NEW c \in TsCalls, CallbackRefreshes(c)
  PROVE  TsInv'
  <1>0. ts[c].pc = "accounts" /\ UNCHANGED <<link, rotates, covers>>
    BY DEF CallbackRefreshes, AtTs
  <1>1. CASE TsGoes(c, NoTsCall) /\ BrokerSame /\ UNCHANGED strayed
    BY <1>0, <1>1, EmptyHanded, NoCallTyped DEF BrokerSame
  <1>2. CASE /\ Accepts(ts[c].tokens) /\ Issues(ts[c].tokens.login, Refreshed(ts[c].tokens))
             /\ TsGoes(c, [ts[c] EXCEPT !.pc = "retry"])
             /\ strayed' = strayed \union {ts[c].tokens.login}
    <2>1. PICK g \in Logins : g = LoginOf(c)
      BY <1>0, InRange DEF Holds, CallsBack
    <2>2. PICK m \in Nat : m = ts[c].tokens.refresh
      BY InRange
    <2>3. PICK r \in Nat : r = IF rotates THEN m + 1 ELSE m
      OBVIOUS
    <2>4. r = Refreshed(ts[c].tokens)
      BY <2>2, <2>3 DEF Refreshed
    <2>5. PICK k : k = [ts[c] EXCEPT !.pc = "retry"] /\ TsGoes(c, k)
      BY <1>2
    <2>6. k \in OneCall /\ k.pc = "retry" /\ k.tokens = ts[c].tokens
      <3>1. ts[c] \in OneCall
        BY InRange
      <3> QED
        BY <2>5, <3>1 DEF OneCall, TsPc
    <2>7. latest' = [latest EXCEPT ![g] = r] /\ issued' \in Nat
      BY <1>2, <2>1, <2>4 DEF Issues, LoginOf, TsInv, TsTypes
    <2>8. strayed' = strayed \union {g}
      BY <1>2, <2>1 DEF LoginOf
    <2> QED
      BY <1>0, <1>2, <2>1, <2>2, <2>3, <2>5, <2>6, <2>7, <2>8, Renews
  <1> QED
    BY <1>1, <1>2 DEF CallbackRefreshes

-----------------------------------------------------------------------------
\* A row takes the tokens of a call that had them to store there.
LEMMA RowTakes ==
  ASSUME TsInv, NEW c \in TsCalls, NEW n \in TsAccounts, NEW k \in OneCall,
         link' = [link EXCEPT ![n] = ts[c].tokens], TsGoes(c, k),
         UNCHANGED <<latest, rotates, issued, covers, strayed>>,
         \/ ts[c].pc = "save" /\ n = ts[c].row /\ k.pc = "idle"
         \/ ts[c].pc = "link" /\ n \in ts[c].left /\ k.pc = "idle"
         \/ /\ ts[c].pc = "link" /\ n \in ts[c].left /\ k.pc = "link" /\ k.tokens = ts[c].tokens
            /\ k.left = ts[c].left \ {n} /\ k.left # {}
  PROVE  TsInv'
  <1>1. ts' \in [TsCalls -> OneCall] /\ ts'[c] = k /\ \A d \in TsCalls : d # c => ts'[d] = ts[d]
    BY CallGoes DEF TsInv
  <1>2. PICK t \in Tokens : t = ts[c].tokens
    BY InRange
  <1>3. PICK g \in Logins : g = LoginOf(c) /\ g = t.login
    BY <1>2, InRange DEF Holds, CallsBack, Uses, LoginOf
  <1>4. Holds(c) /\ n \in covers[g] /\ g # 0
    <2>1. Holds(c)
      BY DEF Holds, CallsBack, Uses
    <2>2. n \in covers[g]
      BY <1>3 DEF TsInv, Placed, Uses
    <2> QED
      BY <2>1, <2>2, InRange
  <1>5. link' \in [TsAccounts -> Tokens] /\ link'[n] = t /\ \A m \in TsAccounts : m # n => link'[m] = link[m]
    BY <1>2 DEF TsInv, TsTypes
  <1>6. \A d \in TsCalls : (Holds(d)' => Holds(d)) /\ (CallsBack(d)' => CallsBack(d)) /\ (Uses(d)' => Uses(d) /\ ts'[d] = ts[d])
                           /\ (Holds(d)' => ts'[d].tokens = ts[d].tokens /\ LoginOf(d)' = LoginOf(d))
                           /\ (ts'[d].pc = "save" => d # c)
    BY <1>1 DEF Holds, CallsBack, Uses, LoginOf
  <1>7. TsTypes' /\ StateKnown'
    BY <1>1, <1>5 DEF TsInv, TsTypes, StateKnown
  <1>8. TokensKnown'
    <2>1. Known(t)
      BY <1>2, <1>4 DEF TsInv, TokensKnown
    <2>2. \A m \in TsAccounts : link'[m].login # 0 => Known(link[m])'
      BY <1>5, <2>1 DEF TsInv, TokensKnown, Known
    <2>3. \A d \in TsCalls : Holds(d)' => Known(ts[d].tokens)'
      BY <1>6 DEF TsInv, TokensKnown, Known
    <2> QED
      BY <2>2, <2>3 DEF TokensKnown
  <1>9. Placed'
    <2>1. \A m \in TsAccounts : link'[m].login # 0 => m \in covers[link'[m].login]
      BY <1>3, <1>4, <1>5 DEF TsInv, Placed
    <2>2. ASSUME NEW d \in TsCalls
          PROVE  /\ Uses(d)' => ts'[d].row \in TsAccounts /\ ts'[d].row \in covers[LoginOf(d)']
                 /\ ts'[d].pc = "link" => ts'[d].left \subseteq covers[LoginOf(d)'] /\ ts'[d].left # {}
                 /\ ts'[d].pc \in {"accounts", "retry"} => covers[LoginOf(d)'] = {}
      <3>1. CASE d # c
        BY <1>1, <3>1 DEF TsInv, Placed, LoginOf, Uses
      <3>2. CASE d = c
        BY <1>1, <3>2 DEF TsInv, Placed, LoginOf, Uses
      <3> QED
        BY <3>1, <3>2
    <2> QED
      BY <2>1, <2>2 DEF TsInv, Placed
  <1>10. OneCallback' /\ OneRefresh'
    BY <1>6 DEF TsInv, OneCallback, OneRefresh, Holds
  <1>11. Unwritten'
    <2>1. ASSUME NEW e \in TsCalls, ts'[e].pc = "link", NEW m \in ts'[e].left
          PROVE  link'[m].login # LoginOf(e)' /\ \A d \in TsCalls : Uses(d)' /\ ts'[d].row = m => LoginOf(d)' # LoginOf(e)'
      <3>1. ts[e].pc = "link" /\ m \in ts[e].left /\ LoginOf(e)' = LoginOf(e) /\ (e = c => m # n)
        BY <1>1, <2>1 DEF LoginOf
      <3>2. link[m].login # LoginOf(e) /\ \A d \in TsCalls : Uses(d) /\ ts[d].row = m => LoginOf(d) # LoginOf(e)
        BY <3>1 DEF TsInv, Unwritten
      <3>3. \A d \in TsCalls : Uses(d)' /\ ts'[d].row = m => LoginOf(d)' # LoginOf(e)'
        BY <1>6, <3>1, <3>2 DEF Holds
      <3>4. CASE m # n
        <4>1. m \in TsAccounts
          BY <1>1, <2>1 DEF OneCall
        <4> QED
          BY <1>5, <3>1, <3>2, <3>3, <3>4, <4>1
      <3>5. CASE m = n
        <4>1. e # c /\ link'[m].login = g
          BY <1>3, <1>5, <3>1, <3>5
        <4>2. ts[c].pc = "save" => g # LoginOf(e)
          BY <1>3, <3>2, <3>5 DEF Uses
        <4>3. ts[c].pc = "link" => g # LoginOf(e)
          BY <1>3, <3>1, <4>1 DEF TsInv, OneCallback, CallsBack
        <4> QED
          BY <3>1, <3>3, <4>1, <4>2, <4>3
      <3> QED
        BY <3>4, <3>5
    <2> QED
      BY <2>1 DEF Unwritten
  <1>12. FreshSave'
    <2>1. ASSUME rotates, NEW e \in TsCalls, ts'[e].pc = "save"
          PROVE  /\ Accepts(ts[e].tokens)'
                 /\ \A m \in TsAccounts : link'[m].login = LoginOf(e)' => link'[m].refresh < ts'[e].tokens.refresh
                 /\ \A d \in TsCalls : d # e /\ Holds(d)' /\ LoginOf(d)' = LoginOf(e)'
                      => ts'[d].tokens.refresh < ts'[e].tokens.refresh
      <3>1. e # c /\ ts'[e] = ts[e] /\ ts[e].pc = "save"
        BY <1>1, <1>6, <2>1
      <3>2. /\ Accepts(ts[e].tokens)
            /\ \A m \in TsAccounts : link[m].login = LoginOf(e) => link[m].refresh < ts[e].tokens.refresh
            /\ \A d \in TsCalls : d # e /\ Holds(d) /\ LoginOf(d) = LoginOf(e)
                      => ts[d].tokens.refresh < ts[e].tokens.refresh
        BY <2>1, <3>1 DEF TsInv, FreshSave
      <3>3. LoginOf(e)' = LoginOf(e) /\ Accepts(ts[e].tokens)'
        BY <3>1, <3>2 DEF LoginOf, Accepts
      <3>4. g = LoginOf(e) => t.refresh < ts[e].tokens.refresh
        BY <1>2, <1>3, <1>4, <3>1, <3>2
      <3>5. \A m \in TsAccounts : link'[m].login = LoginOf(e) => link'[m].refresh < ts[e].tokens.refresh
        BY <1>3, <1>5, <3>2, <3>4
      <3>6. \A d \in TsCalls : d # e /\ Holds(d)' /\ LoginOf(d)' = LoginOf(e) => ts'[d].tokens.refresh < ts[e].tokens.refresh
        BY <1>6, <3>2
      <3> QED
        BY <3>1, <3>3, <3>5, <3>6
    <2> QED
      BY <2>1 DEF FreshSave
  <1>13. FreshLink'
    <2>1. \A d \in TsCalls : ts'[d].pc \in {"accounts", "retry", "link"} => ts[d].pc = ts'[d].pc /\ ts'[d].tokens = ts[d].tokens
      BY <1>1
    <2> QED
      BY <2>1 DEF TsInv, FreshLink, LoginOf, Accepts
  <1>14. DeadIsReplaced'
    <2>1. ASSUME rotates, NEW m \in TsAccounts, link'[m].login # 0, covers[link'[m].login] = {m},
                 link'[m].login \notin strayed, ~Accepts(link[m])'
          PROVE  \E e \in TsCalls : ts'[e].pc = "save" /\ LoginOf(e)' = link'[m].login
      <3>1. CASE m = n
        <4>1. link'[m] = t /\ covers[g] = {n} /\ g \notin strayed
          BY <1>3, <1>5, <2>1, <3>1
        <4>2. Accepts(ts[c].tokens)
          <5>1. CASE ts[c].pc = "save"
            BY <2>1, <5>1 DEF TsInv, FreshSave
          <5>2. CASE ts[c].pc = "link"
            BY <1>3, <2>1, <4>1, <5>2 DEF TsInv, FreshLink
          <5> QED
            BY <5>1, <5>2
        <4> QED
          BY <1>2, <2>1, <4>1, <4>2 DEF Accepts
      <3>2. CASE m # n
        <4>1. link'[m] = link[m] /\ link[m].login # g
          BY <1>4, <1>5, <2>1, <3>2
        <4>2. PICK e \in TsCalls : ts[e].pc = "save" /\ LoginOf(e) = link[m].login
          BY <2>1, <4>1 DEF TsInv, DeadIsReplaced, Accepts
        <4>3. e # c
          BY <1>3, <4>1, <4>2
        <4> QED
          BY <1>1, <4>1, <4>2, <4>3 DEF LoginOf
      <3> QED
        BY <3>1, <3>2
    <2> QED
      BY <2>1 DEF DeadIsReplaced
  <1> QED
    BY <1>7, <1>8, <1>9, <1>10, <1>11, <1>12, <1>13, <1>14 DEF TsInv

LEMMA StoresInv ==
  ASSUME TsInv, NEW c \in TsCalls, LinkAccount(c) \/ _persist_tokens(c)
  PROVE  TsInv'
  <1>0. ts[c] \in OneCall /\ UNCHANGED <<latest, rotates, issued, covers, strayed>>
    BY InRange DEF LinkAccount, _persist_tokens, BrokerSame, RestSame
  <1>1. CASE _persist_tokens(c)
    <2>1. ts[c].pc = "save" /\ link' = [link EXCEPT ![ts[c].row] = ts[c].tokens] /\ TsGoes(c, NoTsCall)
      BY <1>1 DEF _persist_tokens, AtTs
    <2>2. PICK n \in TsAccounts : n = ts[c].row
      BY <2>1 DEF TsInv, Placed, Uses
    <2> QED
      BY <1>0, <2>1, <2>2, NoCallTyped, RowTakes
  <1>2. CASE LinkAccount(c)
    <2>1. PICK n \in ts[c].left : /\ link' = [link EXCEPT ![n] = ts[c].tokens]
                                  /\ TsGoes(c, IF ts[c].left = {n} THEN NoTsCall ELSE [ts[c] EXCEPT !.left = ts[c].left \ {n}])
      BY <1>2 DEF LinkAccount
    <2>2. n \in TsAccounts /\ ts[c].pc = "link"
      BY <1>0, <1>2 DEF LinkAccount, AtTs, OneCall
    <2>3. CASE ts[c].left = {n}
      BY <1>0, <2>1, <2>2, <2>3, NoCallTyped, RowTakes
    <2>4. CASE ts[c].left # {n}
      <3>1. PICK k : k = [ts[c] EXCEPT !.left = ts[c].left \ {n}] /\ TsGoes(c, k)
        BY <2>1, <2>4
      <3>2. /\ k \in OneCall /\ k.pc = "link" /\ k.tokens = ts[c].tokens
            /\ k.left = ts[c].left \ {n} /\ k.left # {}
        BY <1>0, <2>2, <2>4, <3>1 DEF OneCall
      <3> QED
        BY <1>0, <2>1, <2>2, <3>1, <3>2, RowTakes
    <2> QED
      BY <2>3, <2>4
  <1> QED
    BY <1>1, <1>2

\* The callback before it has tokens, and calls that end.
LEMMA TakeInv ==
  ASSUME TsInv, NEW c \in TsCalls,
         \/ consume_verifier(c) \/ _request(c) \/ ProcessDies(c) \/ \E s \in Logins : consume_state(c, s)
  PROVE  TsInv'
  <1>0. ts[c] \in OneCall
    BY InRange
  <1>1. ASSUME NEW s \in Logins, consume_state(c, s) PROVE TsInv'
    <2>1. PICK k : k = [NoTsCall EXCEPT !.pc = "took", !.state = s] /\ TsGoes(c, k)
      BY <1>1 DEF consume_state
    <2>2. k \in OneCall /\ k.pc = "took" /\ k.state = s
      BY <2>1, NoCallTyped, InRange DEF NoTsCall, OneCall, TsPc
    <2>3. ts[c].pc = "idle" /\ UNCHANGED <<link, latest, rotates, issued, covers, strayed>>
      BY <1>1 DEF consume_state, AtTs, BrokerSame, RestSame
    <2> QED
      BY <2>1, <2>2, <2>3, EmptyHanded
  <1>2. CASE consume_verifier(c)
    <2>0. (ts[c].state \in pending.verifiers) \in BOOLEAN
      BY SMT
    <2>1. PICK v \in BOOLEAN : v = (ts[c].state \in pending.verifiers)
      BY <2>0, Zenon
    <2>2. PICK k : k = [ts[c] EXCEPT !.pc = "exchange", !.verifier = v] /\ TsGoes(c, k)
      BY <1>2, <2>1 DEF consume_verifier
    <2>3. k \in OneCall /\ k.pc = "exchange" /\ k.state = ts[c].state
      BY <1>0, <2>1, <2>2 DEF OneCall, TsPc
    <2>4. ts[c].pc = "took" /\ UNCHANGED <<link, latest, rotates, issued, covers, strayed>>
      BY <1>2 DEF consume_verifier, AtTs, BrokerSame, RestSame
    <2>5. k.state \in Logins
      BY <2>3, <2>4 DEF TsInv, StateKnown
    <2> QED
      BY <2>2, <2>3, <2>4, <2>5, EmptyHanded
  <1>3. CASE _request(c)
    BY <1>3, NoCallTyped, EmptyHanded DEF _request, AtTs, BrokerSame, RestSame
  <1>4. CASE ProcessDies(c)
    BY <1>4, NoCallTyped, EmptyHanded DEF ProcessDies, AtTs, BrokerSame, LoginOf
  <1> QED
    BY <1>1, <1>2, <1>3, <1>4

LEMMA TsNextInv == TsInv /\ [TsNext]_tsVars => TsInv'
  <1> SUFFICES ASSUME TsInv, [TsNext]_tsVars PROVE TsInv'
    OBVIOUS
  <1>1. CASE OAuthStart \/ AccessExpires \/ UNCHANGED tsVars
    <2>1. UNCHANGED <<link, rotates, issued, latest, ts, covers, strayed>>
      BY <1>1 DEF OAuthStart, AccessExpires, tsVars, BrokerSame, RestSame
    <2>2. TsTypes' /\ StateKnown' /\ TokensKnown' /\ Placed'
      BY <2>1 DEF TsInv, TsTypes, StateKnown, TokensKnown, Placed, Known, Holds, CallsBack, Uses, LoginOf
    <2>3. OneCallback' /\ Unwritten' /\ OneRefresh'
      BY <2>1 DEF TsInv, OneCallback, Unwritten, OneRefresh, CallsBack, Uses, LoginOf
    <2>4. FreshSave' /\ FreshLink' /\ DeadIsReplaced'
      BY <2>1 DEF TsInv, FreshSave, FreshLink, DeadIsReplaced, Holds, CallsBack, Uses, LoginOf, Accepts
    <2> QED
      BY <2>2, <2>3, <2>4 DEF TsInv
  <1>2. ASSUME NEW c \in TsCalls,
               \/ consume_verifier(c) \/ _request(c) \/ ProcessDies(c) \/ \E s \in Logins : consume_state(c, s)
        PROVE  TsInv'
    BY <1>2, TakeInv
  <1>3. ASSUME NEW c \in TsCalls, exchange_code_for_tokens(c) \/ get_accounts(c) PROVE TsInv'
    BY <1>3, ExchangeInv, AccountsInv
  <1>4. ASSUME NEW c \in TsCalls, refresh(c) \/ CallbackRefreshes(c) PROVE TsInv'
    BY <1>4, RefreshInv, CallbackRefreshInv
  <1>5. ASSUME NEW c \in TsCalls, LinkAccount(c) \/ _persist_tokens(c) PROVE TsInv'
    BY <1>5, StoresInv
  <1>6. ASSUME NEW c \in TsCalls, NEW n \in TsAccounts, TsCall(c, n) PROVE TsInv'
    BY <1>6, LinkCallInv
  <1> QED
    BY <1>1, <1>2, <1>3, <1>4, <1>5, <1>6 DEF TsNext

(* The streams *)

\* The sequence of a finite set has every element once.
LEMMA SetToSeqIs ==
  ASSUME NEW S, IsFiniteSet(S), NEW s, s = SetToSeq(S)
  PROVE  /\ s \in Seq(S) /\ Len(s) \in Nat /\ DOMAIN s = 1..Len(s)
         /\ \A i, j \in DOMAIN s : s[i] = s[j] => i = j
         /\ \A e \in S : \E i \in DOMAIN s : s[i] = e
  <1> DEFINE c == Cardinality(S)
  <1>1. c \in Nat /\ ExistsBijection(1..c, S)
    BY FS_CardinalityType
  <1>2. PICK g \in [1..c -> S] : IsInjective(g)
    BY <1>1 DEF ExistsBijection, Bijection, Injection, Surjection
  <1>3. s \in [1..c -> S] /\ IsInjective(s)
    BY <1>2 DEF SetToSeq
  <1>4. IsFiniteSet(1..c) /\ Cardinality(1..c) = c
    BY <1>1, FS_Interval
  <1>5. s \in Surjection(1..c, S)
    BY <1>3, <1>4, FS_Injection DEF Injection
  <1>6. s \in Seq(S) /\ Len(s) = c
    BY <1>1, <1>3
  <1> QED
    BY <1>1, <1>3, <1>5, <1>6 DEF IsInjective, Surjection

LEMMA Joined ==
  ASSUME NEW S, NEW a \in Seq(S), NEW b \in Seq(S), NEW ab, ab = a \o b
  PROVE  /\ ab \in Seq(S) /\ Len(ab) = Len(a) + Len(b) /\ DOMAIN ab = 1..(Len(a) + Len(b))
         /\ \A i \in 1..Len(a) : ab[i] = a[i]
         /\ \A i \in (Len(a) + 1)..(Len(a) + Len(b)) : ab[i] = b[i - Len(a)]
  <1>1. Len(a) \in Nat /\ Len(b) \in Nat
    OBVIOUS
  <1>2. ab \in Seq(S) /\ Len(ab) = Len(a) + Len(b) /\ DOMAIN ab = 1..(Len(a) + Len(b))
    OBVIOUS
  <1>3. \A i \in 1..Len(a) : ab[i] = a[i]
    OBVIOUS
  <1>4. ASSUME NEW i \in (Len(a) + 1)..(Len(a) + Len(b)) PROVE ab[i] = b[i - Len(a)]
    <2>1. i \in 1..(Len(a) + Len(b)) /\ ~(i <= Len(a))
      BY <1>1
    <2> QED
      BY <2>1
  <1> QED
    BY <1>2, <1>3, <1>4

Thread == [id : Streamed, pc : {"connecting", "up", "down", "ended"}, registered : BOOLEAN, stop : BOOLEAN]
Beat == {"NONE", "STALE", "DEGRADED", "CONNECTED"}
Shown(beat) == beat \in {"STALE", "CONNECTED"}

StreamTypes ==
    /\ active \subseteq Streamed /\ threads \in Seq(Thread) /\ hb \in [Streamed -> Beat]
    /\ sup \in [left : SUBSET Streamed, id : Streamed \union {0}, beat : Beat, over : BOOLEAN]
    /\ late \subseteq Streamed /\ turns \in Nat /\ mute \in Nat

\* The supervisor has one thread for an account, and told the others to stop.
ThreadsKnown(tt) ==
    /\ \A j, k \in DOMAIN tt : tt[j].id = tt[k].id /\ tt[j].registered /\ tt[k].registered => j = k
    /\ \A k \in DOMAIN tt : tt[k].registered \/ tt[k].stop

\* Something of the account is not waiting to reconnect, if it has threads: so it is when
\* its beat is, or would be once it is touched, one of a connection, be it in the cache or
\* in the hands of the supervisor.
Trying(n) == \E k \in DOMAIN threads : threads[k].id = n /\ threads[k].pc \in {"connecting", "up"}
Threaded(n) == \E k \in DOMAIN threads : threads[k].id = n
Tried(n) == Threaded(n) => Trying(n)
HbTried ==
    \A n \in Streamed \ late : mute = 0 =>
        /\ Shown(hb[n]) => Tried(n)
        /\ n = sup.id /\ ~sup.over /\ Shown(sup.beat) => Tried(n)

StreamsInv == StreamTypes /\ ThreadsKnown(threads) /\ HbTried

LEMMA RestingTyped ==
  Resting \in [left : SUBSET Streamed, id : Streamed \union {0}, beat : Beat, over : BOOLEAN] /\ Resting.id = 0
  BY DEF Resting, Beat

LEMMA StreamsInitInv == StreamsInit => StreamsInv
  <1> SUFFICES ASSUME StreamsInit PROVE StreamsInv
    OBVIOUS
  <1>1. threads = <<>> /\ DOMAIN threads = {} /\ 0 \notin Streamed
    BY StreamsAssumption DEF StreamsInit, Streamed
  <1>2. StreamTypes
    BY <1>1, RestingTyped DEF StreamsInit, StreamTypes, Beat
  <1> QED
    BY <1>1, <1>2 DEF StreamsInit, StreamsInv, ThreadsKnown, HbTried, Tried, Threaded

\* What OneStreamPerAccount and DownIsShown say of it.
LEMMA StreamsHold == StreamsInv => OneStreamPerAccount /\ DownIsShown
  <1> SUFFICES ASSUME StreamsInv PROVE OneStreamPerAccount /\ DownIsShown
    OBVIOUS
  <1>1. OneStreamPerAccount
    BY DEF StreamsInv, ThreadsKnown, OneStreamPerAccount
  <1>2. ASSUME NEW n \in Streamed \ late, mute = 0, Threaded(n), ~Trying(n) PROVE get_stream_status(n) # "CONNECTED"
    <2>1. ~Shown(hb[n])
      BY <1>2 DEF StreamsInv, HbTried, Tried
    <2> QED
      BY <2>1 DEF Shown, get_stream_status
  <1>3. DownIsShown
    BY <1>2 DEF DownIsShown, Threaded, Trying
  <1> QED
    BY <1>1, <1>3

-----------------------------------------------------------------------------
\* The threads: what is dropped is neither registered nor alive.
LEMMA ThreadsStay ==
  ASSUME NEW tt \in Seq(Thread), NEW kept, kept = KeepThreads(tt)
  PROVE  /\ kept \in Seq(Thread)
         /\ \A j \in DOMAIN kept : \E k \in DOMAIN tt : kept[j] = tt[k]
         /\ \A k \in DOMAIN tt : tt[k].registered \/ Alive(tt[k]) => \E j \in DOMAIN kept : kept[j] = tt[k]
         /\ ThreadsKnown(tt) => ThreadsKnown(kept)
  <1> DEFINE K == {k \in DOMAIN tt : tt[k].registered \/ Alive(tt[k])}
             s == SetToSeq(K)
  <1>1. Len(tt) \in Nat /\ DOMAIN tt = 1..Len(tt) /\ \A k \in DOMAIN tt : tt[k] \in Thread
    OBVIOUS
  <1>2. IsFiniteSet(K)
    <2>1. IsFiniteSet(1..Len(tt)) /\ K \subseteq 1..Len(tt)
      BY <1>1, FS_Interval
    <2> QED
      BY <2>1, FS_Subset
  <1>3. kept = [j \in DOMAIN s |-> tt[s[j]]]
    BY DEF KeepThreads
  <1>4. K \subseteq DOMAIN tt /\ \A k \in DOMAIN tt : tt[k].registered \/ Alive(tt[k]) => k \in K
    OBVIOUS
  <1> HIDE DEF K
  <1>5. /\ s \in Seq(K) /\ Len(s) \in Nat /\ DOMAIN s = 1..Len(s)
        /\ \A i, j \in DOMAIN s : s[i] = s[j] => i = j
        /\ \A e \in K : \E i \in DOMAIN s : s[i] = e
    BY <1>2, SetToSeqIs
  <1>6. \A j \in DOMAIN s : s[j] \in K
    BY <1>5
  <1> HIDE DEF s
  <1>7. kept \in [1..Len(s) -> Thread]
    BY <1>1, <1>3, <1>4, <1>5, <1>6
  <1>8. kept \in Seq(Thread) /\ DOMAIN kept = DOMAIN s
    BY <1>3, <1>5, <1>7, IsSeqOf
  <1>9. \A k \in DOMAIN tt : tt[k].registered \/ Alive(tt[k]) => \E j \in DOMAIN kept : kept[j] = tt[k]
    BY <1>3, <1>4, <1>5, <1>8
  <1>10. \A j \in DOMAIN kept : \E k \in DOMAIN tt : kept[j] = tt[k]
    BY <1>3, <1>4, <1>6, <1>8
  <1>11. ThreadsKnown(tt) => ThreadsKnown(kept)
    <2> SUFFICES ASSUME ThreadsKnown(tt) PROVE ThreadsKnown(kept)
      OBVIOUS
    <2>1. \A j \in DOMAIN kept : kept[j] = tt[s[j]] /\ s[j] \in DOMAIN tt
      BY <1>3, <1>4, <1>6, <1>8
    <2>2. ASSUME NEW i \in DOMAIN kept, NEW j \in DOMAIN kept, kept[i].id = kept[j].id, kept[i].registered, kept[j].registered
          PROVE  i = j
      <3>1. s[i] = s[j]
        BY <2>1, <2>2 DEF ThreadsKnown
      <3> QED
        BY <1>5, <1>8, <3>1
    <2>3. \A j \in DOMAIN kept : kept[j].registered \/ kept[j].stop
      BY <2>1 DEF ThreadsKnown
    <2> QED
      BY <2>2, <2>3 DEF ThreadsKnown
  <1> QED
    BY <1>8, <1>9, <1>10, <1>11


\* A thread moves on and writes the heartbeat of its own account; or it writes none,
\* and then it was not trying, or the write failed.
LEMMA GoesInv ==
  ASSUME StreamsInv, NEW k \in DOMAIN threads, NEW pc \in {"connecting", "up", "down", "ended"}, ThreadGoes(k, pc),
         \/ \E s \in Beat : Beats(threads[k].id, s) /\ (Shown(s) => pc \in {"connecting", "up"})
         \/ NoBeat /\ mute' = mute + 1
         \/ NoBeat /\ mute' = mute /\ threads[k].pc \notin {"connecting", "up"}
  PROVE  StreamsInv'
  <1> DEFINE tt == [threads EXCEPT ![k].pc = pc]
  <1>1. threads' = KeepThreads(tt) /\ UNCHANGED <<active, turns>>
    BY DEF ThreadGoes
  <1>2. Len(threads) \in Nat /\ DOMAIN threads = 1..Len(threads) /\ \A j \in DOMAIN threads : threads[j] \in Thread
    BY DEF StreamsInv, StreamTypes
  <1>3. /\ DOMAIN tt = DOMAIN threads /\ \A j \in DOMAIN threads : j # k => tt[j] = threads[j]
        /\ tt[k] = [threads[k] EXCEPT !.pc = pc]
    OBVIOUS
  <1>4. /\ tt[k] \in Thread /\ tt[k].pc = pc /\ tt[k].id = threads[k].id
        /\ tt[k].registered = threads[k].registered /\ tt[k].stop = threads[k].stop
    BY <1>2, <1>3 DEF Thread
  <1> HIDE DEF tt
  <1>5. tt \in Seq(Thread)
    <2>1. tt \in [1..Len(threads) -> Thread]
      <3>1. \A j \in DOMAIN threads : tt[j] \in Thread
        BY <1>2, <1>3, <1>4
      <3> QED
        BY <1>2, <1>3, <3>1 DEF tt
    <2> QED
      BY <1>2, <2>1, IsSeqOf
  <1>6. \A j \in DOMAIN threads : /\ tt[j].id = threads[j].id /\ tt[j].registered = threads[j].registered
                                  /\ tt[j].stop = threads[j].stop
    BY <1>3, <1>4
  <1>7. ThreadsKnown(tt)
    BY <1>3, <1>6 DEF StreamsInv, ThreadsKnown
  <1>8. /\ threads' \in Seq(Thread) /\ ThreadsKnown(threads)'
        /\ \A j \in DOMAIN threads' : \E i \in DOMAIN threads : threads'[j].id = threads[i].id
        /\ \A i \in DOMAIN threads : Alive(tt[i]) => \E j \in DOMAIN threads' : threads'[j] = tt[i]
    <2>1. /\ threads' \in Seq(Thread) /\ ThreadsKnown(threads')
          /\ \A j \in DOMAIN threads' : \E i \in DOMAIN tt : threads'[j] = tt[i]
          /\ \A i \in DOMAIN tt : tt[i].registered \/ Alive(tt[i]) => \E j \in DOMAIN threads' : threads'[j] = tt[i]
      BY <1>1, <1>5, <1>7, ThreadsStay
    <2> QED
      BY <1>3, <1>6, <2>1 DEF ThreadsKnown
  <1>9. \A n \in Streamed : Threaded(n)' => Threaded(n)
    BY <1>8 DEF Threaded
  <1>10. ASSUME NEW n \in Streamed, NEW i \in DOMAIN threads, tt[i].id = n, tt[i].pc \in {"connecting", "up"}
         PROVE  Trying(n)'
    <2>1. Alive(tt[i])
      BY <1>10 DEF Alive
    <2> QED
      BY <1>8, <1>10, <2>1 DEF Trying
  <1>11. ASSUME NEW n \in Streamed, Trying(n), n # threads[k].id \/ threads[k].pc \notin {"connecting", "up"}
         PROVE  Trying(n)'
    <2>1. PICK i \in DOMAIN threads : threads[i].id = n /\ threads[i].pc \in {"connecting", "up"}
      BY <1>11 DEF Trying
    <2>2. tt[i] = threads[i]
      BY <1>3, <1>11, <2>1
    <2> QED
      BY <1>10, <2>1, <2>2
  <1>12. PICK m \in Streamed : m = threads[k].id
    BY <1>2 DEF Thread
  <1>13. /\ hb \in [Streamed -> Beat] /\ mute \in Nat /\ late \subseteq Streamed
         /\ sup \in [left : SUBSET Streamed, id : Streamed \union {0}, beat : Beat, over : BOOLEAN]
    BY DEF StreamsInv, StreamTypes
  <1>14. CASE NoBeat /\ mute' = mute + 1
    <2>1. mute' \in Nat /\ mute' # 0
      BY <1>13, <1>14
    <2> QED
      BY <1>1, <1>8, <1>14, <2>1 DEF StreamsInv, StreamTypes, NoBeat, HbTried
  <1>15. CASE NoBeat /\ mute' = mute /\ threads[k].pc \notin {"connecting", "up"}
    <2>1. \A n \in Streamed : Tried(n) => Tried(n)'
      BY <1>9, <1>11, <1>15 DEF Tried
    <2> QED
      BY <1>1, <1>8, <1>15, <2>1 DEF StreamsInv, StreamTypes, NoBeat, HbTried
  <1>16. ASSUME NEW s \in Beat, Beats(m, s), Shown(s) => pc \in {"connecting", "up"} PROVE StreamsInv'
    <2>1. /\ hb' = [hb EXCEPT ![m] = s] /\ late' = late \ {m} /\ mute' = mute
          /\ sup' = [sup EXCEPT !.over = (sup.over \/ sup.id = m)]
      BY <1>16 DEF Beats
    <2>2. /\ hb' \in [Streamed -> Beat] /\ hb'[m] = s /\ \A n \in Streamed : n # m => hb'[n] = hb[n]
      BY <1>13, <2>1
    <2>3. PICK o \in BOOLEAN : o = (sup.over \/ sup.id = m)
      BY <1>13
    <2>4. sup' = [sup EXCEPT !.over = o]
      BY <2>1, <2>3
    <2>5. /\ sup' \in [left : SUBSET Streamed, id : Streamed \union {0}, beat : Beat, over : BOOLEAN]
          /\ sup'.id = sup.id /\ sup'.beat = sup.beat /\ sup'.over = o
      BY <1>13, <2>4
    <2>6. StreamTypes'
      BY <1>1, <1>8, <2>1, <2>2, <2>5 DEF StreamsInv, StreamTypes
    <2>7. \A n \in Streamed : n # m /\ Tried(n) => Tried(n)'
      BY <1>9, <1>11, <1>12 DEF Tried
    <2>8. Shown(s) => Tried(m)'
      <3>1. ASSUME Shown(s) PROVE Tried(m)'
        <4>1. tt[k].pc \in {"connecting", "up"} /\ tt[k].id = m
          BY <1>4, <1>12, <1>16, <3>1
        <4> QED
          BY <1>10, <4>1 DEF Tried
      <3> QED
        BY <3>1
    <2>9. HbTried'
      <3>1. ASSUME NEW n \in Streamed \ late', mute' = 0, Shown(hb'[n]) PROVE Tried(n)'
        <4>1. CASE n = m
          BY <2>2, <2>8, <3>1, <4>1
        <4>2. CASE n # m
          <5>1. n \in Streamed \ late /\ Shown(hb[n]) /\ mute = 0
            BY <2>1, <2>2, <3>1, <4>2
          <5> QED
            BY <2>7, <4>2, <5>1 DEF StreamsInv, HbTried
        <4> QED
          BY <4>1, <4>2
      <3>2. ASSUME NEW n \in Streamed \ late', mute' = 0, n = sup'.id, ~sup'.over, Shown(sup'.beat) PROVE Tried(n)'
        <4>1. n # m /\ n = sup.id /\ ~sup.over /\ Shown(sup.beat) /\ n \in Streamed \ late /\ mute = 0
          BY <2>1, <2>3, <2>5, <3>2
        <4> QED
          BY <2>7, <4>1 DEF StreamsInv, HbTried
      <3> QED
        BY <3>1, <3>2 DEF HbTried
    <2> QED
      BY <1>8, <2>6, <2>9 DEF StreamsInv
  <1> QED
    BY <1>12, <1>14, <1>15, <1>16

LEMMA RunInv ==
  ASSUME StreamsInv, NEW k \in DOMAIN threads, _run_account(k)
  PROVE  StreamsInv'
  <1>1. CASE ThreadConnects(k) \/ ThreadHears(k)
    <2>1. ThreadGoes(k, "up") /\ Beats(threads[k].id, "CONNECTED")
      BY <1>1 DEF ThreadConnects, ThreadHears
    <2>2. "CONNECTED" \in Beat
      BY DEF Beat
    <2> QED
      BY <2>1, <2>2, GoesInv
  <1>2. CASE ThreadDrops(k)
    <2>1. CASE ThreadGoes(k, IF threads[k].stop THEN "ended" ELSE "down") /\ Beats(threads[k].id, "DEGRADED")
      <3>1. "DEGRADED" \in Beat /\ ~Shown("DEGRADED")
        BY DEF Beat, Shown
      <3> QED
        BY <2>1, <3>1, GoesInv
    <2>2. CASE mute' = mute + 1 /\ ThreadGoes(k, "ended") /\ NoBeat
      BY <2>2, GoesInv
    <2> QED
      BY <1>2, <2>1, <2>2 DEF ThreadDrops
  <1>3. CASE ThreadRetries(k)
    BY <1>3, GoesInv DEF ThreadRetries
  <1> QED
    BY <1>1, <1>2, <1>3 DEF _run_account

\* What no thread does.
LEMMA QuietInv ==
  ASSUME StreamsInv,
         \/ SupervisorRestarts \/ TouchWrites \/ UNCHANGED streamVars
         \/ \E n \in Streamed : AccountChanges(n) \/ HeartbeatAges(n) \/ TouchReads(n)
  PROVE  StreamsInv'
  <1>1. CASE SupervisorRestarts
    <2>1. /\ threads' = <<>> /\ DOMAIN threads' = {} /\ threads' \in Seq(Thread) /\ sup' = Resting
          /\ UNCHANGED <<active, hb, late, mute>> /\ turns' \in Nat
      BY <1>1 DEF SupervisorRestarts, Turning, StreamsInv, StreamTypes
    <2>2. ThreadsKnown(threads)'
      BY <2>1 DEF ThreadsKnown
    <2>3. \A n \in Streamed : Tried(n)'
      BY <2>1 DEF Tried, Threaded
    <2> QED
      BY <2>1, <2>2, <2>3, RestingTyped DEF StreamsInv, StreamTypes, HbTried
  <1>2. CASE TouchWrites
    <2>0. /\ hb \in [Streamed -> Beat] /\ sup.id \in Streamed \union {0} /\ sup.beat \in Beat /\ late \subseteq Streamed
          /\ sup.left \subseteq Streamed
      BY DEF StreamsInv, StreamTypes
    <2>1. PICK m \in Streamed : m = sup.id
      BY <1>2, <2>0 DEF TouchWrites
    <2>2. PICK s \in Beat : s = IF sup.beat = "STALE" THEN "CONNECTED" ELSE sup.beat
      BY <2>0 DEF Beat
    <2>3. Shown(s) <=> Shown(sup.beat)
      BY <2>2 DEF Shown
    <2>4. /\ hb' = [hb EXCEPT ![m] = s] /\ sup' = [Resting EXCEPT !.left = sup.left] /\ UNCHANGED <<active, threads, turns, mute>>
          /\ late' = IF sup.over THEN late \union {m} ELSE late
      BY <1>2, <2>1, <2>2 DEF TouchWrites
    <2>5. hb' \in [Streamed -> Beat] /\ hb'[m] = s /\ \A n \in Streamed : n # m => hb'[n] = hb[n]
      BY <2>0, <2>4
    <2>6. sup'.id = 0 /\ sup' \in [left : SUBSET Streamed, id : Streamed \union {0}, beat : Beat, over : BOOLEAN]
      BY <2>0, <2>4 DEF Resting, Beat
    <2>7. 0 \notin Streamed
      BY StreamsAssumption DEF Streamed
    <2>8. \A n \in Streamed : Tried(n)' <=> Tried(n)
      BY <2>4 DEF Tried, Threaded, Trying
    <2>9. StreamTypes' /\ ThreadsKnown(threads)'
      BY <2>0, <2>4, <2>5, <2>6 DEF StreamsInv, StreamTypes
    <2>10. HbTried'
      <3>1. ASSUME NEW n \in Streamed \ late', mute = 0, Shown(hb'[n]) PROVE Tried(n)
        <4>1. CASE n = m
          <5>1. ~sup.over /\ n \in Streamed \ late /\ Shown(sup.beat)
            BY <2>3, <2>4, <2>5, <3>1, <4>1
          <5> QED
            BY <2>1, <3>1, <4>1, <5>1 DEF StreamsInv, HbTried
        <4>2. CASE n # m
          <5>1. n \in Streamed \ late /\ Shown(hb[n])
            BY <2>4, <2>5, <3>1, <4>2
          <5> QED
            BY <3>1, <5>1 DEF StreamsInv, HbTried
        <4> QED
          BY <4>1, <4>2
      <3> QED
        BY <2>4, <2>6, <2>7, <2>8, <3>1 DEF HbTried
    <2> QED
      BY <2>9, <2>10 DEF StreamsInv
  <1>3. CASE UNCHANGED streamVars
    BY <1>3 DEF streamVars, StreamsInv, StreamTypes, ThreadsKnown, HbTried, Tried, Threaded, Trying
  <1>4. ASSUME NEW n \in Streamed, AccountChanges(n) PROVE StreamsInv'
    <2>1. /\ active' \subseteq Streamed /\ turns' \in Nat /\ UNCHANGED <<threads, hb, sup, late, mute>>
      BY <1>4 DEF AccountChanges, Turning, StreamsInv, StreamTypes
    <2> QED
      BY <2>1 DEF StreamsInv, StreamTypes, ThreadsKnown, HbTried, Tried, Threaded, Trying
  <1>5. ASSUME NEW n \in Streamed, HeartbeatAges(n) PROVE StreamsInv'
    <2>1. /\ hb' \in [Streamed -> Beat] /\ \A m \in Streamed : Shown(hb'[m]) => Shown(hb[m])
          /\ UNCHANGED <<active, threads, sup, late, turns, mute>>
      BY <1>5 DEF HeartbeatAges, StreamsInv, StreamTypes, Beat, Shown
    <2>2. \A m \in Streamed : Tried(m)' <=> Tried(m)
      BY <2>1 DEF Tried, Threaded, Trying
    <2>3. StreamTypes' /\ ThreadsKnown(threads)'
      BY <2>1 DEF StreamsInv, StreamTypes
    <2> QED
      BY <2>1, <2>2, <2>3 DEF StreamsInv, HbTried
  <1>6. ASSUME NEW n \in Streamed, TouchReads(n) PROVE StreamsInv'
    <2>0. /\ hb \in [Streamed -> Beat] /\ sup \in [left : SUBSET Streamed, id : Streamed \union {0}, beat : Beat, over : BOOLEAN]
          /\ sup.id = 0 /\ UNCHANGED <<active, threads, hb, late, turns, mute>>
      BY <1>6 DEF TouchReads, StreamsInv, StreamTypes
    <2>1. 0 \notin Streamed
      BY StreamsAssumption DEF Streamed
    <2>2. \A m \in Streamed : Tried(m)' <=> Tried(m)
      BY <2>0 DEF Tried, Threaded, Trying
    <2>3. CASE sup' = [left |-> sup.left \ {n}, id |-> n, beat |-> hb[n], over |-> FALSE]
      <3>1. sup' \in [left : SUBSET Streamed, id : Streamed \union {0}, beat : Beat, over : BOOLEAN]
            /\ sup'.id = n /\ sup'.beat = hb[n]
        BY <2>0, <2>3
      <3>2. StreamTypes' /\ ThreadsKnown(threads)'
        BY <2>0, <3>1 DEF StreamsInv, StreamTypes
      <3> QED
        BY <2>0, <2>2, <3>1, <3>2 DEF StreamsInv, HbTried
    <2>4. CASE sup' = [sup EXCEPT !.left = sup.left \ {n}]
      <3>1. sup' \in [left : SUBSET Streamed, id : Streamed \union {0}, beat : Beat, over : BOOLEAN] /\ sup'.id = 0
        BY <2>0, <2>4
      <3>2. StreamTypes' /\ ThreadsKnown(threads)'
        BY <2>0, <3>1 DEF StreamsInv, StreamTypes
      <3> QED
        BY <2>0, <2>1, <2>2, <3>1, <3>2 DEF StreamsInv, HbTried
    <2> QED
      BY <1>6, <2>3, <2>4 DEF TouchReads
  <1> QED
    BY <1>1, <1>2, <1>3, <1>4, <1>5, <1>6

\* The supervisor comes round.
LEMMA ReconcileInv ==
  ASSUME StreamsInv, _reconcile_threads
  PROVE  StreamsInv'
  <1> DEFINE tt    == [k \in DOMAIN threads |-> LetGo(threads[k])]
             has   == {tt[k].id : k \in {j \in DOMAIN tt : tt[j].registered}}
             lacks == active \ has
             new   == SetToSeq(lacks)
             b     == [k \in DOMAIN new |-> FreshThread(new[k])]
             kept  == KeepThreads(tt)
  <1>1. threads' = kept \o b /\ UNCHANGED <<active, hb, late, turns, mute>>
        /\ sup' = [Resting EXCEPT !.left = active] /\ active \subseteq Streamed
    BY DEF _reconcile_threads, StreamsInv, StreamTypes
  <1>2. Len(threads) \in Nat /\ DOMAIN threads = 1..Len(threads) /\ \A j \in DOMAIN threads : threads[j] \in Thread
    BY DEF StreamsInv, StreamTypes
  <1>3. DOMAIN tt = DOMAIN threads
    OBVIOUS
  <1>4. ASSUME NEW j \in DOMAIN threads
        PROVE  /\ tt[j] \in Thread /\ tt[j].id = threads[j].id /\ tt[j].pc = threads[j].pc
               /\ tt[j].registered => threads[j].registered
               /\ ~tt[j].registered => tt[j].stop \/ ~threads[j].registered
               /\ threads[j].stop => tt[j].stop
    <2>1. threads[j] \in Thread /\ tt[j] = LetGo(threads[j])
      BY <1>2
    <2> QED
      BY <2>1 DEF LetGo, Release, Thread
  <1>5. tt \in Seq(Thread)
    <2>1. tt \in [1..Len(threads) -> Thread]
      <3>1. \A j \in DOMAIN threads : LetGo(threads[j]) \in Thread
        BY <1>4
      <3> QED
        BY <1>2, <3>1
    <2> QED
      BY <1>2, <2>1, IsSeqOf
  <1> HIDE DEF tt
  <1>6. ThreadsKnown(tt)
    BY <1>3, <1>4 DEF StreamsInv, ThreadsKnown
  <1>7. /\ kept \in Seq(Thread) /\ ThreadsKnown(kept)
        /\ \A j \in DOMAIN kept : \E i \in DOMAIN threads : kept[j] = tt[i]
        /\ \A i \in DOMAIN threads : tt[i].registered \/ Alive(tt[i]) => \E j \in DOMAIN kept : kept[j] = tt[i]
    BY <1>3, <1>5, <1>6, ThreadsStay
  <1> HIDE DEF kept
  <1>8. Len(kept) \in Nat /\ DOMAIN kept = 1..Len(kept) /\ \A j \in DOMAIN kept : kept[j] \in Thread
    BY <1>7
  <1>9. /\ Len(new) \in Nat /\ DOMAIN new = 1..Len(new)
        /\ \A i \in DOMAIN new : new[i] \in Streamed /\ new[i] \notin has
        /\ \A i, j \in DOMAIN new : new[i] = new[j] => i = j
    <2>2. lacks \subseteq Streamed /\ \A n \in lacks : n \notin has
      BY <1>1
    <2> HIDE DEF lacks
    <2>3. IsFiniteSet(lacks)
      <3>1. IsFiniteSet(1..MaxActive)
        BY StreamsAssumption, FS_Interval
      <3> QED
        BY <2>2, <3>1, FS_Subset DEF Streamed
    <2>4. /\ new \in Seq(lacks) /\ Len(new) \in Nat /\ DOMAIN new = 1..Len(new)
          /\ \A i, j \in DOMAIN new : new[i] = new[j] => i = j
      BY <2>3, SetToSeqIs
    <2>5. \A i \in DOMAIN new : new[i] \in lacks
      BY <2>4
    <2> QED
      BY <2>2, <2>4, <2>5
  <1> HIDE DEF new
  <1>10. /\ b \in Seq(Thread) /\ Len(b) = Len(new)
         /\ \A i \in 1..Len(new) : b[i] = FreshThread(new[i]) /\ b[i].id = new[i] /\ b[i].registered
                                   /\ b[i].pc = "connecting"
    <2>1. \A i \in DOMAIN new : FreshThread(new[i]) \in Thread
      BY <1>9 DEF FreshThread, Thread
    <2>2. b \in [1..Len(new) -> Thread]
      BY <1>9, <2>1
    <2>3. b \in Seq(Thread) /\ Len(b) = Len(new)
      BY <1>9, <2>2, IsSeqOf
    <2> QED
      BY <1>9, <2>3 DEF FreshThread
  <1> HIDE DEF b, has
  <1>11. /\ threads' \in Seq(Thread) /\ DOMAIN threads' = 1..(Len(kept) + Len(new))
         /\ \A i \in DOMAIN kept : i \in DOMAIN threads' /\ threads'[i] = kept[i]
         /\ \A i \in DOMAIN threads' \ DOMAIN kept : threads'[i] = b[i - Len(kept)] /\ i - Len(kept) \in 1..Len(new)
         /\ \A i \in 1..Len(new) : Len(kept) + i \in DOMAIN threads' /\ threads'[Len(kept) + i] = b[i]
    <2>1. /\ threads' \in Seq(Thread) /\ DOMAIN threads' = 1..(Len(kept) + Len(b))
          /\ \A i \in 1..Len(kept) : threads'[i] = kept[i]
          /\ \A i \in (Len(kept) + 1)..(Len(kept) + Len(b)) : threads'[i] = b[i - Len(kept)]
      <3>1. kept \in Seq(Thread) /\ b \in Seq(Thread)
        BY <1>7, <1>10
      <3> QED
        BY <1>1, <3>1, Joined
    <2>2. \A i \in DOMAIN threads' \ DOMAIN kept :
             i \in (Len(kept) + 1)..(Len(kept) + Len(b)) /\ i - Len(kept) \in 1..Len(new)
      BY <1>8, <1>9, <1>10, <2>1
    <2>3. \A i \in 1..Len(new) : /\ Len(kept) + i \in (Len(kept) + 1)..(Len(kept) + Len(b))
                                 /\ Len(kept) + i \in DOMAIN threads' /\ (Len(kept) + i) - Len(kept) = i
      BY <1>8, <1>9, <1>10, <2>1
    <2>4. \A i \in DOMAIN kept : i \in DOMAIN threads'
      BY <1>8, <1>9, <1>10, <2>1
    <2> QED
      BY <1>8, <1>10, <2>1, <2>2, <2>3, <2>4
  <1>12. \A i \in DOMAIN kept : kept[i].registered => kept[i].id \in has
    BY <1>3, <1>7 DEF has
  <1>13. ThreadsKnown(threads)'
    <2>a. ASSUME NEW i \in DOMAIN threads' \ DOMAIN kept PROVE threads'[i].id \notin has
      <3>1. PICK n \in 1..Len(new) : threads'[i] = b[n]
        BY <1>11
      <3>2. b[n].id = new[n] /\ new[n] \notin has
        BY <1>9, <1>10
      <3> QED
        BY <3>1, <3>2
    <2>b. ASSUME NEW i \in DOMAIN kept, threads'[i].registered PROVE threads'[i].id \in has
      <3>1. threads'[i] = kept[i]
        BY <1>11
      <3> QED
        BY <1>12, <2>b, <3>1
    <2>1. ASSUME NEW i \in DOMAIN threads', NEW j \in DOMAIN threads', threads'[i].id = threads'[j].id,
                 threads'[i].registered, threads'[j].registered
          PROVE  i = j
      <3>1. CASE i \in DOMAIN kept /\ j \in DOMAIN kept
        BY <1>7, <1>11, <2>1, <3>1 DEF ThreadsKnown
      <3>2. CASE i \in DOMAIN kept /\ j \notin DOMAIN kept
        BY <2>1, <2>a, <2>b, <3>2
      <3>3. CASE i \notin DOMAIN kept /\ j \in DOMAIN kept
        BY <2>1, <2>a, <2>b, <3>3
      <3>4. CASE i \notin DOMAIN kept /\ j \notin DOMAIN kept
        <4>2. /\ i - Len(kept) \in 1..Len(new) /\ threads'[i] = b[i - Len(kept)]
              /\ j - Len(kept) \in 1..Len(new) /\ threads'[j] = b[j - Len(kept)]
          BY <1>11, <3>4
        <4>3. new[i - Len(kept)] = new[j - Len(kept)]
          BY <1>10, <2>1, <4>2
        <4>1. i - Len(kept) = j - Len(kept)
          BY <1>9, <4>2, <4>3
        <4> QED
          BY <1>8, <1>9, <1>11, <4>1
      <3> QED
        BY <3>1, <3>2, <3>3, <3>4
    <2>2. ASSUME NEW i \in DOMAIN threads' PROVE threads'[i].registered \/ threads'[i].stop
      BY <1>7, <1>10, <1>11 DEF ThreadsKnown
    <2> QED
      BY <2>1, <2>2 DEF ThreadsKnown
  <1>14. ASSUME NEW n \in Streamed, Tried(n) PROVE Tried(n)'
    <2> SUFFICES ASSUME Threaded(n)' PROVE Trying(n)'
      BY DEF Tried
    <2>1. PICK i \in DOMAIN threads' : threads'[i].id = n
      BY DEF Threaded
    <2>2. CASE i \in DOMAIN kept
      <3>1. PICK j \in DOMAIN threads : kept[i] = tt[j]
        BY <1>7, <2>2
      <3>2. Trying(n)
        <4>1. threads[j].id = n
          BY <1>4, <1>11, <2>1, <2>2, <3>1
        <4> QED
          BY <1>14, <4>1 DEF Tried, Threaded
      <3>3. PICK h \in DOMAIN threads : threads[h].id = n /\ threads[h].pc \in {"connecting", "up"}
        BY <3>2 DEF Trying
      <3>4. Alive(tt[h]) /\ tt[h].id = n /\ tt[h].pc \in {"connecting", "up"}
        BY <1>4, <3>3 DEF Alive
      <3> QED
        BY <1>7, <1>11, <3>4 DEF Trying
    <2>3. CASE i \notin DOMAIN kept
      <3>1. threads'[i].pc = "connecting"
        BY <1>10, <1>11, <2>3
      <3> QED
        BY <2>1, <3>1 DEF Trying
    <2> QED
      BY <2>2, <2>3
  <1>15. /\ sup'.id = 0
         /\ sup' \in [left : SUBSET Streamed, id : Streamed \union {0}, beat : Beat, over : BOOLEAN]
    BY <1>1 DEF Resting, Beat
  <1>16. 0 \notin Streamed
    BY StreamsAssumption DEF Streamed
  <1>17. StreamTypes' /\ HbTried'
    BY <1>1, <1>11, <1>14, <1>15, <1>16 DEF StreamsInv, StreamTypes, HbTried
  <1> QED
    BY <1>13, <1>17 DEF StreamsInv

LEMMA StreamsNextInv == StreamsInv /\ [StreamsNext]_streamVars => StreamsInv'
  <1> SUFFICES ASSUME StreamsInv, [StreamsNext]_streamVars PROVE StreamsInv'
    OBVIOUS
  <1>1. CASE _reconcile_threads
    BY <1>1, ReconcileInv
  <1>2. ASSUME NEW k \in DOMAIN threads, _run_account(k) PROVE StreamsInv'
    BY <1>2, RunInv
  <1>3. CASE \/ SupervisorRestarts \/ TouchWrites \/ UNCHANGED streamVars
             \/ \E n \in Streamed : AccountChanges(n) \/ HeartbeatAges(n) \/ TouchReads(n)
    BY <1>3, QuietInv
  <1> QED
    BY <1>1, <1>2, <1>3 DEF StreamsNext, run_forever

(* The desk of broker accounts *)

AskPc == {"idle", "count", "clear", "create", "delete", "pick", "save"}
Ask == [pc : AskPc, number : Numbers \union {0}, default : BOOLEAN, target : Nat, next : Nat]
Account == [broker : {"ALPACA", "TRADESTATION"}, number : Numbers \union TsNumbers \union {0}, is_default : BOOLEAN]

DeskTypes ==
    /\ made \in Nat /\ Rows \subseteq 1..made /\ desk \in [Rows -> Account]
    /\ asks \in [DeskReqs -> Ask]

DefaultsOf(d) == {n \in DOMAIN d : d[n].is_default}
OldestOf(d) == {n \in DOMAIN d : \A m \in DOMAIN d : n <= m}

\* What a removal deletes stays away; what it picked is the oldest account or gone.
AskKnown(k, d, m) ==
    /\ k.pc \in {"delete", "pick", "save"} => k.target <= m
    /\ k.pc \in {"pick", "save"} => k.default /\ k.target \notin DOMAIN d
    /\ k.pc = "save" => k.next <= m /\ (k.next \in DOMAIN d => k.next \in OldestOf(d))
AsksKnown(a, d, m) == \A c \in DeskReqs : AskKnown(a[c], d, m)

\* Every default but the oldest account has the place of the connect that made it, and
\* so has a connect about to make one.  One more place is for the oldest account, be it
\* the default or about to be promoted by a removal whose account is not a default any more.
Young(d) == DefaultsOf(d) \ OldestOf(d)
Makers(a) == {c \in DeskReqs : a[c].pc = "create" /\ a[c].default}
Removes(k) == k.pc \in {"delete", "pick", "save"} /\ k.default
Owed(d, a) ==
    \/ DefaultsOf(d) \intersect OldestOf(d) # {}
    \/ \E c \in DeskReqs : Removes(a[c]) /\ a[c].target \notin DefaultsOf(d)
Tally(y, m, x) == Cardinality(y) + Cardinality(m) + (IF x THEN 1 ELSE 0) <= Cardinality(DeskReqs)

\* A place that is given up can be taken by another.
Moved(y, m, x, y1, m1, x1) ==
    \/ y1 \subseteq y /\ m1 \subseteq m /\ (x1 => x)
    \/ (\E e \in y : y1 \subseteq y \ {e}) /\ m1 \subseteq m
    \/ (\E c \in m : m1 \subseteq m \ {c}) /\ y1 \subseteq y
    \/ (\E c \in m : m1 \subseteq m \ {c}) /\ (\E e : y1 \subseteq y \union {e}) /\ (x1 => x)

DeskInv == DeskTypes /\ AsksKnown(asks, desk, made) /\ Tally(Young(desk), Makers(asks), Owed(desk, asks))

-----------------------------------------------------------------------------
LEMMA FinishedSets ==
  ASSUME DeskTypes
  PROVE  IsFiniteSet(Rows) /\ IsFiniteSet(Young(desk)) /\ IsFiniteSet(Makers(asks))
  <1>1. IsFiniteSet(1..made)
    BY FS_Interval DEF DeskTypes
  <1>2. IsFiniteSet(Rows)
    BY <1>1, FS_Subset DEF DeskTypes
  <1>3. Young(desk) \subseteq Rows /\ Makers(asks) \subseteq DeskReqs
    BY DEF Young, DefaultsOf, Makers, Rows
  <1> QED
    BY <1>2, <1>3, FS_Subset, DeskAssumption

LEMMA TallyMoves ==
  ASSUME NEW y, IsFiniteSet(y), NEW m, IsFiniteSet(m), NEW x \in BOOLEAN, Tally(y, m, x),
         NEW y1, NEW m1, NEW x1 \in BOOLEAN,
         Moved(y, m, x, y1, m1, x1)
  PROVE  Tally(y1, m1, x1)
  <1>1. Cardinality(y) \in Nat /\ Cardinality(m) \in Nat /\ Cardinality(DeskReqs) \in Nat
    BY FS_CardinalityType, DeskAssumption
  <1>2. ASSUME NEW S, IsFiniteSet(S), NEW T, T \subseteq S
        PROVE  Cardinality(T) \in Nat /\ Cardinality(T) <= Cardinality(S)
    <2>1. IsFiniteSet(T) /\ Cardinality(T) <= Cardinality(S)
      BY <1>2, FS_Subset, Zenon
    <2> QED
      BY <2>1, FS_CardinalityType, Zenon
  <1>3. ASSUME NEW S, IsFiniteSet(S), NEW T, NEW e \in S, T \subseteq S \ {e}
        PROVE  Cardinality(T) \in Nat /\ Cardinality(T) + 1 <= Cardinality(S)
    <2>1. IsFiniteSet(S \ {e}) /\ Cardinality(S \ {e}) = Cardinality(S) - 1
      BY <1>3, FS_RemoveElement, Zenon
    <2>2. Cardinality(T) \in Nat /\ Cardinality(T) <= Cardinality(S \ {e})
      BY <1>2, <1>3, <2>1
    <2>3. Cardinality(S) \in Nat
      BY <1>3, FS_CardinalityType, Zenon
    <2> QED
      BY <2>1, <2>2, <2>3
  <1>4. ASSUME NEW S, IsFiniteSet(S), NEW T, NEW e, T \subseteq S \union {e}
        PROVE  Cardinality(T) \in Nat /\ Cardinality(T) <= Cardinality(S) + 1
    <2>1. /\ IsFiniteSet(S \union {e})
          /\ \/ Cardinality(S \union {e}) = Cardinality(S)
             \/ Cardinality(S \union {e}) = Cardinality(S) + 1
      BY <1>4, FS_AddElement
    <2>2. Cardinality(T) \in Nat /\ Cardinality(T) <= Cardinality(S \union {e})
      BY <1>2, <1>4, <2>1, Zenon
    <2>3. Cardinality(S) \in Nat
      BY <1>4, FS_CardinalityType, Zenon
    <2> QED
      BY <2>1, <2>2, <2>3
  <1>5. CASE y1 \subseteq y /\ m1 \subseteq m /\ (x1 => x)
    <2>1. Cardinality(y1) \in Nat /\ Cardinality(y1) <= Cardinality(y) /\ Cardinality(m1) \in Nat /\ Cardinality(m1) <= Cardinality(m)
      BY <1>2, <1>5
    <2> QED
      BY <1>1, <1>5, <2>1 DEF Tally
  <1>6. CASE (\E e \in y : y1 \subseteq y \ {e}) /\ m1 \subseteq m
    <2>1. Cardinality(y1) \in Nat /\ Cardinality(y1) + 1 <= Cardinality(y) /\ Cardinality(m1) \in Nat /\ Cardinality(m1) <= Cardinality(m)
      BY <1>2, <1>3, <1>6
    <2> QED
      BY <1>1, <2>1 DEF Tally
  <1>7. CASE (\E c \in m : m1 \subseteq m \ {c}) /\ y1 \subseteq y
    <2>1. Cardinality(m1) \in Nat /\ Cardinality(m1) + 1 <= Cardinality(m) /\ Cardinality(y1) \in Nat /\ Cardinality(y1) <= Cardinality(y)
      BY <1>2, <1>3, <1>7
    <2> QED
      BY <1>1, <2>1 DEF Tally
  <1>8. CASE (\E c \in m : m1 \subseteq m \ {c}) /\ (\E e : y1 \subseteq y \union {e}) /\ (x1 => x)
    <2>1. PICK c \in m : m1 \subseteq m \ {c}
      BY <1>8
    <2>2. PICK e : y1 \subseteq y \union {e}
      BY <1>8
    <2>3. Cardinality(m1) \in Nat /\ Cardinality(m1) + 1 <= Cardinality(m)
      BY <1>3, <2>1
    <2>4. Cardinality(y1) \in Nat /\ Cardinality(y1) <= Cardinality(y) + 1
      BY <1>4, <2>2
    <2> QED
      BY <1>1, <1>8, <2>3, <2>4 DEF Tally
  <1> QED
    BY <1>5, <1>6, <1>7, <1>8 DEF Moved

LEMMA TallyKept ==
  ASSUME DeskInv,
         Moved(Young(desk), Makers(asks), Owed(desk, asks), Young(desk'), Makers(asks'), Owed(desk', asks'))
  PROVE  Tally(Young(desk), Makers(asks), Owed(desk, asks))'
  <1>1. IsFiniteSet(Young(desk)) /\ IsFiniteSet(Makers(asks)) /\ Tally(Young(desk), Makers(asks), Owed(desk, asks))
    BY FinishedSets DEF DeskInv
  <1>2. PICK y : y = Young(desk)
    OBVIOUS
  <1>3. PICK m : m = Makers(asks)
    OBVIOUS
  <1>4. PICK x \in BOOLEAN : x = Owed(desk, asks)
    BY DEF Owed
  <1>5. PICK y1 : y1 = Young(desk')
    OBVIOUS
  <1>6. PICK m1 : m1 = Makers(asks')
    OBVIOUS
  <1>7. PICK x1 \in BOOLEAN : x1 = Owed(desk', asks')
    BY DEF Owed
  <1>8. Moved(y, m, x, y1, m1, x1)
    BY <1>2, <1>3, <1>4, <1>5, <1>6, <1>7
  <1>9. Tally(y1, m1, x1)
    <2>1. IsFiniteSet(y) /\ IsFiniteSet(m) /\ Tally(y, m, x)
      BY <1>1, <1>2, <1>3, <1>4
    <2> QED
      BY <1>8, <2>1, TallyMoves, Zenon
  <1> QED
    BY <1>5, <1>6, <1>7, <1>9

\* What holds of the defaults holds of their number.
LEMMA DefaultsCounted == DeskInv => DefaultsBounded
  <1> SUFFICES ASSUME DeskInv PROVE DefaultsBounded
    OBVIOUS
  <1> DEFINE y == Young(desk)
             m == Makers(asks)
             both == DefaultsOf(desk) \intersect OldestOf(desk)
  <1>1. IsFiniteSet(y) /\ IsFiniteSet(m) /\ IsFiniteSet(Rows)
    BY FinishedSets DEF DeskInv
  <1>2. Cardinality(y) \in Nat /\ Cardinality(m) \in Nat /\ Cardinality(DeskReqs) \in Nat
    BY <1>1, FS_CardinalityType, DeskAssumption
  <1>3. Tally(y, m, Owed(desk, asks))
    BY DEF DeskInv
  <1>4. DefaultsOf(desk) = y \union both
    BY DEF Young
  <1>5. CASE both = {}
    <2>1. Cardinality(DefaultsOf(desk)) = Cardinality(y)
      BY <1>4, <1>5
    <2> QED
      BY <1>2, <1>3, <2>1 DEF Tally, DefaultsBounded, DefaultsOf, Rows
  <1>6. ASSUME NEW e \in both PROVE DefaultsBounded
    <2>1. Owed(desk, asks)
      BY <1>6 DEF Owed
    <2>2. both = {e}
      <3>1. ASSUME NEW f \in both PROVE f = e
        <4>1. e \in Nat /\ f \in Nat /\ e <= f /\ f <= e
          BY DEF DeskInv, DeskTypes, OldestOf, DefaultsOf, Rows
        <4> QED
          BY <4>1
      <3> QED
        BY <1>6, <3>1
    <2>3. DefaultsOf(desk) = y \union {e}
      BY <1>4, <2>2
    <2> HIDE DEF y, m, both
    <2>4. \/ Cardinality(y \union {e}) = Cardinality(y)
          \/ Cardinality(y \union {e}) = Cardinality(y) + 1
      BY <1>1, FS_AddElement
    <2>5. Cardinality(DefaultsOf(desk)) <= Cardinality(DeskReqs)
      BY <1>2, <1>3, <2>1, <2>3, <2>4 DEF Tally
    <2> QED
      BY <2>5 DEF DefaultsBounded, DefaultsOf, Rows
  <1> QED
    BY <1>5, <1>6

LEMMA NoAskTyped == NoAsk \in Ask /\ NoAsk.pc = "idle" /\ ~NoAsk.default
  BY DEF NoAsk, Ask, AskPc

LEMMA DeskInitInv == DeskInit => DeskInv
  <1> SUFFICES ASSUME DeskInit PROVE DeskInv
    OBVIOUS
  <1>1. Rows = {} /\ made = 0 /\ asks = [c \in DeskReqs |-> NoAsk]
    BY DEF DeskInit, Rows
  <1>2. DeskTypes
    <2>1. desk \in [Rows -> Account]
      BY <1>1 DEF DeskInit, Rows
    <2> QED
      BY <1>1, <2>1, NoAskTyped DEF DeskTypes
  <1>3. AsksKnown(asks, desk, made)
    BY <1>1, NoAskTyped DEF AsksKnown, AskKnown
  <1>4. Young(desk) = {} /\ Makers(asks) = {} /\ ~Owed(desk, asks)
    BY <1>1, NoAskTyped DEF Young, DefaultsOf, Makers, Owed, Removes, Rows
  <1>5. Cardinality({}) = 0 /\ Cardinality(DeskReqs) \in Nat
    BY FS_EmptySet, FS_CardinalityType, DeskAssumption
  <1> QED
    BY <1>2, <1>3, <1>4, <1>5 DEF DeskInv, Tally

-----------------------------------------------------------------------------
LEMMA AskSteps ==
  ASSUME DeskTypes, NEW c \in DeskReqs, NEW k \in Ask, AskGoes(c, k)
  PROVE  /\ asks' \in [DeskReqs -> Ask] /\ asks'[c] = k /\ \A b \in DeskReqs : b # c => asks'[b] = asks[b]
         /\ Makers(asks') = IF k.pc = "create" /\ k.default THEN Makers(asks) \union {c} ELSE Makers(asks) \ {c}
  <1>1. /\ asks' \in [DeskReqs -> Ask] /\ asks'[c] = k /\ \A b \in DeskReqs : b # c => asks'[b] = asks[b]
    BY DEF AskGoes, DeskTypes
  <1> QED
    BY <1>1 DEF Makers

\* A request moves on and leaves the rows alone.
LEMMA AskAlone ==
  ASSUME DeskInv, NEW c \in DeskReqs, NEW k \in Ask, AskGoes(c, k), UNCHANGED <<desk, made>>,
         AskKnown(k, desk, made), ~(k.pc = "create" /\ k.default),
         Removes(k) /\ k.target \notin DefaultsOf(desk) => Removes(asks[c]) /\ asks[c].target \notin DefaultsOf(desk)
  PROVE  DeskInv'
  <1>1. /\ asks' \in [DeskReqs -> Ask] /\ asks'[c] = k /\ \A b \in DeskReqs : b # c => asks'[b] = asks[b]
        /\ Makers(asks') \subseteq Makers(asks)
    BY AskSteps DEF DeskInv
  <1>2. DeskTypes'
    BY <1>1 DEF DeskInv, DeskTypes, Rows
  <1>3. AsksKnown(asks, desk, made)'
    <2>1. AsksKnown(asks', desk, made)
      BY <1>1 DEF DeskInv, AsksKnown
    <2> QED
      BY <2>1
  <1>4. Young(desk') = Young(desk) /\ (Owed(desk', asks') => Owed(desk, asks))
    <2>1. Owed(desk, asks') => Owed(desk, asks)
      BY <1>1 DEF Owed
    <2> QED
      BY <2>1
  <1>5. Tally(Young(desk), Makers(asks), Owed(desk, asks))'
    BY <1>1, <1>4, TallyKept DEF Moved
  <1> QED
    BY <1>2, <1>3, <1>5 DEF DeskInv

LEMMA ConnectBegins ==
  ASSUME DeskInv, NEW c \in DeskReqs,
         \/ ConnectCounts(c) \/ \E number \in Numbers, wants \in BOOLEAN : ConnectStarts(c, number, wants)
  PROVE  DeskInv'
  <1>1. asks[c] \in Ask
    BY DEF DeskInv, DeskTypes
  <1>2. ASSUME NEW number \in Numbers, NEW wants \in BOOLEAN, ConnectStarts(c, number, wants) PROVE DeskInv'
    <2>1. PICK k : k = [NoAsk EXCEPT !.pc = "count", !.number = number, !.default = wants] /\ AskGoes(c, k)
      BY <1>2 DEF ConnectStarts
    <2>2. k \in Ask /\ k.pc = "count"
      BY <2>1 DEF NoAsk, Ask, AskPc
    <2> QED
      BY <1>2, <2>1, <2>2, AskAlone DEF ConnectStarts, AskKnown, Removes
  <1>3. CASE ConnectCounts(c)
    <2>1. PICK v : v = (asks[c].default \/ Rows = {})
      OBVIOUS
    <2>2. v \in BOOLEAN
      BY <1>1, <2>1 DEF Ask
    <2>3. PICK k : k = [asks[c] EXCEPT !.pc = IF v THEN "clear" ELSE "create", !.default = v] /\ AskGoes(c, k)
      BY <1>3, <2>1 DEF ConnectCounts
    <2>4. k \in Ask /\ k.pc = (IF v THEN "clear" ELSE "create") /\ k.default = v
      BY <1>1, <2>2, <2>3 DEF Ask, AskPc
    <2>5. k.pc \in {"clear", "create"} /\ ~(k.pc = "create" /\ k.default)
      BY <2>2, <2>4
    <2> QED
      BY <1>3, <2>3, <2>4, <2>5, AskAlone DEF ConnectCounts, AskKnown, Removes
  <1> QED
    BY <1>2, <1>3

\* No row is the default any more; a removal that has yet to promote one keeps its place,
\* for it is no connect.
LEMMA ClearsInv ==
  ASSUME DeskInv, NEW c \in DeskReqs, ConnectClears(c)
  PROVE  DeskInv'
  <1>0. asks[c] \in Ask /\ asks[c].pc = "clear" /\ made' = made
    BY DEF DeskInv, DeskTypes, ConnectClears, AtAsk
  <1>1. PICK k : k = [asks[c] EXCEPT !.pc = "create"] /\ AskGoes(c, k)
    BY DEF ConnectClears
  <1>2. k \in Ask /\ k.pc = "create"
    BY <1>0, <1>1 DEF Ask, AskPc
  <1>3. asks' \in [DeskReqs -> Ask] /\ asks'[c] = k /\ \A b \in DeskReqs : b # c => asks'[b] = asks[b]
    BY <1>1, <1>2, AskSteps DEF DeskInv
  <1>4. desk' = [n \in Rows |-> [desk[n] EXCEPT !.is_default = FALSE]]
    BY DEF ConnectClears
  <1>5. DOMAIN desk' = Rows /\ Rows' = Rows /\ \A n \in Rows : desk'[n] \in Account /\ ~desk'[n].is_default
    BY <1>4 DEF DeskInv, DeskTypes, Account, Rows
  <1>6. DeskTypes'
    <2>1. desk' \in [Rows -> Account]
      BY <1>4, <1>5
    <2> QED
      BY <1>0, <1>3, <1>5, <2>1 DEF DeskInv, DeskTypes
  <1>7. AsksKnown(asks, desk, made)'
    <2>1. \A b \in DeskReqs : AskKnown(asks'[b], desk, made)
      BY <1>2, <1>3 DEF DeskInv, AsksKnown, AskKnown
    <2>2. OldestOf(desk') = OldestOf(desk) /\ DOMAIN desk' = DOMAIN desk
      BY <1>5 DEF OldestOf, Rows
    <2>3. \A b \in DeskReqs : AskKnown(asks'[b], desk', made)
      BY <2>1, <2>2 DEF AskKnown
    <2> QED
      BY <1>0, <2>3 DEF AsksKnown
  <1>8. Tally(Young(desk'), Makers(asks'), Owed(desk', asks'))
    <2>1. DefaultsOf(desk') = {}
      BY <1>5 DEF DefaultsOf
    <2>2. Young(desk') = {} /\ Cardinality(Young(desk')) = 0
      BY <2>1, FS_EmptySet DEF Young
    <2>3. Makers(asks') \subseteq DeskReqs /\ Cardinality(DeskReqs) \in Nat
      BY FS_CardinalityType, DeskAssumption DEF Makers
    <2>4. CASE Owed(desk', asks')
      <3>1. PICK r \in DeskReqs : Removes(asks'[r])
        BY <2>1, <2>4 DEF Owed
      <3>2. Makers(asks') \subseteq DeskReqs \ {r}
        BY <3>1 DEF Makers, Removes
      <3>3. IsFiniteSet(DeskReqs \ {r}) /\ Cardinality(DeskReqs \ {r}) = Cardinality(DeskReqs) - 1
        BY FS_RemoveElement, DeskAssumption
      <3>4. IsFiniteSet(Makers(asks')) /\ Cardinality(Makers(asks')) <= Cardinality(DeskReqs \ {r})
        BY <3>2, <3>3, FS_Subset, Zenon
      <3>5. Cardinality(Makers(asks')) \in Nat
        BY <3>4, FS_CardinalityType, Zenon
      <3> QED
        BY <2>2, <2>3, <3>3, <3>4, <3>5 DEF Tally
    <2>5. CASE ~Owed(desk', asks')
      <3>1. IsFiniteSet(Makers(asks')) /\ Cardinality(Makers(asks')) <= Cardinality(DeskReqs)
        BY <2>3, FS_Subset, DeskAssumption, Zenon
      <3>2. Cardinality(Makers(asks')) \in Nat
        BY <3>1, FS_CardinalityType, Zenon
      <3> QED
        BY <2>2, <2>3, <2>5, <3>1, <3>2 DEF Tally
    <2> QED
      BY <2>4, <2>5
  <1> QED
    BY <1>6, <1>7, <1>8 DEF DeskInv

\* A new row: the youngest.
LEMMA Created ==
  ASSUME DeskInv, NEW broker \in {"ALPACA", "TRADESTATION"}, NEW number \in Numbers \union TsNumbers \union {0},
         NEW default \in BOOLEAN, Creates(broker, number, default),
         asks' \in [DeskReqs -> Ask], \A b \in DeskReqs : asks'[b] = asks[b] \/ asks'[b] = NoAsk
  PROVE  /\ DeskTypes' /\ AsksKnown(asks, desk, made)'
         /\ Young(desk') \subseteq Young(desk) \union {made + 1}
         /\ ~default \/ Rows = {} => Young(desk') \subseteq Young(desk)
         /\ ~default \/ Rows # {} => (Owed(desk', asks') => Owed(desk, asks))
  <1>0. made \in Nat /\ made' = made + 1 /\ Rows \subseteq 1..made /\ \A n \in Rows : desk[n] \in Account
    BY DEF DeskInv, DeskTypes, Creates
  <1>1. PICK e : e = made + 1
    OBVIOUS
  <1>2. e \in Nat /\ e \notin Rows /\ \A n \in Nat : n <= made => n < e /\ n # e
    BY <1>0, <1>1
  <1>3. PICK brought : brought = [broker |-> broker, number |-> number, is_default |-> default]
    OBVIOUS
  <1>4. brought \in Account /\ brought.is_default = default
    BY <1>3 DEF Account
  <1>5. desk' = [n \in Rows \union {e} |-> IF n = e THEN brought ELSE desk[n]]
    BY <1>1, <1>3 DEF Creates
  <1>6. DOMAIN desk' = Rows \union {e} /\ desk'[e] = brought /\ \A n \in Rows : desk'[n] = desk[n]
    BY <1>2, <1>5
  <1>7. \A n \in Rows : n \in Nat /\ n <= made /\ n < e
    BY <1>0, <1>2
  <1>8. DeskTypes'
    <2>1. desk' \in [Rows \union {e} -> Account]
      BY <1>0, <1>4, <1>5
    <2>2. Rows' = Rows \union {e} /\ Rows' \subseteq 1..made'
      BY <1>0, <1>1, <1>2, <1>6 DEF Rows
    <2> QED
      BY <1>0, <2>1, <2>2 DEF DeskTypes
  <1>9. OldestOf(desk) \subseteq OldestOf(desk') /\ OldestOf(desk') \subseteq OldestOf(desk) \union {e}
    <2>1. ASSUME NEW n \in OldestOf(desk) PROVE n \in OldestOf(desk')
      <3>1. n \in Rows /\ n \in Nat /\ n < e /\ \A m \in Rows : n <= m
        BY <1>7, <2>1 DEF OldestOf, Rows
      <3>2. \A m \in Rows \union {e} : n <= m
        BY <1>2, <3>1
      <3> QED
        BY <1>6, <3>1, <3>2 DEF OldestOf
    <2> QED
      BY <1>6, <2>1 DEF OldestOf, Rows
  <1>10. /\ Rows # {} => e \notin OldestOf(desk')
         /\ Rows = {} => e \in OldestOf(desk')
    <2>1. ASSUME NEW n \in Rows PROVE e \notin OldestOf(desk')
      <3>1. n \in DOMAIN desk' /\ ~(e <= n)
        BY <1>2, <1>6, <1>7, <2>1
      <3> QED
        BY <3>1 DEF OldestOf
    <2> QED
      BY <1>2, <1>6, <2>1 DEF OldestOf
  <1>11. DefaultsOf(desk') = IF default THEN DefaultsOf(desk) \union {e} ELSE DefaultsOf(desk)
    BY <1>2, <1>4, <1>6 DEF DefaultsOf, Rows
  <1>12. DefaultsOf(desk) \subseteq Rows
    BY DEF DefaultsOf, Rows
  <1>13. AsksKnown(asks, desk, made)'
    <2>1. ASSUME NEW b \in DeskReqs PROVE AskKnown(asks'[b], desk', made')
      <3>1. CASE asks'[b] = NoAsk
        BY <3>1, NoAskTyped DEF AskKnown
      <3>2. CASE asks'[b] = asks[b]
        <4>1. AskKnown(asks[b], desk, made) /\ asks[b] \in Ask
          BY DEF DeskInv, DeskTypes, AsksKnown
        <4>2. PICK t \in Nat : t = asks[b].target
          BY <4>1 DEF Ask
        <4>3. PICK x \in Nat : x = asks[b].next
          BY <4>1 DEF Ask
        <4>4. t <= made => t <= made' /\ (t \in DOMAIN desk' => t \in Rows)
          BY <1>0, <1>2, <1>6
        <4>5. x <= made => x <= made' /\ (x \in DOMAIN desk' => x \in Rows)
          BY <1>0, <1>2, <1>6
        <4> QED
          BY <1>9, <3>2, <4>1, <4>2, <4>3, <4>4, <4>5 DEF AskKnown, Rows
      <3> QED
        BY <3>1, <3>2
    <2>2. AsksKnown(asks', desk', made')
      BY <2>1 DEF AsksKnown
    <2> QED
      BY <2>2
  <1>14. Young(desk') \subseteq Young(desk) \union {e}
    BY <1>9, <1>11 DEF Young
  <1>15. ~default \/ Rows = {} => Young(desk') \subseteq Young(desk)
    BY <1>9, <1>10, <1>11, <1>12 DEF Young
  <1>16. ASSUME ~default \/ Rows # {}, Owed(desk', asks') PROVE Owed(desk, asks)
    <2>1. CASE DefaultsOf(desk') \intersect OldestOf(desk') # {}
      <3>1. PICK n : n \in DefaultsOf(desk') /\ n \in OldestOf(desk')
        BY <2>1
      <3>2. n # e
        BY <1>2, <1>10, <1>11, <1>12, <1>16, <3>1
      <3>3. n \in DefaultsOf(desk) /\ n \in OldestOf(desk)
        BY <1>9, <1>11, <3>1, <3>2
      <3> QED
        BY <3>3 DEF Owed
    <2>2. ASSUME NEW r \in DeskReqs, Removes(asks'[r]), asks'[r].target \notin DefaultsOf(desk')
          PROVE  Owed(desk, asks)
      <3>1. asks'[r] = asks[r]
        BY <2>2, NoAskTyped DEF Removes
      <3>2. asks[r].target \notin DefaultsOf(desk)
        BY <1>11, <2>2, <3>1
      <3> QED
        BY <2>2, <3>1, <3>2 DEF Owed
    <2> QED
      BY <1>16, <2>1, <2>2 DEF Owed
  <1> QED
    BY <1>1, <1>8, <1>13, <1>14, <1>15, <1>16

LEMMA CreatesInv ==
  ASSUME DeskInv, NEW c \in DeskReqs, ConnectCreates(c)
  PROVE  DeskInv'
  <1>0. asks[c] \in Ask /\ asks[c].pc = "create" /\ AskGoes(c, NoAsk)
    BY DEF DeskInv, DeskTypes, ConnectCreates, AtAsk
  <1>1. /\ asks' \in [DeskReqs -> Ask] /\ asks'[c] = NoAsk /\ \A b \in DeskReqs : b # c => asks'[b] = asks[b]
        /\ Makers(asks') = Makers(asks) \ {c}
    BY <1>0, AskSteps, NoAskTyped DEF DeskInv
  <1>2. CASE UNCHANGED <<desk, made>>
    BY <1>0, <1>2, AskAlone, NoAskTyped DEF AskKnown, Removes
  <1>3. CASE Creates("ALPACA", asks[c].number, asks[c].default)
    <2>1. PICK number \in Numbers \union TsNumbers \union {0} : number = asks[c].number
      BY <1>0 DEF Ask
    <2>2. PICK default \in BOOLEAN : default = asks[c].default
      BY <1>0 DEF Ask
    <2>3. Creates("ALPACA", number, default)
      BY <1>3, <2>1, <2>2
    <2>4. /\ DeskTypes' /\ AsksKnown(asks, desk, made)'
          /\ Young(desk') \subseteq Young(desk) \union {made + 1}
          /\ ~default \/ Rows = {} => Young(desk') \subseteq Young(desk)
          /\ ~default \/ Rows # {} => (Owed(desk', asks') => Owed(desk, asks))
      BY <1>1, <2>3, Created
    <2>5. default => c \in Makers(asks)
      BY <1>0, <2>2 DEF Makers
    <2>6. Tally(Young(desk), Makers(asks), Owed(desk, asks))'
      <3>1. CASE ~default
        BY <1>1, <2>4, <3>1, TallyKept DEF Moved
      <3>2. CASE default /\ Rows = {}
        BY <1>1, <2>4, <2>5, <3>2, TallyKept DEF Moved
      <3>3. CASE default /\ Rows # {}
        <4>1. /\ \E b \in Makers(asks) : Makers(asks') \subseteq Makers(asks) \ {b}
              /\ \E e : Young(desk') \subseteq Young(desk) \union {e}
              /\ Owed(desk', asks') => Owed(desk, asks)
          BY <1>1, <2>4, <2>5, <3>3
        <4> QED
          BY <4>1, TallyKept DEF Moved
      <3> QED
        BY <3>1, <3>2, <3>3
    <2> QED
      BY <2>4, <2>6 DEF DeskInv
  <1> QED
    BY <1>2, <1>3 DEF ConnectCreates

LEMMA CallbackInv ==
  ASSUME DeskInv, NEW number \in TsNumbers, CallbackSaves(number)
  PROVE  DeskInv'
  <1>1. Creates("TRADESTATION", number, FALSE) /\ asks' = asks
    BY DEF CallbackSaves
  <1>2. asks' \in [DeskReqs -> Ask]
    BY <1>1 DEF DeskInv, DeskTypes
  <1>3. /\ DeskTypes' /\ AsksKnown(asks, desk, made)' /\ Young(desk') \subseteq Young(desk)
        /\ Owed(desk', asks') => Owed(desk, asks)
    BY <1>1, <1>2, Created
  <1>4. Makers(asks') \subseteq Makers(asks)
    BY <1>1
  <1>5. Tally(Young(desk), Makers(asks), Owed(desk, asks))'
    BY <1>3, <1>4, TallyKept DEF Moved
  <1> QED
    BY <1>3, <1>5 DEF DeskInv

-----------------------------------------------------------------------------
LEMMA RemoveBegins ==
  ASSUME DeskInv, NEW c \in DeskReqs, NEW n \in AccountIds, RemoveLoads(c, n)
  PROVE  DeskInv'
  <1>1. n \in Rows /\ n \in Nat /\ n <= made /\ desk[n].is_default \in BOOLEAN
    BY DEF RemoveLoads, DeskInv, DeskTypes, Account
  <1>2. PICK v \in BOOLEAN : v = desk[n].is_default
    BY <1>1
  <1>3. PICK k : k = [NoAsk EXCEPT !.pc = "delete", !.target = n, !.default = v] /\ AskGoes(c, k)
    BY <1>2 DEF RemoveLoads
  <1>4. k \in Ask /\ k.pc = "delete" /\ k.target = n /\ k.default = v
    BY <1>1, <1>3 DEF NoAsk, Ask, AskPc
  <1>5. AskKnown(k, desk, made)
    BY <1>1, <1>4 DEF AskKnown
  <1>6. v => n \in DefaultsOf(desk)
    BY <1>1, <1>2 DEF DefaultsOf, Rows
  <1>7. UNCHANGED <<desk, made>>
    BY DEF RemoveLoads
  <1>8. ~(Removes(k) /\ k.target \notin DefaultsOf(desk)) /\ ~(k.pc = "create")
    BY <1>4, <1>6 DEF Removes
  <1> QED
    BY <1>3, <1>4, <1>5, <1>7, <1>8, AskAlone

\* With the row goes its place, unless another default becomes the oldest, or a removal
\* comes to owe a promotion: then one of them has it.
LEMMA DeletesInv ==
  ASSUME DeskInv, NEW c \in DeskReqs, RemoveDeletes(c)
  PROVE  DeskInv'
  <1>0. asks[c] \in Ask /\ asks[c].pc = "delete" /\ made' = made /\ made \in Nat
    BY DEF DeskInv, DeskTypes, RemoveDeletes, AtAsk
  <1>1. PICK t : t = asks[c].target
    OBVIOUS
  <1>2. PICK k : k = (IF asks[c].default THEN [asks[c] EXCEPT !.pc = "pick"] ELSE NoAsk) /\ AskGoes(c, k)
    BY DEF RemoveDeletes
  <1>3. /\ k \in Ask /\ k.pc \in {"idle", "pick"} /\ t \in Nat
        /\ k.pc = "pick" => asks[c].default /\ k.default /\ k.target = t
    BY <1>0, <1>1, <1>2, NoAskTyped DEF Ask, AskPc
  <1>4. /\ asks' \in [DeskReqs -> Ask] /\ asks'[c] = k /\ \A b \in DeskReqs : b # c => asks'[b] = asks[b]
        /\ Makers(asks') \subseteq Makers(asks)
    BY <1>2, <1>3, AskSteps DEF DeskInv
  <1>5. desk' = [n \in Rows \ {t} |-> desk[n]]
    BY <1>1 DEF RemoveDeletes
  <1>6. DOMAIN desk' = Rows \ {t} /\ \A n \in Rows \ {t} : desk'[n] = desk[n]
    BY <1>5
  <1>7. DeskTypes'
    <2>1. desk' \in [Rows \ {t} -> Account]
      BY <1>5 DEF DeskInv, DeskTypes
    <2>2. Rows' = Rows \ {t} /\ Rows' \subseteq 1..made'
      BY <1>0, <1>6 DEF DeskInv, DeskTypes, Rows
    <2> QED
      BY <1>0, <1>4, <2>1, <2>2 DEF DeskTypes
  <1>8. DefaultsOf(desk') = DefaultsOf(desk) \ {t}
    BY <1>6 DEF DefaultsOf, Rows
  <1>9. OldestOf(desk) \ {t} \subseteq OldestOf(desk')
    BY <1>6 DEF OldestOf, Rows
  <1>10. AsksKnown(asks, desk, made)'
    <2>1. AskKnown(asks[c], desk, made) /\ \A b \in DeskReqs : AskKnown(asks[b], desk, made)
      BY DEF DeskInv, AsksKnown
    <2>2. AskKnown(k, desk', made)
      BY <1>0, <1>1, <1>3, <1>6, <2>1 DEF AskKnown
    <2>3. ASSUME NEW b \in DeskReqs, b # c PROVE AskKnown(asks'[b], desk', made)
      BY <1>4, <1>6, <1>9, <2>1, <2>3 DEF AskKnown, Rows
    <2>4. \A b \in DeskReqs : AskKnown(asks'[b], desk', made)
      BY <1>4, <2>2, <2>3
    <2> QED
      BY <1>0, <2>4 DEF AsksKnown
  <1>11. Young(desk') \subseteq Young(desk)
    BY <1>8, <1>9 DEF Young
  <1>12. Tally(Young(desk), Makers(asks), Owed(desk, asks))'
    <2>1. CASE t \in Young(desk)
      <3>1. Young(desk') \subseteq Young(desk) \ {t}
        BY <1>8, <1>11 DEF Young
      <3> QED
        BY <1>4, <2>1, <3>1, TallyKept DEF Moved
    <2>2. ASSUME NEW e, e \in DefaultsOf(desk'), e \in OldestOf(desk'), e \notin OldestOf(desk)
          PROVE  Tally(Young(desk), Makers(asks), Owed(desk, asks))'
      <3>1. e \in Young(desk) /\ Young(desk') \subseteq Young(desk) \ {e}
        BY <1>8, <1>11, <2>2 DEF Young
      <3> QED
        BY <1>4, <3>1, TallyKept DEF Moved
    <2>3. CASE /\ t \notin Young(desk)
               /\ ~\E e : e \in DefaultsOf(desk') /\ e \in OldestOf(desk') /\ e \notin OldestOf(desk)
      <3>1. ASSUME Owed(desk', asks') PROVE Owed(desk, asks)
        <4>1. CASE DefaultsOf(desk') \intersect OldestOf(desk') # {}
          BY <1>8, <2>3, <4>1 DEF Owed
        <4>2. CASE t \in DefaultsOf(desk)
          BY <2>3, <4>2 DEF Young, Owed
        <4>3. ASSUME t \notin DefaultsOf(desk), NEW r \in DeskReqs, Removes(asks'[r]), asks'[r].target \notin DefaultsOf(desk')
              PROVE  Owed(desk, asks)
          <5>1. asks'[r].target \notin DefaultsOf(desk)
            BY <1>8, <4>3
          <5>2. CASE r = c
            <6>1. asks[c].default /\ Removes(asks[c]) /\ asks[c].target \notin DefaultsOf(desk)
              BY <1>0, <1>1, <1>3, <1>4, <4>3, <5>2 DEF Removes
            <6> QED
              BY <6>1 DEF Owed
          <5>3. CASE r # c
            BY <1>4, <4>3, <5>1, <5>3 DEF Owed
          <5> QED
            BY <5>2, <5>3
        <4> QED
          BY <3>1, <4>1, <4>2, <4>3 DEF Owed
      <3> QED
        BY <1>4, <1>11, <3>1, TallyKept DEF Moved
    <2> QED
      BY <2>1, <2>2, <2>3
  <1> QED
    BY <1>7, <1>10, <1>12 DEF DeskInv

LEMMA PicksInv ==
  ASSUME DeskInv, NEW c \in DeskReqs, RemovePicks(c)
  PROVE  DeskInv'
  <1>0. /\ asks[c] \in Ask /\ asks[c].pc = "pick" /\ UNCHANGED <<desk, made>> /\ made \in Nat
        /\ AskKnown(asks[c], desk, made) /\ Rows \subseteq 1..made
    BY DEF DeskInv, DeskTypes, AsksKnown, RemovePicks, AtAsk
  <1>1. CASE AskGoes(c, NoAsk)
    BY <1>0, <1>1, AskAlone, NoAskTyped DEF AskKnown, Removes
  <1>2. ASSUME NEW n \in Oldest, AskGoes(c, [asks[c] EXCEPT !.pc = "save", !.next = n]) PROVE DeskInv'
    <2>1. n \in Rows /\ n \in Nat /\ n <= made /\ n \in OldestOf(desk)
      BY <1>0, <1>2 DEF Oldest, OldestOf, Rows
    <2>2. PICK k : k = [asks[c] EXCEPT !.pc = "save", !.next = n] /\ AskGoes(c, k)
      BY <1>2
    <2>3. k \in Ask /\ k.pc = "save" /\ k.next = n /\ k.target = asks[c].target /\ k.default = asks[c].default
      BY <1>0, <2>1, <2>2 DEF Ask, AskPc
    <2>4. AskKnown(k, desk, made)
      BY <1>0, <2>1, <2>3 DEF AskKnown
    <2>5. Removes(k) => Removes(asks[c])
      BY <1>0, <2>3 DEF Removes
    <2> QED
      BY <1>0, <2>2, <2>3, <2>4, <2>5, AskAlone
  <1> QED
    BY <1>1, <1>2 DEF RemovePicks

\* The promotion was owed.
LEMMA PromotesInv ==
  ASSUME DeskInv, NEW c \in DeskReqs, RemovePromotes(c)
  PROVE  DeskInv'
  <1>0. /\ asks[c] \in Ask /\ asks[c].pc = "save" /\ AskGoes(c, NoAsk) /\ made' = made
        /\ AskKnown(asks[c], desk, made)
    BY DEF DeskInv, DeskTypes, AsksKnown, RemovePromotes, AtAsk
  <1>1. /\ asks' \in [DeskReqs -> Ask] /\ asks'[c] = NoAsk /\ \A b \in DeskReqs : b # c => asks'[b] = asks[b]
        /\ Makers(asks') \subseteq Makers(asks)
    BY <1>0, AskSteps, NoAskTyped DEF DeskInv
  <1>2. PICK x : x = asks[c].next
    OBVIOUS
  <1>3. desk' = [n \in Rows |-> IF n = x THEN [desk[n] EXCEPT !.is_default = TRUE] ELSE desk[n]]
    BY <1>2 DEF RemovePromotes
  <1>4. /\ DOMAIN desk' = Rows /\ Rows' = Rows /\ \A n \in Rows : desk'[n] \in Account
        /\ \A n \in Rows : desk'[n].is_default <=> desk[n].is_default \/ n = x
    <2>1. \A n \in Rows : desk[n] \in Account
      BY DEF DeskInv, DeskTypes
    <2> QED
      BY <1>3, <2>1 DEF Account, Rows
  <1>5. DeskTypes'
    <2>1. desk' \in [Rows -> Account]
      BY <1>3, <1>4
    <2> QED
      BY <1>0, <1>1, <1>4, <2>1 DEF DeskInv, DeskTypes
  <1>6. OldestOf(desk') = OldestOf(desk) /\ DOMAIN desk' = DOMAIN desk
    BY <1>4 DEF OldestOf, Rows
  <1>7. AsksKnown(asks, desk, made)'
    <2>1. \A b \in DeskReqs : AskKnown(asks'[b], desk, made)
      BY <1>1, NoAskTyped DEF DeskInv, AsksKnown, AskKnown
    <2>2. \A b \in DeskReqs : AskKnown(asks'[b], desk', made)
      BY <1>6, <2>1 DEF AskKnown
    <2> QED
      BY <1>0, <2>2 DEF AsksKnown
  <1>8. DefaultsOf(desk) \subseteq DefaultsOf(desk') /\ DefaultsOf(desk') \subseteq DefaultsOf(desk) \union {x}
    BY <1>4 DEF DefaultsOf, Rows
  <1>9. x \in DefaultsOf(desk') => x \in OldestOf(desk)
    BY <1>0, <1>2, <1>4 DEF DefaultsOf, AskKnown, Rows
  <1>10. Young(desk') \subseteq Young(desk)
    BY <1>6, <1>8, <1>9 DEF Young
  <1>11. Owed(desk, asks)
    <2>1. Removes(asks[c]) /\ asks[c].target \notin DefaultsOf(desk)
      BY <1>0 DEF AskKnown, Removes, DefaultsOf
    <2> QED
      BY <2>1 DEF Owed
  <1>12. Tally(Young(desk), Makers(asks), Owed(desk, asks))'
    BY <1>1, <1>10, <1>11, TallyKept DEF Moved
  <1> QED
    BY <1>5, <1>7, <1>12 DEF DeskInv

LEMMA DeskNextInv == DeskInv /\ [DeskNext]_deskVars => DeskInv'
  <1> SUFFICES ASSUME DeskInv, [DeskNext]_deskVars PROVE DeskInv'
    OBVIOUS
  <1>1. CASE UNCHANGED deskVars
    BY <1>1 DEF deskVars, DeskInv, DeskTypes, Rows
  <1>2. ASSUME NEW c \in DeskReqs,
               \/ ConnectCounts(c) \/ \E number \in Numbers, wants \in BOOLEAN : ConnectStarts(c, number, wants)
        PROVE  DeskInv'
    BY <1>2, ConnectBegins
  <1>3. ASSUME NEW c \in DeskReqs, ConnectClears(c) \/ ConnectCreates(c) PROVE DeskInv'
    BY <1>3, ClearsInv, CreatesInv
  <1>4. ASSUME NEW c \in DeskReqs, NEW n \in AccountIds, RemoveLoads(c, n) PROVE DeskInv'
    BY <1>4, RemoveBegins
  <1>5. ASSUME NEW c \in DeskReqs, RemoveDeletes(c) \/ RemovePicks(c) \/ RemovePromotes(c) PROVE DeskInv'
    BY <1>5, DeletesInv, PicksInv, PromotesInv
  <1>6. ASSUME NEW number \in TsNumbers, CallbackSaves(number) PROVE DeskInv'
    BY <1>6, CallbackInv
  <1> QED
    BY <1>1, <1>2, <1>3, <1>4, <1>5, <1>6 DEF DeskNext

-----------------------------------------------------------------------------
(* The parts side by side: a step is a step of one and leaves the others alone *)

AccessInv == IdInv /\ StratInv /\ GateTypeOK /\ DeskInv /\ StreamsInv /\ TsInv /\ DeputyTypeOK

LEMMA PartSteps ==
  ASSUME [AccessNext]_accessVars
  PROVE  /\ [IdentityNext]_allVars /\ [CallNext]_stratVars /\ [GateNext]_gateVars
         /\ [DeskNext]_deskVars /\ [StreamsNext]_streamVars /\ [TsNext]_tsVars /\ [DeputyNext]_deputyVars
  BY DEF AccessNext, accessVars

LEMMA AccessInitInv == AccessInit => AccessInv
  BY IdInitInv, StratInitInv, GateInitInv, DeskInitInv, StreamsInitInv, TsInitInv, DeputyInitInv DEF AccessInit, AccessInv

LEMMA AccessNextInv == AccessInv /\ [AccessNext]_accessVars => AccessInv'
  <1> SUFFICES ASSUME AccessInv, [AccessNext]_accessVars PROVE AccessInv'
    OBVIOUS
  <1>1. /\ [IdentityNext]_allVars /\ [CallNext]_stratVars /\ [GateNext]_gateVars
        /\ [DeskNext]_deskVars /\ [StreamsNext]_streamVars /\ [TsNext]_tsVars /\ [DeputyNext]_deputyVars
    BY PartSteps
  <1>2. IdInv' /\ StratInv'
    BY <1>1, IdNextInv, StratNextInv DEF AccessInv
  <1>3. GateTypeOK' /\ DeskInv' /\ StreamsInv' /\ TsInv' /\ DeputyTypeOK'
    BY <1>1, GateNextInv, DeskNextInv, StreamsNextInv, TsNextInv, DeputyNextInv DEF AccessInv
  <1> QED
    BY <1>2, <1>3 DEF AccessInv

LEMMA AccessKeeps == AccessSpec => []AccessInv
  BY AccessInitInv, AccessNextInv, PTL DEF AccessSpec

\* When a password reset, a password change or an admin's disable answers, every
\* family that was live when it saved the user row is revoked, the caller's own
\* excepted (revoke_other_sessions, users/services.py); and the rows are what the
\* tables allow, however requests, tasks and admins interleave.
THEOREM SessionsAreEnded == AccessSpec => []SessionsEnd
  <1>1. AccessInv => SessionsEnd
    BY SessionsEnded, StratHolds DEF AccessInv, SessionsEnd
  <1> QED
    BY <1>1, AccessKeeps, PTL

\* Attempts in flight together pass the lockout threshold by no more than one each,
\* and the codes judged wrong between two resets of the counter stay within
\* n (2 MaxMisses + n - 1) / 2 for n requests, although the counter is read before
\* and written after the code is judged (LoginView, MFAVerifyView and
\* verify_mfa_code in apps/users).
THEOREM GuessesAreFew == AccessSpec => []GuessingIsBounded
  <1>1. AccessInv => GuessingIsBounded
    BY Guessed DEF AccessInv
  <1> QED
    BY <1>1, AccessKeeps, PTL

\* A strategy that is neither being uploaded nor left by a failed upload has its
\* script, its description and its template (StrategyUploadView and
\* upsert_system_strategy).
THEOREM UploadsAreWhole == AccessSpec => []UploadsWhole
  <1>1. AccessInv => UploadsWhole
    BY DEF AccessInv, StratInv
  <1> QED
    BY <1>1, AccessKeeps, PTL

\* A row's refresh token is one the broker accepts, whichever of its calls that
\* refreshed saves last and whatever login comes between; where the broker replaces
\* refresh tokens, of a login of one account, unless a call still has tokens to save or a
\* refreshed token was dropped (_request and _persist_tokens of tradestation/client.py and
\* adapter.py, and the callback of tradestation/views.py, with its own 401 refresh and a row
\* for each account of the login).
THEOREM RowIsUsable == AccessSpec => []RowStaysUsable
  <1>1. AccessInv => RowStaysUsable
    BY RowUsable DEF AccessInv
  <1> QED
    BY <1>1, AccessKeeps, PTL

\* An account has one stream that was not told to stop, and one whose threads all wait
\* to reconnect is not shown as connected as long as heartbeats can be written, unless
\* touch_heartbeat has written back what it read before a thread wrote and none has
\* written since (_reconcile_threads, run_forever and _run_account, brokers/streams.py).
THEOREM StreamsAreHonest == AccessSpec => []StreamsHonest
  <1>1. AccessInv => StreamsHonest
    BY StreamsHold DEF AccessInv, StreamsHonest
  <1> QED
    BY <1>1, AccessKeeps, PTL

\* A user has at most as many default accounts as requests of theirs ran at once, however
\* the statements of connects and removals mix and however many there were: what one
\* race leaves, the next does not add to (brokers/views.py).
THEOREM DefaultsAreBounded == AccessSpec => []DefaultsBounded
  <1>1. AccessInv => DefaultsBounded
    BY DefaultsCounted DEF AccessInv
  <1> QED
    BY <1>1, AccessKeeps, PTL

\* A revoked family stays as it was, an erased account gets its name back only from
\* a reset that had loaded the row before, and an impersonation that ended or ran out
\* lets nobody in again.
THEOREM NothingRevives == AccessSpec => NothingComesBack
  <1> DEFINE Revoked_ == \A f \in DOMAIN fams : fams[f].st = "revoked" => fams'[f] = fams[f]
             Erased_  == user.name = "anon" /\ user'.name = "own" =>
                           \E r \in Reqs : At(r, "reset") /\ reqs[r].me.name = "own"
  <1>1. AccessInv /\ [AccessNext]_accessVars => [Revoked_]_accountVars
    BY PartSteps, IdNextInv DEF AccessInv, FamsGrow
  <1>2. AccessInv /\ [AccessNext]_accessVars => [Erased_]_allVars
    BY PartSteps, Revival DEF AccessInv
  <1>3. AccessInv /\ [AccessNext]_accessVars => [Closed]_deputyVars
    BY PartSteps, DeputyNextInv DEF AccessInv
  <1>4. AccessSpec => [][Revoked_]_accountVars /\ [][Erased_]_allVars /\ [][Closed]_deputyVars
    BY <1>1, <1>2, <1>3, AccessKeeps, PTL DEF AccessSpec
  <1> QED
    BY <1>4 DEF NothingComesBack, RevokedStaysRevoked, OnlyResetRevives, StoppedForGood, Closed

\* A device is only ever verified by the confirmation of that very device (MFAEnrollConfirmView).
THEOREM DevicesAreConfirmed == AccessSpec => OnlyConfirmedDevices
  <1> DEFINE Proven == mfa_enabled' /\ ~mfa_enabled =>
                         \E r \in Reqs : At(r, "confirm") /\ reqs[r].ref = device.id
                                         /\ device'.id = device.id /\ device.st = "pending"
  <1>1. AccessInv /\ [AccessNext]_accessVars => [Proven]_vars
    BY PartSteps, Confirmed DEF AccessInv
  <1>2. AccessSpec => [][Proven]_vars
    BY <1>1, AccessKeeps, PTL DEF AccessSpec
  <1> QED
    BY <1>2 DEF OnlyConfirmedDevices

\* A secret is only replaced by one just minted, whatever a request read before, and a
\* request of an impersonating admin leaves the catalogue, the configs and the secrets
\* alone (rotate_secret and get_or_create_webhook_config, strategies/services.py).
THEOREM StaleCopiesAreHarmless == AccessSpec => CopiesAreHarmless
  <1> DEFINE Minted_ == \A i \in 1..MaxStrats : hooks'[i].secret # hooks[i].secret =>
                          minted' > minted /\ hooks'[i].secret = minted'
             Looks   == \A c \in Calls : calls[c].imp /\ calls'[c] # calls[c] => UNCHANGED <<strats, hooks, minted>>
  <1>1. AccessInv /\ [AccessNext]_accessVars => [Minted_]_stratVars /\ [Looks]_stratVars
    BY PartSteps, SecretsMove, ReadsMove DEF AccessInv
  <1>2. AccessSpec => [][Minted_]_stratVars /\ [][Looks]_stratVars
    BY <1>1, AccessKeeps, PTL DEF AccessSpec
  <1> QED
    BY <1>2 DEF CopiesAreHarmless, SecretsStayDead, ReadsChangeNothing
=============================================================================
