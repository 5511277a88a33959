----------------------------- MODULE AuditChain -----------------------------
(***************************************************************************)
(* The hash-chained audit log on Postgres (apps/audit): emit() inside a    *)
(* business transaction, the trigger that re-checks the link               *)
(* (migration 0002), and the nightly verifier with its cursor.             *)
(*                                                                         *)
(* A hash is what it stands for: the sequence of the payloads from the     *)
(* genesis row on, injective in the previous hash and the payload.         *)
(* Isolation is READ COMMITTED: a query sees what is committed and what    *)
(* its own transaction wrote. Nobody tampers: the triggers are installed   *)
(* and the rows are those that emit() writes.                              *)
(***************************************************************************)
EXTENDS Integers, Sequences

CONSTANTS
  Writers,   \* connections whose business transactions emit
  Verifiers, \* workers that run verify_audit_integrity
  NoOne,     \* nobody, as the holder of the lock
  MaxEmits,  \* bound: calls of emit() by one connection
  MaxRuns,   \* bound: runs of one verifier
  MaxMishaps \* bound: failed inserts, rollbacks and deaths

ASSUME ConstantsAssumption ==
  /\ Writers \cap Verifiers = {} /\ NoOne \notin Writers \cup Verifiers
  /\ MaxEmits \in Nat /\ MaxRuns \in Nat /\ MaxMishaps \in Nat

Procs == Writers \cup Verifiers
GenesisPrevHash == <<>>
Hash(prev, payload) == Append(prev, payload)

VARIABLES
  committed, \* the rows every connection sees
  written,   \* the rows each open transaction has added
  sequence,  \* the id sequence of audit_log; a rollback leaves a gap
  lock,      \* holder of pg_advisory_xact_lock(hashtext('audit_log'))
  taken,     \* connections whose present savepoint took the lock
  pc,        \* where each connection is
  head,      \* the prev_hash emit() read
  calls,     \* calls of emit() so far, by connection
  cursor,    \* the row of audit_verifier_state
  found,     \* what a verifier loaded or found: ok, id and hash
  runs,      \* runs of each verifier
  refused,   \* rows that the link trigger refused
  mishaps

vars == <<committed, written, sequence, lock, taken, pc, head, calls, cursor, found, runs,
          refused, mishaps>>
rows == <<committed, written, sequence>>
verification == <<cursor, found, runs>>

Last(these) == CHOOSE r \in these : \A s \in these : s.id <= r.id
Cursor(id, hash, result) == [id |-> id, hash |-> hash, result |-> result]
Nothing == Cursor(0, GenesisPrevHash, "")

Payloads == Procs \X Nat
Hashes == Seq(Payloads)
AuditLog == [id : Nat \ {0}, prev : Hashes, payload : Payloads, self : Hashes]
AuditVerifierState == [id : Nat, hash : Hashes, result : {"", "ok", "fail"}]

TypeOK ==
  /\ committed \in SUBSET AuditLog /\ written \in [Procs -> SUBSET AuditLog]
  /\ sequence \in Nat
  /\ lock \in Procs \cup {NoOne} /\ taken \in SUBSET Procs
  /\ pc \in [Procs -> {"idle", "open", "waits", "locked", "read", "loaded", "walked"}]
  /\ head \in [Procs -> Hashes] /\ calls \in [Procs -> Nat]
  /\ cursor \in AuditVerifierState /\ found \in [Verifiers -> AuditVerifierState]
  /\ runs \in [Verifiers -> 0..MaxRuns]
  /\ refused \in Nat /\ mishaps \in 0..MaxMishaps

Init ==
  /\ committed = {} /\ written = [p \in Procs |-> {}] /\ sequence = 0
  /\ lock = NoOne /\ taken = {}
  /\ pc = [p \in Procs |-> "idle"] /\ head = [p \in Procs |-> GenesisPrevHash]
  /\ calls = [p \in Procs |-> 0]
  /\ cursor = Nothing
  /\ found = [v \in Verifiers |-> Nothing] /\ runs = [v \in Verifiers |-> 0]
  /\ refused = 0 /\ mishaps = 0

At(p, from, to) == pc[p] = from /\ pc' = [pc EXCEPT ![p] = to]
Mishap == mishaps < MaxMishaps /\ mishaps' = mishaps + 1

(***************************************************************************)
(* Transactions.                                                           *)
(***************************************************************************)

\* An advisory lock of a transaction ends with the transaction.
LetGo(p) == IF lock = p THEN NoOne ELSE lock

Commit(p) ==
  /\ At(p, "open", "idle")
  /\ committed' = committed \cup written[p] /\ written' = [written EXCEPT ![p] = {}]
  /\ lock' = LetGo(p)
  /\ UNCHANGED <<sequence, taken, head, calls, verification, refused, mishaps>>

\* A local of emit() that has ended.
Forget(p) == head' = [head EXCEPT ![p] = GenesisPrevHash]

\* The business code raises, the connection drops or the process dies. A verifier outside
\* its emit() just stops.
Rollback(p) ==
  /\ Mishap /\ pc[p] # "idle" /\ pc' = [pc EXCEPT ![p] = "idle"]
  /\ written' = [written EXCEPT ![p] = {}]
  /\ lock' = LetGo(p) /\ taken' = taken \ {p} /\ Forget(p)
  /\ found' = [v \in Verifiers |-> IF v = p THEN Nothing ELSE found[v]]
  /\ UNCHANGED <<committed, sequence, calls, cursor, runs, refused>>

(***************************************************************************)
(* emit()                                                                  *)
(***************************************************************************)

\* The payload is built and the savepoint opens, in the business transaction that runs
\* or in a new one: without one, emit() is a transaction of its own.
Call(w) ==
  /\ pc[w] \in {"idle", "open"} /\ pc' = [pc EXCEPT ![w] = "waits"]
  /\ calls[w] < MaxEmits /\ calls' = [calls EXCEPT ![w] = @ + 1]
  /\ UNCHANGED <<rows, lock, taken, head, verification, refused, mishaps>>

\* Takes the lock, unless the transaction has it from an earlier emit().
TakeLock(p) ==
  /\ lock \in {NoOne, p} /\ lock' = p
  /\ taken' = IF lock = NoOne THEN taken \cup {p} ELSE taken

AdvisoryLock(p) ==
  /\ At(p, "waits", "locked") /\ TakeLock(p)
  /\ UNCHANGED <<rows, head, calls, verification, refused, mishaps>>

\* Mutant: the head is read outside of the business transaction.
CommittedHead(p) == IF committed = {} THEN GenesisPrevHash ELSE Last(committed).self

\* ORDER BY id DESC LIMIT 1, in a snapshot of its own.
HeadHash(p) ==
  LET seen == committed \cup written[p]
  IN IF seen = {} THEN GenesisPrevHash ELSE Last(seen).self

ReadHead(p) ==
  /\ At(p, "locked", "read") /\ head' = [head EXCEPT ![p] = HeadHash(p)]
  /\ UNCHANGED <<rows, lock, taken, calls, verification, refused, mishaps>>

NewRow(p) ==
  [id |-> sequence + 1, prev |-> head[p], payload |-> <<p, calls[p]>>,
   self |-> Hash(head[p], <<p, calls[p]>>)]

\* The trigger takes the lock as well and compares the link with the head it sees.
LinkHolds(p) == head[p] = HeadHash(p)

\* Mutant: the lock ends with the savepoint.
UnlockedWithSavepoint(p) == NoOne

\* The savepoint is released: what it locked stays locked until the transaction ends.
LockAfterSavepoint(p) == p

AddRow(p) ==
  /\ written' = [written EXCEPT ![p] = @ \cup {NewRow(p)}]
  /\ lock' = LockAfterSavepoint(p) /\ taken' = taken \ {p} /\ Forget(p)
  /\ UNCHANGED <<committed, calls, verification, refused>>

\* Back to the savepoint: a lock it took is given back. emit() returns None and the
\* transaction goes on.
BackToSavepoint(p) ==
  /\ lock' = IF p \in taken THEN NoOne ELSE lock
  /\ taken' = taken \ {p} /\ Forget(p)
  /\ UNCHANGED <<committed, written, calls, verification>>

\* The id is drawn before the trigger decides.
Insert(p) ==
  /\ At(p, "read", "open") /\ lock \in {NoOne, p}
  /\ sequence' = sequence + 1 /\ UNCHANGED mishaps
  /\ IF LinkHolds(p) THEN AddRow(p) ELSE BackToSavepoint(p) /\ refused' = refused + 1

\* Any other database error between the savepoint and the insert.
EmitFails(p) ==
  /\ pc[p] \in {"waits", "locked", "read"} /\ pc' = [pc EXCEPT ![p] = "open"]
  /\ Mishap
  /\ sequence' = sequence \/ (pc[p] = "read" /\ sequence' = sequence + 1)
  /\ BackToSavepoint(p) /\ UNCHANGED refused

(***************************************************************************)
(* run_verifier()                                                          *)
(***************************************************************************)

LoadCursor(v) ==
  /\ At(v, "idle", "loaded") /\ runs[v] < MaxRuns
  /\ runs' = [runs EXCEPT ![v] = @ + 1] /\ found' = [found EXCEPT ![v] = cursor]
  /\ UNCHANGED <<rows, lock, taken, head, calls, cursor, refused, mishaps>>

\* A row that a walk from an id and hash reaches links to the row before it.
Fits(r, later, hash) ==
  LET before == {s \in later : s.id < r.id}
      prev   == IF before = {} THEN hash ELSE Last(before).self
  IN r.prev = prev /\ r.self = Hash(prev, r.payload)

\* verify_chain(), in the one snapshot of its cursor. Where a failed walk stopped is only
\* reported.
Walk(id, hash) ==
  LET later == {r \in committed : r.id > id}
  IN IF \E r \in later : ~Fits(r, later, hash) THEN Cursor(id, hash, "fail")
     ELSE IF later = {} THEN Cursor(id, hash, "ok")
     ELSE Cursor(Last(later).id, Last(later).self, "ok")

VerifyChain(v) ==
  /\ At(v, "loaded", "walked")
  /\ found' = [found EXCEPT ![v] = Walk(@.id, @.hash)]
  /\ UNCHANGED <<rows, lock, taken, head, calls, cursor, runs, refused, mishaps>>

\* Mutant: update_fields leaves the hash out.
SavedWithoutHash(f) == [f EXCEPT !.hash = cursor.hash]

\* save(update_fields=...): the two columns of the cursor only on success.
Saved(f) == IF f.result = "ok" THEN f ELSE [cursor EXCEPT !.result = "fail"]

SaveCursor(v) ==
  /\ At(v, "walked", "waits") /\ cursor' = Saved(found[v])
  /\ calls' = [calls EXCEPT ![v] = @ + 1]
  /\ found' = [found EXCEPT ![v] = Nothing]
  /\ UNCHANGED <<rows, lock, taken, head, runs, refused, mishaps>>

Emits(p) == AdvisoryLock(p) \/ ReadHead(p) \/ Insert(p)
Verifies(v) == VerifyChain(v) \/ SaveCursor(v)

Next ==
  \/ \E w \in Writers : Call(w)
  \/ \E v \in Verifiers : LoadCursor(v) \/ Verifies(v)
  \/ \E p \in Procs : Emits(p) \/ EmitFails(p) \/ Commit(p) \/ Rollback(p)

Spec == Init /\ [][Next]_vars

\* What has begun goes on, and business code that has emitted reaches the end of its
\* transaction. A waiter needs no more than weak fairness: the calls are bounded.
Fairness ==
  /\ \A p \in Procs : WF_vars(Emits(p)) /\ WF_vars(Commit(p))
  /\ \A v \in Verifiers : WF_vars(Verifies(v))
FairSpec == Spec /\ Fairness

(***************************************************************************)
(* Properties                                                              *)
(***************************************************************************)

\* The committed rows, in the order of their ids, form one chain from the genesis hash,
\* whatever the gaps that rollbacks left: no fork, no row that links past another.
ChainLinear == \A r \in committed : Fits(r, committed, GenesisPrevHash)

\* Contention costs no row: the link trigger never refuses what emit() wrote, so that
\* every row dropped is the work of a failing database.
NeverRefused == refused = 0

\* A verifier that runs beside emits, rollbacks and another verifier never reports a
\* failure of a chain that nobody has tampered with.
NoFalseAlarm == cursor.result # "fail" /\ \A v \in Verifiers : found[v].result # "fail"

\* The cursor stands at a committed row with the hash of that row, also when an older
\* run of the verifier saved last.
CursorOnChain ==
  \/ cursor.id = 0 /\ cursor.hash = GenesisPrevHash
  \/ \E r \in committed : r.id = cursor.id /\ r.self = cursor.hash

\* A row is committed after every row a verifier may have walked: none appears behind a
\* cursor, where no later run would ever look at it.
RowsLandAhead ==
  [][\A r \in committed' \ committed : cursor.id < r.id /\ \A s \in committed : s.id < r.id]_vars

\* Every call of emit() returns: no transaction waits for ever for the advisory lock.
EmitReturns ==
  \A p \in Procs : pc[p] \in {"waits", "locked", "read"} ~> pc[p] \in {"open", "idle"}

\* The chain and the cursor on it stand, and calls and commits go forward.
ChainSound == TypeOK /\ ChainLinear /\ NeverRefused /\ CursorOnChain
AuditMoves == RowsLandAhead /\ EmitReturns
=============================================================================
