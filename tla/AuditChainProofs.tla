-------------------------- MODULE AuditChainProofs --------------------------
(* The audit chain, for any number of connections and verifiers, of emits,     *)
(* runs and mishaps.                                                           *)
EXTENDS AuditChain, TLAPS

Seen(p) == committed \cup written[p]

\* A row holds the hash of what it follows: the newest row before it, if any.
Follows(r, log) ==
    /\ r.self = Hash(r.prev, r.payload)
    /\ \/ r.prev = GenesisPrevHash /\ \A s \in log : r.id <= s.id
       \/ \E s \in log : /\ s.id < r.id /\ r.prev = s.self
                         /\ \A t \in log : t.id < r.id => t.id <= s.id

Newest(r, log) == r \in log /\ \A s \in log : s.id <= r.id

Chain(log) ==
    /\ \A r \in log : Follows(r, log)
    /\ \A r, s \in log : r.id = s.id => r = s
    /\ log # {} => \E r \in log : Newest(r, log)

OnChain(c, log) ==
    \/ c.id = 0 /\ c.hash = GenesisPrevHash
    \/ \E r \in log : r.id = c.id /\ r.self = c.hash

RowsSound ==
    /\ Chain(committed) /\ \A p \in Procs : Chain(Seen(p))
    /\ \A r \in committed : r.id <= sequence
    /\ \A p \in Procs : \A r \in written[p] :
         r.id <= sequence /\ \A s \in committed : s.id < r.id

\* Whoever has written rows or is about to read the head holds the lock; a lock that
\* goes back with the savepoint covers no row yet.
LockSound ==
    /\ \A p \in Procs : written[p] # {} \/ pc[p] \in {"locked", "read"} => lock = p
    /\ \A p \in taken : pc[p] \in {"locked", "read"} /\ written[p] = {}

HeadSound == \A p \in Procs : pc[p] = "read" => head[p] = HeadHash(p)

Stands(c) == OnChain(c, committed) /\ c.result # "fail"
CursorSound ==
    /\ Stands(cursor)
    /\ \A v \in Verifiers : Stands(found[v]) /\ (pc[v] = "walked" => found[v].result = "ok")

AuditInv == TypeOK /\ RowsSound /\ LockSound /\ HeadSound /\ CursorSound /\ NeverRefused

-----------------------------------------------------------------------------
\* Chains of rows.

LEMMA LastIsNewest ==
  ASSUME NEW log, NEW r \in log, Newest(r, log)
  PROVE  Newest(Last(log), log)
  BY DEF Last, Newest

\* A row with a new id that holds the hash of the newest row lengthens the chain.
LEMMA ChainGrows ==
  ASSUME NEW log \in SUBSET AuditLog, Chain(log), NEW n \in Nat, \A s \in log : s.id <= n,
         NEW r \in AuditLog, r.id = n + 1, r.self = Hash(r.prev, r.payload),
         r.prev = IF log = {} THEN GenesisPrevHash ELSE Last(log).self
  PROVE  Chain(log \cup {r}) /\ \A s \in log : s.id < r.id
  <1> DEFINE all == log \cup {r}
  <1>0. \A s \in all : s.id \in Nat
    BY DEF AuditLog
  <1>1. \A s \in log : s.id < r.id
    BY <1>0
  <1>2. Follows(r, all)
    <2>1. CASE log = {}
      BY <1>0, <2>1 DEF Follows
    <2>2. CASE log # {}
      <3>1. Newest(Last(log), log)
        BY <2>2, LastIsNewest DEF Chain
      <3>2. /\ Last(log) \in all /\ Last(log).id < r.id /\ r.prev = Last(log).self
            /\ \A t \in all : t.id < r.id => t.id <= Last(log).id
        BY <1>0, <1>1, <2>2, <3>1 DEF Newest
      <3> QED
        BY <3>2 DEF Follows
    <2> QED
      BY <2>1, <2>2
  <1>3. ASSUME NEW s \in log PROVE Follows(s, all)
    <2>1. Follows(s, log) /\ s.id < r.id /\ s.id \in Nat /\ r.id \in Nat
      BY <1>0, <1>1, <1>3 DEF Chain
    <2>2. CASE s.prev = GenesisPrevHash /\ \A t \in log : s.id <= t.id
      BY <2>1, <2>2 DEF Follows
    <2>3. ASSUME NEW b \in log, b.id < s.id, s.prev = b.self,
                 \A t \in log : t.id < s.id => t.id <= b.id
          PROVE  Follows(s, all)
      <3>1. \A t \in all : t.id < s.id => t.id <= b.id
        BY <2>1, <2>3
      <3> QED
        BY <2>1, <2>3, <3>1 DEF Follows
    <2> QED
      BY <2>1, <2>2, <2>3 DEF Follows
  <1>4. \A s, t \in all : s.id = t.id => s = t
    <2>1. \A s, t \in log : s.id = t.id => s = t
      BY DEF Chain
    <2>2. \A s \in log : s.id # r.id
      BY <1>0, <1>1
    <2> QED
      BY <2>1, <2>2
  <1>5. Newest(r, all)
    BY <1>0, <1>1 DEF Newest
  <1> QED
    BY <1>1, <1>2, <1>3, <1>4, <1>5 DEF Chain

\* From a place on the chain on, every row fits, and a walk that meets a row ends at
\* one of them.
LEMMA WalkFits ==
  ASSUME NEW log \in SUBSET AuditLog, Chain(log), NEW c \in AuditVerifierState, OnChain(c, log),
         NEW later, later = {r \in log : r.id > c.id}
  PROVE  /\ \A r \in later : Fits(r, later, c.hash)
         /\ later # {} => Last(later) \in later
  <1>0. c.id \in Nat /\ \A r \in log : r.id \in Nat /\ 0 < r.id
    <2>1. c.id \in Nat
      BY DEF AuditVerifierState
    <2>2. \A r \in log : r.id \in Nat \ {0}
      BY DEF AuditLog
    <2>3. \A i \in Nat \ {0} : i \in Nat /\ 0 < i
      OBVIOUS
    <2> QED
      BY <2>1, <2>2, <2>3
  <1>1. ASSUME NEW r \in later PROVE Fits(r, later, c.hash)
    <2> DEFINE before == {s \in later : s.id < r.id}
    <2>1. r \in log /\ Follows(r, log) /\ c.id < r.id
      BY <1>0, <1>1 DEF Chain
    <2>2. CASE r.prev = GenesisPrevHash /\ \A s \in log : r.id <= s.id
      <3>1. before = {}
        BY <1>0, <2>1, <2>2
      <3>2. c.hash = GenesisPrevHash
        BY <1>0, <2>1, <2>2 DEF OnChain
      <3> QED
        BY <2>1, <2>2, <3>1, <3>2 DEF Fits, Follows
    <2>3. ASSUME NEW b \in log, b.id < r.id, r.prev = b.self,
                 \A t \in log : t.id < r.id => t.id <= b.id
          PROVE  Fits(r, later, c.hash)
      <3>1. CASE c.id < b.id
        <4>1. Newest(b, before)
          BY <1>0, <2>3, <3>1 DEF Newest
        <4>2. Newest(Last(before), before)
          BY <4>1, LastIsNewest DEF Newest
        <4>3. Last(before).id = b.id /\ Last(before) \in log
          BY <1>0, <4>1, <4>2 DEF Newest
        <4>4. Last(before) = b
          BY <4>3 DEF Chain
        <4>5. before # {}
          BY <4>1 DEF Newest
        <4> HIDE DEF before
        <4> QED
          BY <2>1, <2>3, <4>4, <4>5 DEF Fits, Follows, before
      <3>2. CASE ~(c.id < b.id)
        <4>1. before = {}
          <5>1. \A t \in before : t \in log /\ t.id < r.id /\ c.id < t.id
            BY <1>0
          <5> QED
            BY <1>0, <2>3, <3>2, <5>1
        <4>2. c.hash = b.self
          <5>1. c.id # 0
            BY <1>0, <3>2
          <5>2. PICK a \in log : a.id = c.id /\ a.self = c.hash
            BY <5>1 DEF OnChain
          <5>3. a.id = b.id
            BY <1>0, <2>1, <2>3, <3>2, <5>2
          <5> QED
            BY <5>2, <5>3 DEF Chain
        <4> QED
          BY <2>1, <2>3, <4>1, <4>2 DEF Fits, Follows
      <3> QED
        BY <3>1, <3>2
    <2> QED
      BY <2>1, <2>2, <2>3 DEF Follows
  <1>2. ASSUME NEW r \in later PROVE Last(later) \in later
    <2>1. PICK n \in log : Newest(n, log)
      BY <1>2 DEF Chain
    <2>2. Newest(n, later)
      BY <1>0, <1>2, <2>1 DEF Newest
    <2> QED
      BY <2>2, LastIsNewest DEF Newest
  <1> QED
    BY <1>1, <1>2

LEMMA CursorIs ==
  ASSUME NEW i \in Nat, NEW h \in Hashes
  PROVE  /\ Cursor(i, h, "ok") \in AuditVerifierState
         /\ Cursor(i, h, "ok").id = i /\ Cursor(i, h, "ok").hash = h
         /\ Cursor(i, h, "ok").result = "ok"
  BY DEF Cursor, AuditVerifierState

\* What a walk from a place on the chain finds is on the chain.
LEMMA WalkStands ==
  ASSUME committed \in SUBSET AuditLog, Chain(committed),
         NEW c \in AuditVerifierState, OnChain(c, committed)
  PROVE  /\ Walk(c.id, c.hash) \in AuditVerifierState /\ Stands(Walk(c.id, c.hash))
         /\ Walk(c.id, c.hash).result = "ok"
  <1> DEFINE later == {r \in committed : r.id > c.id}
  <1>1. ~ \E r \in later : ~Fits(r, later, c.hash)
    BY WalkFits
  <1>2. later # {} => Last(later) \in committed
    BY WalkFits
  <1>3. CASE later = {}
    <2>1. Walk(c.id, c.hash) = Cursor(c.id, c.hash, "ok")
      BY <1>3 DEF Walk
    <2>2. c.id \in Nat /\ c.hash \in Hashes
      BY DEF AuditVerifierState
    <2> QED
      BY <2>1, <2>2, CursorIs DEF Stands, OnChain
  <1>4. CASE later # {}
    <2>1. Walk(c.id, c.hash) = Cursor(Last(later).id, Last(later).self, "ok")
      BY <1>1, <1>4 DEF Walk
    <2>2. Last(later) \in AuditLog
      BY <1>2, <1>4
    <2> HIDE DEF later
    <2>3. Last(later).id \in Nat /\ Last(later).self \in Hashes
      BY <2>2 DEF AuditLog
    <2> QED
      BY <1>2, <1>4, <2>1, <2>3, CursorIs DEF Stands, OnChain
  <1> QED
    BY <1>3, <1>4

-----------------------------------------------------------------------------
\* The head is read where no row is hidden.
LEMMA HeadTyped ==
  ASSUME AuditInv, NEW p \in Procs
  PROVE  HeadHash(p) \in Hashes
  <1>1. Seen(p) \in SUBSET AuditLog /\ Chain(Seen(p))
    BY DEF AuditInv, TypeOK, RowsSound, Seen
  <1>2. CASE Seen(p) = {}
    BY <1>2 DEF HeadHash, Seen, Hashes, GenesisPrevHash
  <1>3. CASE Seen(p) # {}
    <2>1. Last(Seen(p)) \in Seen(p)
      BY <1>1, <1>3, LastIsNewest DEF Chain, Newest
    <2>2. HeadHash(p) = Last(Seen(p)).self
      BY <1>3 DEF HeadHash, Seen
    <2> QED
      BY <1>1, <2>1, <2>2 DEF AuditLog
  <1> QED
    BY <1>2, <1>3

\* Steps that write no row.
LEMMA SameRows ==
  ASSUME RowsSound, TypeOK, committed' = committed, sequence' \in Nat, sequence <= sequence',
         written' \in [Procs -> SUBSET AuditLog],
         \A p \in Procs : written'[p] = written[p] \/ written'[p] = {}
  PROVE  RowsSound'
  <1>0. /\ sequence \in Nat /\ \A r \in committed : r.id \in Nat
        /\ \A p \in Procs : \A r \in written[p] : r.id \in Nat
    BY DEF TypeOK, AuditLog
  <1>1. ASSUME NEW p \in Procs PROVE Chain(Seen(p)')
    <2>1. Seen(p)' = Seen(p) \/ Seen(p)' = committed
      BY DEF Seen
    <2> QED
      BY <2>1 DEF RowsSound
  <1>2. (\A r \in committed : r.id <= sequence)'
    BY <1>0 DEF RowsSound
  <1>3. ASSUME NEW p \in Procs, NEW r \in written'[p]
        PROVE  r.id <= sequence' /\ \A s \in committed : s.id < r.id
    <2>1. r \in written[p]
      BY <1>3
    <2>2. r.id <= sequence /\ \A s \in committed : s.id < r.id
      BY <2>1 DEF RowsSound
    <2> QED
      BY <1>0, <2>1, <2>2
  <1>4. Chain(committed)'
    BY DEF RowsSound
  <1> QED
    BY <1>1, <1>2, <1>3, <1>4 DEF RowsSound, Chain, Follows, Newest, Seen

-----------------------------------------------------------------------------
\* The lock and the head through a step: a connection other than the one that steps
\* is as it was, and what the one that steps needs is stated for it alone.
LEMMA OthersStand ==
  ASSUME AuditInv, NEW p \in Procs,
         \A q \in Procs : q # p => /\ pc'[q] = pc[q] /\ written'[q] = written[q]
                                  /\ head'[q] = head[q] /\ (q \in taken' => q \in taken),
         \/ lock' = lock
         \/ lock \in {NoOne, p} /\ lock' \in {NoOne, p},
         written'[p] # {} \/ pc'[p] \in {"locked", "read"} => lock' = p,
         p \in taken' => pc'[p] \in {"locked", "read"} /\ written'[p] = {},
         taken' \in SUBSET Procs,
         committed' = committed \/ \A q \in Procs : q # p => pc[q] # "read",
         pc'[p] = "read" => head'[p] = HeadHash(p)'
  PROVE  LockSound' /\ HeadSound'
  <1>1. p # NoOne /\ \A q \in Procs : q # NoOne
    BY ConstantsAssumption DEF Procs
  <1>2. ASSUME NEW q \in Procs, q # p, written'[q] # {} \/ pc'[q] \in {"locked", "read"}
        PROVE  lock' = q
    <2>1. lock = q
      BY <1>2 DEF AuditInv, LockSound
    <2> QED
      BY <1>1, <1>2, <2>1
  <1>3. ASSUME NEW q \in taken', q # p
        PROVE  pc'[q] \in {"locked", "read"} /\ written'[q] = {}
    BY <1>3 DEF AuditInv, LockSound
  <1>4. LockSound'
    BY <1>2, <1>3 DEF LockSound
  <1>5. ASSUME NEW q \in Procs, q # p, pc'[q] = "read"
        PROVE  head'[q] = HeadHash(q)'
    <2>1. committed' = committed /\ written'[q] = written[q]
      BY <1>5
    <2> QED
      BY <1>5, <2>1 DEF AuditInv, HeadSound, HeadHash
  <1>6. HeadSound'
    BY <1>5 DEF HeadSound
  <1> QED
    BY <1>4, <1>6

\* Places on the chain stay there.
LEMMA StandsStay ==
  ASSUME committed \subseteq committed', NEW c, Stands(c)
  PROVE  Stands(c)'
  BY DEF Stands, OnChain

LEMMA CursorsStay ==
  ASSUME CursorSound, committed \subseteq committed', UNCHANGED <<cursor, found>>,
         \A q \in Procs : pc'[q] = "walked" => pc[q] = "walked"
  PROVE  CursorSound'
  BY StandsStay DEF CursorSound, Procs

-----------------------------------------------------------------------------
LEMMA CallInv ==
  ASSUME AuditInv, NEW w \in Writers, Call(w)
  PROVE  AuditInv'
  <1>0. /\ w \in Procs /\ pc[w] \in {"idle", "open"} /\ pc' = [pc EXCEPT ![w] = "waits"]
        /\ calls' = [calls EXCEPT ![w] = @ + 1]
        /\ UNCHANGED <<committed, written, sequence, lock, taken, head, cursor, found, runs, refused, mishaps>>
    BY DEF Call, Procs, rows, verification
  <1>1. TypeOK'
    BY <1>0 DEF AuditInv, TypeOK
  <1>2. pc'[w] = "waits" /\ \A q \in Procs : q # w => pc'[q] = pc[q]
    BY <1>0 DEF AuditInv, TypeOK
  <1>3. RowsSound'
    BY <1>0, SameRows DEF AuditInv, TypeOK
  <1>4. w \notin taken /\ (written[w] # {} => lock = w)
    BY <1>0 DEF AuditInv, LockSound
  <1>5. LockSound' /\ HeadSound'
    BY <1>0, <1>2, <1>4, OthersStand DEF AuditInv, TypeOK
  <1>6. CursorSound' /\ NeverRefused'
    BY <1>0, <1>2, CursorsStay DEF AuditInv, NeverRefused
  <1> QED
    BY <1>1, <1>3, <1>5, <1>6 DEF AuditInv

LEMMA AdvisoryLockInv ==
  ASSUME AuditInv, NEW p \in Procs, AdvisoryLock(p)
  PROVE  AuditInv'
  <1>0. /\ pc[p] = "waits" /\ pc' = [pc EXCEPT ![p] = "locked"]
        /\ lock \in {NoOne, p} /\ lock' = p
        /\ taken' = IF lock = NoOne THEN taken \cup {p} ELSE taken
        /\ UNCHANGED <<committed, written, sequence, head, calls, cursor, found, runs, refused, mishaps>>
    BY DEF AdvisoryLock, TakeLock, At, rows, verification
  <1>1. TypeOK'
    BY <1>0 DEF AuditInv, TypeOK
  <1>2. pc'[p] = "locked" /\ \A q \in Procs : q # p => pc'[q] = pc[q]
    BY <1>0 DEF AuditInv, TypeOK
  <1>3. RowsSound'
    BY <1>0, SameRows DEF AuditInv, TypeOK
  <1>4. p \notin taken /\ (lock = NoOne => written[p] = {})
    BY <1>0, ConstantsAssumption DEF AuditInv, LockSound, Procs
  <1>5. taken' \in SUBSET Procs
    BY <1>1 DEF TypeOK
  <1>6. LockSound' /\ HeadSound'
    BY <1>0, <1>2, <1>4, <1>5, OthersStand
  <1>7. CursorSound' /\ NeverRefused'
    BY <1>0, <1>2, CursorsStay DEF AuditInv, NeverRefused
  <1> QED
    BY <1>1, <1>3, <1>6, <1>7 DEF AuditInv

LEMMA ReadHeadInv ==
  ASSUME AuditInv, NEW p \in Procs, ReadHead(p)
  PROVE  AuditInv'
  <1>0. /\ pc[p] = "locked" /\ pc' = [pc EXCEPT ![p] = "read"]
        /\ head' = [head EXCEPT ![p] = HeadHash(p)]
        /\ UNCHANGED <<committed, written, sequence, lock, taken, calls, cursor, found, runs, refused, mishaps>>
    BY DEF ReadHead, At, rows, verification
  <1>1. HeadHash(p) \in Hashes
    BY HeadTyped
  <1>2. TypeOK'
    BY <1>0, <1>1 DEF AuditInv, TypeOK
  <1>3. /\ pc'[p] = "read" /\ head'[p] = HeadHash(p)
        /\ \A q \in Procs : q # p => pc'[q] = pc[q] /\ head'[q] = head[q]
    BY <1>0 DEF AuditInv, TypeOK
  <1>4. RowsSound'
    BY <1>0, SameRows DEF AuditInv, TypeOK
  <1>5. HeadHash(p)' = HeadHash(p)
    BY <1>0 DEF HeadHash
  <1>6. lock = p /\ (p \in taken => written[p] = {})
    BY <1>0 DEF AuditInv, LockSound
  <1>7. LockSound' /\ HeadSound'
    BY <1>0, <1>3, <1>5, <1>6, OthersStand DEF AuditInv, TypeOK
  <1>8. CursorSound' /\ NeverRefused'
    BY <1>0, <1>3, CursorsStay DEF AuditInv, NeverRefused
  <1> QED
    BY <1>2, <1>4, <1>7, <1>8 DEF AuditInv

\* The link holds, since nobody can have written since the head was read.
LEMMA InsertInv ==
  ASSUME AuditInv, NEW p \in Procs, Insert(p)
  PROVE  AuditInv'
  <1> DEFINE r == NewRow(p)
  <1>0. /\ pc[p] = "read" /\ pc' = [pc EXCEPT ![p] = "open"] /\ sequence' = sequence + 1
        /\ lock = p /\ head[p] = HeadHash(p)
    BY DEF Insert, At, AuditInv, LockSound, HeadSound
  <1>1. /\ written' = [written EXCEPT ![p] = @ \cup {r}]
        /\ lock' = p /\ taken' = taken \ {p} /\ head' = [head EXCEPT ![p] = GenesisPrevHash]
        /\ UNCHANGED <<committed, calls, cursor, found, runs, refused, mishaps>>
    BY <1>0 DEF Insert, LinkHolds, AddRow, LockAfterSavepoint, Forget, verification
  <1>2. sequence \in Nat /\ head[p] \in Hashes /\ calls[p] \in Nat
    BY DEF AuditInv, TypeOK
  <1>3. /\ r.id = sequence + 1 /\ r.prev = head[p] /\ r.payload = <<p, calls[p]>>
        /\ r.self = Hash(head[p], <<p, calls[p]>>)
    BY DEF NewRow
  <1>4. r \in AuditLog
    <2>1. <<p, calls[p]>> \in Payloads
      BY <1>2 DEF Payloads
    <2>2. Hash(head[p], <<p, calls[p]>>) \in Hashes
      BY <1>2, <2>1 DEF Hash, Hashes
    <2>3. sequence + 1 \in Nat \ {0}
      BY <1>2
    <2> QED
      BY <1>2, <2>1, <2>2, <2>3 DEF NewRow, AuditLog
  <1>5. GenesisPrevHash \in Hashes
    BY DEF GenesisPrevHash, Hashes
  <1> HIDE DEF r
  <1>6. TypeOK'
    BY <1>0, <1>1, <1>2, <1>4, <1>5 DEF AuditInv, TypeOK
  <1>7. /\ pc'[p] = "open" /\ written'[p] = written[p] \cup {r}
        /\ \A q \in Procs : q # p => /\ pc'[q] = pc[q] /\ written'[q] = written[q]
                                     /\ head'[q] = head[q] /\ written[q] = {}
    BY <1>0, <1>1 DEF AuditInv, TypeOK, LockSound
  <1>8. LockSound' /\ HeadSound'
    BY <1>0, <1>1, <1>6, <1>7, OthersStand DEF TypeOK
  <1>9. RowsSound'
    <2>1. Seen(p) \in SUBSET AuditLog /\ Chain(Seen(p)) /\ \A s \in Seen(p) : s.id <= sequence
      BY DEF AuditInv, TypeOK, RowsSound, Seen
    <2>2. r.prev = IF Seen(p) = {} THEN GenesisPrevHash ELSE Last(Seen(p)).self
      BY <1>0, <1>3 DEF HeadHash, Seen
    <2>3. Chain(Seen(p) \cup {r}) /\ \A s \in Seen(p) : s.id < r.id
      BY <1>2, <1>3, <1>4, <2>1, <2>2, ChainGrows
    <2>4. Seen(p)' = Seen(p) \cup {r}
      BY <1>1, <1>7 DEF Seen
    <2>5. ASSUME NEW q \in Procs PROVE Chain(Seen(q)')
      <3>1. CASE q = p
        BY <2>3, <2>4, <3>1
      <3>2. CASE q # p
        <4>1. Seen(q)' = Seen(q)
          BY <1>1, <1>7, <3>2 DEF Seen
        <4> QED
          BY <4>1 DEF AuditInv, RowsSound
      <3> QED
        BY <3>1, <3>2
    <2>6. \A s \in Seen(p) : s.id \in Nat
      BY <2>1 DEF AuditLog
    <2>7. \A s \in Seen(p) : s.id <= sequence'
      BY <1>0, <1>2, <2>1, <2>6
    <2>8. ASSUME NEW q \in Procs, NEW s \in written'[q]
          PROVE  s.id <= sequence' /\ \A t \in committed : t.id < s.id
      <3>1. q = p /\ (s = r \/ s \in written[p])
        BY <1>7, <2>8
      <3>2. CASE s = r
        BY <1>0, <1>2, <1>3, <2>3, <3>2 DEF Seen
      <3>3. CASE s \in written[p]
        BY <2>7, <3>3 DEF AuditInv, RowsSound, Seen
      <3> QED
        BY <3>1, <3>2, <3>3
    <2>9. Chain(committed)' /\ \A s \in committed' : s.id <= sequence'
      BY <1>1, <2>7 DEF AuditInv, RowsSound, Seen, Chain, Follows, Newest
    <2> QED
      BY <1>1, <2>5, <2>8, <2>9 DEF RowsSound, Chain, Follows, Newest
  <1>10. CursorSound' /\ NeverRefused'
    BY <1>1, <1>7, CursorsStay DEF AuditInv, NeverRefused
  <1> QED
    BY <1>6, <1>8, <1>9, <1>10 DEF AuditInv

\* A lock that goes back with the savepoint was taken by this emit().
LEMMA EmitFailsInv ==
  ASSUME AuditInv, NEW p \in Procs, EmitFails(p)
  PROVE  AuditInv'
  <1>0. /\ pc[p] \in {"waits", "locked", "read"} /\ pc' = [pc EXCEPT ![p] = "open"]
        /\ sequence' = sequence \/ sequence' = sequence + 1
        /\ mishaps < MaxMishaps /\ mishaps' = mishaps + 1
        /\ lock' = (IF p \in taken THEN NoOne ELSE lock)
        /\ taken' = taken \ {p} /\ head' = [head EXCEPT ![p] = GenesisPrevHash]
        /\ UNCHANGED <<committed, written, calls, cursor, found, runs, refused>>
    BY DEF EmitFails, BackToSavepoint, Mishap, Forget, verification
  <1>1. GenesisPrevHash \in Hashes
    BY DEF GenesisPrevHash, Hashes
  <1>2. sequence \in Nat /\ sequence' \in Nat /\ sequence <= sequence'
    BY <1>0 DEF AuditInv, TypeOK
  <1>3. mishaps' \in 0..MaxMishaps
    BY <1>0, ConstantsAssumption DEF AuditInv, TypeOK
  <1>4. TypeOK'
    BY <1>0, <1>1, <1>2, <1>3 DEF AuditInv, TypeOK
  <1>5. /\ pc'[p] = "open"
        /\ \A q \in Procs : q # p => pc'[q] = pc[q] /\ head'[q] = head[q]
    BY <1>0 DEF AuditInv, TypeOK
  <1>6. RowsSound'
    BY <1>0, <1>2, SameRows DEF AuditInv, TypeOK
  <1>7. /\ p \in taken => lock = p /\ written[p] = {}
        /\ written[p] # {} => lock = p
    BY DEF AuditInv, LockSound
  <1>8. LockSound' /\ HeadSound'
    BY <1>0, <1>4, <1>5, <1>7, OthersStand DEF TypeOK
  <1>9. CursorSound' /\ NeverRefused'
    BY <1>0, <1>5, CursorsStay DEF AuditInv, NeverRefused
  <1> QED
    BY <1>4, <1>6, <1>8, <1>9 DEF AuditInv

\* Only the holder of the lock has rows to commit; nobody else has read a head.
LEMMA CommitInv ==
  ASSUME AuditInv, NEW p \in Procs, Commit(p)
  PROVE  AuditInv'
  <1>0. /\ pc[p] = "open" /\ pc' = [pc EXCEPT ![p] = "idle"]
        /\ committed' = Seen(p) /\ written' = [written EXCEPT ![p] = {}]
        /\ lock' = (IF lock = p THEN NoOne ELSE lock)
        /\ UNCHANGED <<sequence, taken, head, calls, cursor, found, runs, refused, mishaps>>
    BY DEF Commit, At, LetGo, Seen, verification
  <1>1. TypeOK'
    BY <1>0 DEF AuditInv, TypeOK, Seen
  <1>2. /\ pc'[p] = "idle" /\ written'[p] = {}
        /\ \A q \in Procs : q # p => pc'[q] = pc[q] /\ written'[q] = written[q]
    BY <1>0 DEF AuditInv, TypeOK
  <1>3. written[p] # {} => lock = p /\ \A q \in Procs : q # p => written[q] = {} /\ pc[q] # "read"
    BY DEF AuditInv, LockSound
  <1>4. committed' = committed \/ \A q \in Procs : q # p => pc[q] # "read"
    BY <1>0, <1>3 DEF Seen
  <1>5. p \notin taken
    BY <1>0 DEF AuditInv, LockSound
  <1>6. LockSound' /\ HeadSound'
    BY <1>0, <1>1, <1>2, <1>4, <1>5, OthersStand DEF TypeOK
  <1>7. RowsSound'
    <2>1. CASE written[p] = {}
      <3>1. committed' = committed
        BY <1>0, <2>1 DEF Seen
      <3>2. sequence \in Nat /\ sequence' = sequence
        BY <1>0 DEF AuditInv, TypeOK
      <3> QED
        BY <1>1, <1>2, <2>1, <3>1, <3>2, SameRows DEF AuditInv, TypeOK
    <2>2. CASE written[p] # {}
      <3>1. \A q \in Procs : written'[q] = {}
        BY <1>2, <1>3, <2>2
      <3>2. Chain(Seen(p)) /\ \A r \in Seen(p) : r.id <= sequence
        BY DEF AuditInv, RowsSound, Seen
      <3>3. Chain(committed)'
        BY <1>0, <3>2 DEF Chain, Follows, Newest
      <3>4. \A q \in Procs : Seen(q)' = committed'
        BY <3>1 DEF Seen
      <3> QED
        BY <1>0, <3>1, <3>2, <3>3, <3>4 DEF RowsSound, Chain, Follows, Newest
    <2> QED
      BY <2>1, <2>2
  <1>8. CursorSound' /\ NeverRefused'
    BY <1>0, <1>2, CursorsStay DEF AuditInv, NeverRefused, Seen
  <1> QED
    BY <1>1, <1>6, <1>7, <1>8 DEF AuditInv

LEMMA NothingStands == Nothing \in AuditVerifierState /\ Stands(Nothing)
  BY DEF Nothing, Cursor, AuditVerifierState, Stands, OnChain, Hashes, GenesisPrevHash

LEMMA RollbackInv ==
  ASSUME AuditInv, NEW p \in Procs, Rollback(p)
  PROVE  AuditInv'
  <1>0. /\ mishaps < MaxMishaps /\ mishaps' = mishaps + 1
        /\ pc' = [pc EXCEPT ![p] = "idle"] /\ written' = [written EXCEPT ![p] = {}]
        /\ lock' = (IF lock = p THEN NoOne ELSE lock)
        /\ taken' = taken \ {p} /\ head' = [head EXCEPT ![p] = GenesisPrevHash]
        /\ found' = [v \in Verifiers |-> IF v = p THEN Nothing ELSE found[v]]
        /\ UNCHANGED <<committed, sequence, calls, cursor, runs, refused>>
    BY DEF Rollback, Mishap, LetGo, Forget
  <1>1. GenesisPrevHash \in Hashes
    BY DEF GenesisPrevHash, Hashes
  <1>2. mishaps' \in 0..MaxMishaps
    BY <1>0, ConstantsAssumption DEF AuditInv, TypeOK
  <1>3. TypeOK'
    BY <1>0, <1>1, <1>2, NothingStands DEF AuditInv, TypeOK
  <1>4. /\ pc'[p] = "idle" /\ written'[p] = {}
        /\ \A q \in Procs : q # p =>
             pc'[q] = pc[q] /\ written'[q] = written[q] /\ head'[q] = head[q]
    BY <1>0 DEF AuditInv, TypeOK
  <1>5. RowsSound'
    <2>1. sequence' \in Nat /\ sequence <= sequence'
      BY <1>0 DEF AuditInv, TypeOK
    <2>2. \A q \in Procs : written'[q] = written[q] \/ written'[q] = {}
      BY <1>4
    <2> QED
      BY <1>0, <1>3, <2>1, <2>2, SameRows DEF AuditInv, TypeOK
  <1>6. LockSound' /\ HeadSound'
    BY <1>0, <1>3, <1>4, OthersStand DEF TypeOK
  <1>7. CursorSound'
    <2>1. \A v \in Verifiers : Stands(found'[v])
      BY <1>0, NothingStands DEF AuditInv, CursorSound
    <2>2. \A v \in Verifiers : pc'[v] = "walked" => found'[v].result = "ok"
      BY <1>0, <1>4 DEF AuditInv, CursorSound, Procs
    <2> QED
      BY <1>0, <2>1, <2>2 DEF AuditInv, CursorSound, Stands, OnChain
  <1> QED
    BY <1>0, <1>3, <1>5, <1>6, <1>7 DEF AuditInv, NeverRefused

\* The steps of a verifier touch neither rows nor the lock.
LEMMA VerifierStep ==
  ASSUME AuditInv, NEW v \in Verifiers, TypeOK',
         UNCHANGED <<committed, written, sequence, lock, taken, head, refused>>,
         pc[v] \in {"idle", "loaded", "walked"},
         NEW to \in {"loaded", "walked", "waits"}, pc' = [pc EXCEPT ![v] = to],
         Stands(cursor'),
         \A w \in Verifiers : Stands(found'[w]) /\ (w # v => found'[w] = found[w]),
         to = "walked" => found'[v].result = "ok"
  PROVE  AuditInv'
  <1>0. v \in Procs
    BY DEF Procs
  <1>1. pc'[v] = to /\ \A q \in Procs : q # v => pc'[q] = pc[q]
    BY <1>0 DEF AuditInv, TypeOK
  <1>2. RowsSound'
    BY SameRows DEF AuditInv, TypeOK
  <1>3. v \notin taken /\ (written[v] # {} => lock = v)
    BY <1>0 DEF AuditInv, LockSound
  <1>4. LockSound' /\ HeadSound'
    BY <1>0, <1>1, <1>3, OthersStand DEF AuditInv, TypeOK
  <1>5. CursorSound' /\ NeverRefused'
    <2>1. \A w \in Verifiers : pc'[w] = "walked" => found'[w].result = "ok"
      BY <1>0, <1>1 DEF AuditInv, CursorSound, Procs
    <2> QED
      BY <2>1 DEF AuditInv, NeverRefused, CursorSound, Stands, OnChain
  <1> QED
    BY <1>2, <1>4, <1>5 DEF AuditInv

LEMMA LoadCursorInv ==
  ASSUME AuditInv, NEW v \in Verifiers, LoadCursor(v)
  PROVE  AuditInv'
  <1>0. /\ pc[v] = "idle" /\ pc' = [pc EXCEPT ![v] = "loaded"]
        /\ runs[v] < MaxRuns /\ runs' = [runs EXCEPT ![v] = @ + 1]
        /\ found' = [found EXCEPT ![v] = cursor]
        /\ UNCHANGED <<committed, written, sequence, lock, taken, head, calls, cursor, refused, mishaps>>
    BY DEF LoadCursor, At, rows
  <1>1. runs[v] + 1 \in 0..MaxRuns
    BY <1>0, ConstantsAssumption DEF AuditInv, TypeOK
  <1>2. TypeOK'
    BY <1>0, <1>1 DEF AuditInv, TypeOK
  <1>3. \A w \in Verifiers : Stands(found'[w]) /\ (w # v => found'[w] = found[w])
    BY <1>0 DEF AuditInv, TypeOK, CursorSound
  <1> QED
    BY <1>0, <1>2, <1>3, VerifierStep DEF AuditInv, CursorSound

LEMMA VerifyChainInv ==
  ASSUME AuditInv, NEW v \in Verifiers, VerifyChain(v)
  PROVE  AuditInv'
  <1>0. PICK f : /\ f = Walk(found[v].id, found[v].hash) /\ found' = [found EXCEPT ![v] = f]
                 /\ pc[v] = "loaded" /\ pc' = [pc EXCEPT ![v] = "walked"]
                 /\ UNCHANGED <<committed, written, sequence, lock, taken, head, calls, cursor,
                               runs, refused, mishaps>>
    BY DEF VerifyChain, At, rows
  <1>1. f \in AuditVerifierState /\ Stands(f) /\ f.result = "ok"
    <2>1. found[v] \in AuditVerifierState /\ OnChain(found[v], committed)
      BY DEF AuditInv, TypeOK, CursorSound, Stands
    <2> QED
      BY <1>0, <2>1, WalkStands DEF AuditInv, TypeOK, RowsSound
  <1>2. TypeOK'
    BY <1>0, <1>1 DEF AuditInv, TypeOK
  <1>3. \A w \in Verifiers : Stands(found'[w]) /\ (w # v => found'[w] = found[w])
    BY <1>0, <1>1 DEF AuditInv, TypeOK, CursorSound
  <1>4. found'[v].result = "ok"
    BY <1>0, <1>1 DEF AuditInv, TypeOK
  <1> QED
    BY <1>0, <1>2, <1>3, <1>4, VerifierStep DEF AuditInv, CursorSound

LEMMA SaveCursorInv ==
  ASSUME AuditInv, NEW v \in Verifiers, SaveCursor(v)
  PROVE  AuditInv'
  <1>0. /\ pc[v] = "walked" /\ pc' = [pc EXCEPT ![v] = "waits"]
        /\ cursor' = Saved(found[v]) /\ calls' = [calls EXCEPT ![v] = @ + 1]
        /\ found' = [found EXCEPT ![v] = Nothing]
        /\ UNCHANGED <<committed, written, sequence, lock, taken, head, runs, refused, mishaps>>
    BY DEF SaveCursor, At, rows
  <1>1. found[v] \in AuditVerifierState /\ Stands(found[v]) /\ found[v].result = "ok"
    BY <1>0 DEF AuditInv, TypeOK, CursorSound
  <1>2. cursor' = found[v]
    BY <1>0, <1>1 DEF Saved
  <1>3. TypeOK'
    BY <1>0, <1>1, <1>2, NothingStands DEF AuditInv, TypeOK, Procs
  <1>4. \A w \in Verifiers : Stands(found'[w]) /\ (w # v => found'[w] = found[w])
    BY <1>0, NothingStands DEF AuditInv, TypeOK, CursorSound
  <1> QED
    BY <1>0, <1>1, <1>2, <1>3, <1>4, VerifierStep

-----------------------------------------------------------------------------
LEMMA InitInv == Init => AuditInv
  <1> SUFFICES ASSUME Init PROVE AuditInv
    OBVIOUS
  <1>1. TypeOK
    BY ConstantsAssumption, NothingStands DEF Init, TypeOK, Hashes, GenesisPrevHash
  <1>2. RowsSound
    BY DEF Init, RowsSound, Chain, Seen
  <1>3. LockSound /\ HeadSound
    BY DEF Init, LockSound, HeadSound
  <1>4. CursorSound /\ NeverRefused
    BY NothingStands DEF Init, CursorSound, NeverRefused, Procs
  <1> QED
    BY <1>1, <1>2, <1>3, <1>4 DEF AuditInv

LEMMA NextInv == AuditInv /\ [Next]_vars => AuditInv'
  <1> SUFFICES ASSUME AuditInv, [Next]_vars PROVE AuditInv'
    OBVIOUS
  <1>1. CASE UNCHANGED vars
    <2>1. UNCHANGED <<committed, written, sequence, lock, taken, pc, head, calls, cursor, found, runs,
                      refused, mishaps>>
      BY <1>1 DEF vars
    <2>2. TypeOK' /\ LockSound' /\ NeverRefused'
      BY <2>1 DEF AuditInv, TypeOK, LockSound, NeverRefused
    <2>3. RowsSound'
      BY <2>1, SameRows DEF AuditInv, TypeOK
    <2>4. HeadSound' /\ CursorSound'
      BY <2>1 DEF AuditInv, HeadSound, HeadHash, CursorSound, Stands, OnChain
    <2> QED
      BY <2>2, <2>3, <2>4 DEF AuditInv
  <1>2. ASSUME NEW w \in Writers, Call(w) PROVE AuditInv'
    BY <1>2, CallInv
  <1>3. ASSUME NEW v \in Verifiers, LoadCursor(v) PROVE AuditInv'
    BY <1>3, LoadCursorInv
  <1>4. ASSUME NEW v \in Verifiers, Verifies(v) PROVE AuditInv'
    BY <1>4, VerifyChainInv, SaveCursorInv DEF Verifies
  <1>5. ASSUME NEW p \in Procs, Emits(p) PROVE AuditInv'
    BY <1>5, AdvisoryLockInv, ReadHeadInv, InsertInv DEF Emits
  <1>6. ASSUME NEW p \in Procs, EmitFails(p) PROVE AuditInv'
    BY <1>6, EmitFailsInv
  <1>7. ASSUME NEW p \in Procs, Commit(p) PROVE AuditInv'
    BY <1>7, CommitInv
  <1>8. ASSUME NEW p \in Procs, Rollback(p) PROVE AuditInv'
    BY <1>8, RollbackInv
  <1> QED
    BY <1>1, <1>2, <1>3, <1>4, <1>5, <1>6, <1>7, <1>8 DEF Next

LEMMA SpecInv == Spec => []AuditInv
  BY InitInv, NextInv, PTL DEF Spec

-----------------------------------------------------------------------------
LEMMA InvSound == AuditInv => ChainSound
  <1> SUFFICES ASSUME AuditInv PROVE ChainSound
    OBVIOUS
  <1>1. ChainLinear
    <2>1. committed \in SUBSET AuditLog /\ Chain(committed) /\ Nothing \in AuditVerifierState
      BY NothingStands DEF AuditInv, TypeOK, RowsSound
    <2>2. OnChain(Nothing, committed) /\ Nothing.id = 0 /\ Nothing.hash = GenesisPrevHash
      BY DEF Nothing, Cursor, OnChain
    <2>3. \A r \in committed : r.id > 0
      <3>1. \A r \in committed : r.id \in Nat \ {0}
        BY <2>1 DEF AuditLog
      <3>2. \A i \in Nat \ {0} : i > 0
        OBVIOUS
      <3> QED
        BY <3>1, <3>2
    <2>4. committed = {r \in committed : r.id > Nothing.id}
      BY <2>2, <2>3
    <2> QED
      BY <2>1, <2>2, <2>4, WalkFits DEF ChainLinear
  <1>2. CursorOnChain
    BY DEF AuditInv, CursorSound, Stands, OnChain, CursorOnChain
  <1> QED
    BY <1>1, <1>2 DEF AuditInv, ChainSound

\* However emits, rollbacks, failed inserts and verifiers interleave, the committed rows
\* are one chain, the link trigger refuses nothing that emit() wrote, and the cursor
\* stands on the chain (emit, audit/services.py; the trigger of migration 0002).
THEOREM ChainStands == Spec => []ChainSound
  BY SpecInv, InvSound, PTL

\* A verifier that runs beside anything else never reports a broken chain
\* (verify_chain and run_verifier, audit/verifier.py).
THEOREM NoVerifierCriesWolf == Spec => []NoFalseAlarm
  <1>1. AuditInv => NoFalseAlarm
    BY DEF AuditInv, CursorSound, Stands, NoFalseAlarm
  <1> QED
    BY <1>1, SpecInv, PTL

\* A commit adds rows only beyond every committed row, and so beyond the verifier's
\* cursor (the lock held to the commit, _advisory_lock of audit/services.py).
THEOREM NothingBehindTheCursor == Spec => RowsLandAhead
  <1> DEFINE Ahead == \A r \in committed' \ committed :
                        cursor.id < r.id /\ \A s \in committed : s.id < r.id
  <1>1. AuditInv /\ [Next]_vars => [Ahead]_vars
    <2> SUFFICES ASSUME AuditInv, [Next]_vars PROVE Ahead \/ UNCHANGED vars
      OBVIOUS
    <2>1. ASSUME NEW p \in Procs, Commit(p) PROVE Ahead
      <3> SUFFICES ASSUME NEW r \in committed', r \notin committed
                   PROVE  cursor.id < r.id /\ \A s \in committed : s.id < r.id
        OBVIOUS
      <3>1. r \in written[p]
        BY <2>1 DEF Commit
      <3>2. \A s \in committed : s.id < r.id
        BY <3>1 DEF AuditInv, RowsSound
      <3>3. r.id \in Nat \ {0}
        BY <3>1 DEF AuditInv, TypeOK, AuditLog
      <3>4. cursor.id = 0 \/ \E s \in committed : s.id = cursor.id
        BY DEF AuditInv, CursorSound, Stands, OnChain
      <3> QED
        BY <3>2, <3>3, <3>4
    <2>2. CASE UNCHANGED committed
      BY <2>2
    <2>3. CASE UNCHANGED vars
      BY <2>3
    <2>4. ASSUME NEW p \in Procs, Emits(p) \/ EmitFails(p) \/ Rollback(p) PROVE UNCHANGED committed
      BY <2>4 DEF Emits, AdvisoryLock, ReadHead, Insert, AddRow, EmitFails, BackToSavepoint, Rollback, rows
    <2>5. ASSUME NEW v \in Verifiers, LoadCursor(v) \/ Verifies(v) PROVE UNCHANGED committed
      BY <2>5 DEF LoadCursor, Verifies, VerifyChain, SaveCursor, rows
    <2>6. ASSUME NEW w \in Writers, Call(w) PROVE UNCHANGED committed
      BY <2>6 DEF Call, rows
    <2> QED
      BY <2>1, <2>2, <2>3, <2>4, <2>5, <2>6 DEF Next
  <1> QED
    BY <1>1, SpecInv, PTL DEF Spec, RowsLandAhead
=============================================================================
