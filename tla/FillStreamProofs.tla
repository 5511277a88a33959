-------------------------- MODULE FillStreamProofs --------------------------
(* The fill transport, for any number of users, messages and overlapping       *)
(* sweeps, any batch size and any number of deliveries.                        *)
EXTENDS FillStream, TLAPS, FiniteSetTheorems, WellFoundedInduction

\* Redis never delivers beyond the end of a stream, nothing is pending that was not
\* delivered.
Delivered ==
    \A k \in Streams : /\ Len(entries[k]) <= MaxLen /\ readTo[k] <= Len(entries[k])
                       /\ pel[k] \subseteq 1..readTo[k]

\* Entries are published messages; each of those is in its user's stream.
EntriesSent == \A k \in Streams : \A i \in 1..Len(entries[k]) : entries[k][i] \in sent
SentEntered == \A m \in sent : \E i \in 1..Len(entries[Main(m)]) : entries[Main(m)][i] = m

\* An entry that was delivered and is not pending is settled.
Settled(m) == m \in applied \/ Buried(m)
AckedSettled ==
    \A k \in Streams : \A i \in 1..readTo[k] : i \notin pel[k] => Settled(entries[k][i])

\* A counter never shows more attempts than have failed.
CountsHonest ==
    \A k \in Streams : \A i \in Ids : attempts[<<k, i>>] > 0 =>
        i <= Len(entries[k]) /\ attempts[<<k, i>>] <= failures[entries[k][i]]

\* What a sweep relies on between two of its steps.
SweepTrue(s) ==
    /\ batch[s] \subseteq 1..readTo[at[s]]
    /\ \A k \in todo[s] \cap Streams : k[2] < MaxDepth
    /\ sweeper[s] \in {"work", "bury", "ack", "clear"} => at[s][2] < MaxDepth
    /\ sweeper[s] \in {"bury", "ack", "clear"} => batch[s] # {}
    /\ sweeper[s] = "bury" => Msg(s) \in Poison \/ failures[Msg(s)] >= MaxDeliveries
    /\ sweeper[s] = "ack" => Settled(Msg(s))

FillInv ==
    /\ TypeOK /\ Delivered /\ EntriesSent /\ SentEntered /\ AckedSettled
    /\ CountsHonest /\ BuriedAfterRetries /\ \A s \in Sweepers : SweepTrue(s)

-----------------------------------------------------------------------------
(* The operators.                                                              *)

\* Min of FiniteSetsExt is what its name says, for every set of naturals.
LEMMA MinIsLeast ==
  ASSUME NEW T, T \subseteq Nat, T # {}
  PROVE  Min(T) \in T /\ \A y \in T : Min(T) <= y
  <1> DEFINE R == {p \in Nat \X Nat : p[1] < p[2]}
  <1>1. IsWellFoundedOn(R, Nat)
    BY NatLessThanWellFounded DEF OpToRel
  <1>2. PICK x \in T : \A y \in T : <<y, x>> \notin R
    <2> HIDE DEF R
    <2> QED
      BY <1>1, WFMin
  <1>3. ASSUME NEW y \in T PROVE x <= y
    <2>1. <<y, x>> \in Nat \X Nat
      OBVIOUS
    <2>2. ~ (y < x)
      BY <1>2, <2>1
    <2> QED
      BY <2>2
  <1> QED
    BY <1>3 DEF Min

\* One XREADGROUP takes the entries that come first, none is skipped.
LEMMA CardinalityOfInterval ==
  ASSUME NEW a \in Nat, NEW b \in Nat, a <= b
  PROVE  Cardinality(a + 1 .. b) = b - a
  <1>1. a + 1 \in Int /\ b \in Int
    OBVIOUS
  <1>2. Cardinality(a + 1 .. b) = IF a + 1 > b THEN 0 ELSE b - (a + 1) + 1
    BY <1>1, FS_Interval, Zenon
  <1> QED
    BY <1>2

LEMMA FirstOfInterval ==
  ASSUME NEW a \in Nat, NEW b \in Nat, a <= b
  PROVE  \E n \in Nat : /\ First(a + 1 .. b) = a + 1 .. a + n
                        /\ Cardinality(First(a + 1 .. b)) = n
                        /\ a + n <= b
  <1> DEFINE n == IF b - a <= BatchSize THEN b - a ELSE BatchSize
  <1>1. n \in Nat /\ a + n <= b /\ BatchSize \in Nat
    BY ConstantsAssumption
  <1>2. ASSUME NEW i \in a + 1 .. b
        PROVE  Cardinality({j \in a + 1 .. b : j <= i}) = i - a
    <2>1. {j \in a + 1 .. b : j <= i} = a + 1 .. i
      OBVIOUS
    <2>2. i \in Nat /\ a <= i
      OBVIOUS
    <2> QED
      BY <2>1, <2>2, CardinalityOfInterval
  <1>3. First(a + 1 .. b) = a + 1 .. a + n
    <2>1. First(a + 1 .. b) = {i \in a + 1 .. b : i - a <= BatchSize}
      BY <1>2 DEF First
    <2>2. \A i \in a + 1 .. b : i - a <= BatchSize <=> i <= a + n
      BY <1>1
    <2>3. {i \in a + 1 .. b : i <= a + n} = a + 1 .. a + n
      BY <1>1
    <2> QED
      BY <2>1, <2>2, <2>3
  <1>4. Cardinality(a + 1 .. a + n) = n
    <2> HIDE DEF n
    <2>1. PICK c \in Nat : c = a + n
      BY <1>1
    <2>2. a <= c /\ c - a = n
      BY <1>1, <2>1
    <2>3. Cardinality(a + 1 .. c) = c - a
      BY <2>2, CardinalityOfInterval
    <2> QED
      BY <2>1, <2>2, <2>3
  <1> QED
    BY <1>1, <1>3, <1>4

\* The entry a sweep is about to settle.
LEMMA Current ==
  ASSUME FillInv, NEW s \in Sweepers, batch[s] # {}
  PROVE  /\ at[s] \in Streams /\ Id(s) \in batch[s] /\ Id(s) \in Ids
         /\ Id(s) \in 1..readTo[at[s]] /\ Id(s) \in 1..Len(entries[at[s]])
         /\ Msg(s) \in Msgs /\ Msg(s) \in sent /\ Counter(s) \in Counters
  <1>1. /\ at[s] \in Streams /\ batch[s] \subseteq Nat /\ batch[s] \subseteq 1..readTo[at[s]]
        /\ readTo[at[s]] \in Nat /\ Len(entries[at[s]]) \in Nat
    BY DEF FillInv, TypeOK, SweepTrue, Ids
  <1>2. Id(s) \in batch[s]
    BY <1>1, MinIsLeast DEF Id
  <1>3. Id(s) \in 1..Len(entries[at[s]]) /\ Id(s) \in Ids
    BY <1>1, <1>2, ConstantsAssumption DEF FillInv, Delivered, Ids
  <1>4. Msg(s) \in sent
    BY <1>1, <1>3 DEF FillInv, EntriesSent, Msg
  <1> QED
    BY <1>1, <1>2, <1>3, <1>4 DEF FillInv, TypeOK, Counter, Counters

-----------------------------------------------------------------------------
(* What no step undoes.                                                        *)

Grows ==
    /\ \A k \in Streams : /\ Len(entries[k]) <= Len(entries'[k])
                          /\ \A i \in 1..Len(entries[k]) : entries'[k][i] = entries[k][i]
    /\ sent \subseteq sent' /\ applied \subseteq applied'
    /\ \A m \in Msgs : failures[m] <= failures'[m]

LEMMA SettledStays ==
  ASSUME TypeOK, TypeOK', Grows, NEW m, Settled(m)
  PROVE  Settled(m)'
  <1>1. CASE m \in applied
    BY <1>1 DEF Settled, Grows
  <1>2. CASE Buried(m)
    <2>1. PICK k \in Streams : k[2] > 0 /\ \E i \in 1..Len(entries[k]) : entries[k][i] = m
      BY <1>2 DEF Buried
    <2>2. PICK i \in 1..Len(entries[k]) : entries[k][i] = m
      BY <2>1
    <2>3. i \in 1..Len(entries'[k]) /\ entries'[k][i] = m
      <3>1. Len(entries[k]) \in Nat /\ Len(entries'[k]) \in Nat
        BY DEF TypeOK
      <3> QED
        BY <2>2, <3>1 DEF Grows
    <2>4. Buried(m)'
      BY <2>1, <2>3 DEF Buried
    <2> QED
      BY <2>4 DEF Settled
  <1> QED
    BY <1>1, <1>2 DEF Settled

\* A sweep that does not move keeps what it relies on.
LEMMA OthersKept ==
  ASSUME FillInv, TypeOK', Grows, \A k \in Streams : readTo[k] <= readTo'[k],
         NEW s \in Sweepers, sweeper'[s] = sweeper[s], todo'[s] = todo[s], at'[s] = at[s],
         batch'[s] = batch[s]
  PROVE  SweepTrue(s)'
  <1>1. SweepTrue(s) /\ at[s] \in Streams /\ readTo[at[s]] \in Nat /\ readTo'[at[s]] \in Nat
    BY DEF FillInv, TypeOK
  <1>2. batch'[s] \subseteq 1..readTo'[at'[s]]
    BY <1>1 DEF SweepTrue
  <1>3. batch[s] # {} => Msg(s)' = Msg(s) /\ Msg(s) \in Msgs
    BY Current DEF Msg, Id, Grows
  <1>4. failures \in [Msgs -> Nat] /\ failures' \in [Msgs -> Nat] /\ MaxDeliveries \in Nat
    BY ConstantsAssumption DEF FillInv, TypeOK
  <1>5. sweeper'[s] = "bury" => Msg(s)' \in Poison \/ failures'[Msg(s)'] >= MaxDeliveries
    BY <1>1, <1>3, <1>4 DEF SweepTrue, Grows
  <1>6. sweeper'[s] = "ack" => Settled(Msg(s))'
    <2> SUFFICES ASSUME sweeper[s] = "ack" PROVE Settled(Msg(s))'
      OBVIOUS
    <2>1. Settled(Msg(s)) /\ Msg(s)' = Msg(s)
      BY <1>1, <1>3 DEF SweepTrue
    <2>2. PICK m : m = Msg(s)
      OBVIOUS
    <2>3. Settled(m)'
      BY <2>1, <2>2, SettledStays DEF FillInv
    <2> QED
      BY <2>1, <2>2, <2>3 DEF Settled, Buried
  <1> QED
    BY <1>1, <1>2, <1>5, <1>6 DEF SweepTrue

-----------------------------------------------------------------------------
(* Steps of one sweep that write no stream and no pending list.                *)

LEMMA OneMoves ==
  ASSUME FillInv, TypeOK', UNCHANGED <<entries, readTo, pel, sent>>, applied \subseteq applied',
         \A m \in Msgs : failures[m] <= failures'[m],
         CountsHonest', NEW s \in Sweepers, SweepTrue(s)',
         \A d \in Sweepers : d # s => /\ sweeper'[d] = sweeper[d] /\ todo'[d] = todo[d]
                                      /\ at'[d] = at[d] /\ batch'[d] = batch[d]
  PROVE  FillInv'
  <1>1. Grows /\ \A k \in Streams : readTo[k] <= readTo'[k]
    BY DEF Grows, FillInv, TypeOK
  <1>2. \A d \in Sweepers : SweepTrue(d)'
    BY <1>1, OthersKept
  <1>3. Delivered' /\ EntriesSent' /\ SentEntered'
    BY DEF FillInv, Delivered, EntriesSent, SentEntered
  <1>4. AckedSettled'
    BY DEF FillInv, AckedSettled, Settled, Buried
  <1>5. BuriedAfterRetries'
    <2>1. failures \in [Msgs -> Nat] /\ failures' \in [Msgs -> Nat] /\ MaxDeliveries \in Nat
      BY ConstantsAssumption DEF FillInv, TypeOK
    <2> QED
      BY <2>1 DEF FillInv, BuriedAfterRetries, Buried
  <1> QED
    BY <1>2, <1>3, <1>4, <1>5 DEF FillInv

\* If the counters and what was tried stay too, only the sweep itself is at stake.
LEMMA SweepMoves ==
  ASSUME FillInv, TypeOK', UNCHANGED <<entries, readTo, pel, sent, attempts, failures>>,
         applied \subseteq applied', NEW s \in Sweepers, SweepTrue(s)',
         \A d \in Sweepers : d # s => /\ sweeper'[d] = sweeper[d] /\ todo'[d] = todo[d]
                                      /\ at'[d] = at[d] /\ batch'[d] = batch[d]
  PROVE  FillInv'
  <1>1. CountsHonest'
    BY DEF FillInv, CountsHonest
  <1>2. \A m \in Msgs : failures[m] <= failures'[m]
    BY DEF FillInv, TypeOK
  <1> QED
    BY <1>1, <1>2, OneMoves

LEMMA BeginSweepInv ==
  ASSUME FillInv, NEW s \in Sweepers, BeginSweep(s)
  PROVE  FillInv'
  <1>1. Scanned \subseteq Streams \cup Counters /\ \A k \in Scanned \cap Streams : k[2] < MaxDepth
    BY KeysDiffer DEF Scanned, FillInv, TypeOK
  <1>2. TypeOK'
    BY <1>1 DEF BeginSweep, FillInv, TypeOK, SweepPC, redisVars, counterVars
  <1>3. /\ sweeper'[s] = "scan" /\ todo'[s] = Scanned /\ at'[s] = at[s] /\ batch'[s] = batch[s]
        /\ \A d \in Sweepers : d # s => /\ sweeper'[d] = sweeper[d] /\ todo'[d] = todo[d]
                                        /\ at'[d] = at[d] /\ batch'[d] = batch[d]
    BY DEF BeginSweep, FillInv, TypeOK
  <1>4. SweepTrue(s)'
    BY <1>1, <1>3 DEF BeginSweep, redisVars, FillInv, SweepTrue
  <1> QED
    BY <1>2, <1>3, <1>4, SweepMoves DEF BeginSweep, redisVars, counterVars

LEMMA EndSweepInv ==
  ASSUME FillInv, NEW s \in Sweepers, EndSweep(s), TypeOK',
         UNCHANGED <<entries, readTo, pel, sent, attempts, failures, applied>>
  PROVE  FillInv'
  <1>1. /\ sweeper'[s] = "idle" /\ todo'[s] = {} /\ batch'[s] = {}
        /\ \A d \in Sweepers : d # s => /\ sweeper'[d] = sweeper[d] /\ todo'[d] = todo[d]
                                        /\ at'[d] = at[d] /\ batch'[d] = batch[d]
    BY DEF EndSweep, FillInv, TypeOK
  <1>2. SweepTrue(s)'
    BY <1>1 DEF SweepTrue
  <1> QED
    BY <1>1, <1>2, SweepMoves

LEMMA SweepEndsInv ==
  ASSUME FillInv, NEW s \in Sweepers, FinishSweep(s) \/ SweepDies(s)
  PROVE  FillInv'
  <1>1. EndSweep(s) /\ UNCHANGED <<entries, readTo, pel, sent, attempts, lasting, stray, failures, applied>>
    BY DEF FinishSweep, SweepDies, redisVars, counterVars
  <1>2. TypeOK'
    <2>1. faults' \in 0..MaxFaults
      BY ConstantsAssumption DEF FinishSweep, SweepDies, FillInv, TypeOK
    <2> QED
      BY <1>1, <2>1 DEF EndSweep, FillInv, TypeOK, SweepPC
  <1> QED
    BY <1>1, <1>2, EndSweepInv

LEMMA VisitCounterInv ==
  ASSUME FillInv, NEW s \in Sweepers, NEW c \in Counters, VisitCounter(s, c)
  PROVE  FillInv'
  <1>0. UNCHANGED <<entries, readTo, pel, sent, attempts, lasting, failures, applied, faults>>
    BY DEF VisitCounter
  <1>1. CASE attempts[c] > 0
    <2>1. EndSweep(s) /\ UNCHANGED stray
      BY <1>1 DEF VisitCounter
    <2>2. TypeOK'
      BY <1>0, <2>1 DEF EndSweep, FillInv, TypeOK, SweepPC
    <2> QED
      BY <1>0, <2>1, <2>2, EndSweepInv
  <1>2. CASE ~ (attempts[c] > 0)
    <2>1. /\ todo' = [todo EXCEPT ![s] = @ \ {c}] /\ stray' = stray \cup {c}
          /\ UNCHANGED <<sweeper, phase, at, batch>>
      BY <1>2 DEF VisitCounter
    <2>2. attempts[c] = 0
      BY <1>2, ConstantsAssumption DEF FillInv, TypeOK
    <2>3. TypeOK'
      BY <1>0, <2>1, <2>2 DEF FillInv, TypeOK
    <2>4. /\ todo'[s] \subseteq todo[s]
          /\ \A d \in Sweepers : d # s => todo'[d] = todo[d]
      BY <2>1 DEF FillInv, TypeOK
    <2>5. SweepTrue(s)'
      BY <1>0, <2>1, <2>4 DEF FillInv, SweepTrue, Settled, Buried, Msg, Id
    <2> QED
      BY <1>0, <2>1, <2>3, <2>4, <2>5, SweepMoves
  <1> QED
    BY <1>1, <1>2

LEMMA VisitStreamInv ==
  ASSUME FillInv, NEW s \in Sweepers, NEW k \in Streams, VisitStream(s, k)
  PROVE  FillInv'
  <1>0. k \in todo[s] /\ k[2] < MaxDepth /\ pel[k] \subseteq Ids /\ pel[k] \subseteq 1..readTo[k]
    BY DEF VisitStream, FillInv, SweepTrue, Delivered, TypeOK
  <1>1. First(pel[k]) \subseteq pel[k]
    BY DEF First
  <1>2. UNCHANGED <<entries, readTo, pel, sent, attempts, lasting, stray, failures, applied, faults, phase>>
    BY DEF VisitStream, redisVars, counterVars
  <1>3. TypeOK'
    BY <1>0, <1>1, <1>2 DEF VisitStream, FillInv, TypeOK, SweepPC
  <1>4. /\ sweeper'[s] = "work" /\ todo'[s] \subseteq todo[s] /\ at'[s] = k
        /\ batch'[s] = First(pel[k])
        /\ \A d \in Sweepers : d # s => /\ sweeper'[d] = sweeper[d] /\ todo'[d] = todo[d]
                                        /\ at'[d] = at[d] /\ batch'[d] = batch[d]
    BY DEF VisitStream, FillInv, TypeOK
  <1>5. SweepTrue(s)'
    BY <1>0, <1>1, <1>2, <1>4 DEF FillInv, SweepTrue
  <1> QED
    BY <1>2, <1>3, <1>4, <1>5, SweepMoves

LEMMA StreamDrainedInv ==
  ASSUME FillInv, NEW s \in Sweepers, StreamDrained(s)
  PROVE  FillInv'
  <1>1. UNCHANGED <<entries, readTo, pel, sent, attempts, lasting, stray, failures, applied, faults,
                    todo, at, batch>>
    BY DEF StreamDrained, redisVars, counterVars
  <1>2. TypeOK'
    BY <1>1 DEF StreamDrained, FillInv, TypeOK, SweepPC
  <1>3. sweeper'[s] = "scan" /\ \A d \in Sweepers : d # s => sweeper'[d] = sweeper[d]
    BY DEF StreamDrained, FillInv, TypeOK
  <1>4. SweepTrue(s)'
    BY <1>1, <1>3 DEF FillInv, SweepTrue
  <1> QED
    BY <1>1, <1>2, <1>3, <1>4, SweepMoves

LEMMA ParseFailsInv ==
  ASSUME FillInv, NEW s \in Sweepers, ParseFails(s)
  PROVE  FillInv'
  <1>1. UNCHANGED <<entries, readTo, pel, sent, attempts, lasting, stray, failures, applied, faults,
                    phase, todo, at, batch>>
    BY DEF ParseFails, Goto, redisVars, counterVars, sweepVars
  <1>2. TypeOK'
    BY <1>1 DEF ParseFails, Goto, FillInv, TypeOK, SweepPC
  <1>3. sweeper'[s] = "bury" /\ \A d \in Sweepers : d # s => sweeper'[d] = sweeper[d]
    BY DEF ParseFails, Goto, FillInv, TypeOK
  <1>4. SweepTrue(s)'
    BY <1>1, <1>3 DEF ParseFails, Working, FillInv, SweepTrue, Msg, Id
  <1> QED
    BY <1>1, <1>2, <1>3, <1>4, SweepMoves

LEMMA IngestInv ==
  ASSUME FillInv, NEW s \in Sweepers, Ingest(s)
  PROVE  FillInv'
  <1>1. UNCHANGED <<entries, readTo, pel, sent, attempts, lasting, stray, failures, faults,
                    phase, todo, at, batch>>
    BY DEF Ingest, Goto, redisVars, counterVars, sweepVars
  <1>2. Msg(s) \in sent /\ batch[s] # {}
    BY Current DEF Ingest, Working
  <1>3. TypeOK'
    BY <1>1, <1>2 DEF Ingest, Goto, FillInv, TypeOK, SweepPC
  <1>4. sweeper'[s] = "ack" /\ \A d \in Sweepers : d # s => sweeper'[d] = sweeper[d]
    BY DEF Ingest, Goto, FillInv, TypeOK
  <1>5. SweepTrue(s)'
    BY <1>1, <1>2, <1>4 DEF Ingest, Working, FillInv, SweepTrue, Settled, Msg, Id
  <1>6. applied \subseteq applied'
    BY DEF Ingest
  <1> QED
    BY <1>1, <1>3, <1>4, <1>5, <1>6, SweepMoves

\* A failed ingest adds to its message's failures, and never takes a count beyond them.
LEMMA IngestRaisesInv ==
  ASSUME FillInv, NEW s \in Sweepers, IngestRaises(s)
  PROVE  /\ Msg(s) \in Msgs /\ Counter(s) \in Counters /\ sweeper[s] = "work" /\ batch[s] # {}
         /\ UNCHANGED <<entries, readTo, pel, sent>>
         /\ failures' \in [Msgs -> Nat] /\ failures'[Msg(s)] = failures[Msg(s)] + 1
         /\ \A m \in Msgs : failures[m] <= failures'[m]
         /\ applied \subseteq applied' /\ applied' \subseteq sent
         /\ attempts[Counter(s)] \in Nat /\ attempts[Counter(s)] <= failures[Msg(s)]
  <1>1. batch[s] # {}
    BY DEF IngestRaises, Working
  <1>2. Msg(s) \in Msgs /\ Msg(s) \in sent /\ Counter(s) \in Counters
    BY <1>1, Current
  <1>3. attempts[Counter(s)] \in Nat
    BY <1>2, ConstantsAssumption DEF FillInv, TypeOK
  <1>4. attempts[Counter(s)] <= failures[Msg(s)]
    <2>1. at[s] \in Streams /\ Id(s) \in Ids /\ failures[Msg(s)] \in Nat
      BY <1>1, <1>2, Current DEF FillInv, TypeOK
    <2>2. attempts[<<at[s], Id(s)>>] > 0 => attempts[<<at[s], Id(s)>>] <= failures[entries[at[s]][Id(s)]]
      BY <2>1 DEF FillInv, CountsHonest
    <2> QED
      BY <1>3, <2>1, <2>2 DEF Counter, Msg
  <1>5. failures' \in [Msgs -> Nat] /\ failures'[Msg(s)] = failures[Msg(s)] + 1
    BY <1>2 DEF IngestRaises, FillInv, TypeOK
  <1>6. \A m \in Msgs : failures[m] <= failures'[m]
    BY <1>2 DEF IngestRaises, FillInv, TypeOK
  <1> QED
    BY <1>1, <1>2, <1>3, <1>4, <1>5, <1>6 DEF IngestRaises, Working, FillInv, TypeOK

LEMMA CountedOnce ==
  ASSUME FillInv, NEW s \in Sweepers, IngestRaises(s), NEW n \in 0..MaxDeliveries,
         n <= attempts[Counter(s)] + 1, attempts' = [attempts EXCEPT ![Counter(s)] = n]
  PROVE  CountsHonest'
  <1>1. /\ UNCHANGED entries /\ \A m \in Msgs : failures[m] <= failures'[m]
        /\ attempts[Counter(s)] \in Nat /\ attempts[Counter(s)] <= failures[Msg(s)]
        /\ failures'[Msg(s)] = failures[Msg(s)] + 1 /\ failures' \in [Msgs -> Nat]
        /\ Counter(s) \in Counters /\ Msg(s) \in Msgs /\ batch[s] # {}
    BY IngestRaisesInv
  <1>2. Id(s) \in 1..Len(entries[at[s]]) /\ at[s] \in Streams
    BY <1>1, Current
  <1>3. ASSUME NEW k \in Streams, NEW i \in Ids, attempts'[<<k, i>>] > 0
        PROVE  i <= Len(entries[k]) /\ attempts'[<<k, i>>] <= failures'[entries[k][i]]
    <2>1. CASE <<k, i>> = Counter(s)
      <3>1. k = at[s] /\ i = Id(s) /\ entries[k][i] = Msg(s) /\ attempts'[<<k, i>>] = n
        BY <2>1, <1>1 DEF Counter, Msg, FillInv, TypeOK
      <3>2. failures[Msg(s)] \in Nat
        BY <1>1 DEF FillInv, TypeOK
      <3>3. n <= failures'[Msg(s)]
        BY <1>1, <3>2
      <3> QED
        BY <1>2, <3>1, <3>3
    <2>2. CASE <<k, i>> # Counter(s)
      <3>1. <<k, i>> \in Counters /\ attempts'[<<k, i>>] = attempts[<<k, i>>]
        BY <2>2 DEF Counters, FillInv, TypeOK
      <3>2. i <= Len(entries[k]) /\ attempts[<<k, i>>] <= failures[entries[k][i]]
        BY <1>3, <3>1 DEF FillInv, CountsHonest
      <3>3. entries[k][i] \in Msgs
        BY <3>2 DEF FillInv, TypeOK, Ids
      <3>4. attempts[<<k, i>>] \in Nat /\ failures[entries[k][i]] \in Nat /\ failures'[entries[k][i]] \in Nat
        BY <1>1, <3>1, <3>3, ConstantsAssumption DEF FillInv, TypeOK
      <3> QED
        BY <1>1, <3>1, <3>2, <3>3, <3>4
    <2> QED
      BY <2>1, <2>2
  <1> QED
    BY <1>1, <1>3 DEF CountsHonest

LEMMA NextEntryMoves ==
  ASSUME FillInv, NEW s \in Sweepers, NextEntry(s), UNCHANGED <<readTo, pel>>,
         sweeper[s] \in {"work", "bury", "clear"}
  PROVE  /\ SweepTrue(s)'
         /\ sweeper' \in [Sweepers -> SweepPC] /\ batch' \in [Sweepers -> SUBSET Ids]
         /\ \A d \in Sweepers : d # s => /\ sweeper'[d] = sweeper[d] /\ todo'[d] = todo[d]
                                         /\ at'[d] = at[d] /\ batch'[d] = batch[d]
  <1>1. /\ sweeper'[s] = "work" /\ batch'[s] \subseteq batch[s]
        /\ sweeper' \in [Sweepers -> SweepPC] /\ batch' \in [Sweepers -> SUBSET Ids]
        /\ \A d \in Sweepers : d # s => sweeper'[d] = sweeper[d] /\ batch'[d] = batch[d]
    BY DEF NextEntry, FillInv, TypeOK, SweepPC
  <1> QED
    BY <1>1 DEF NextEntry, FillInv, SweepTrue

LEMMA IngestFailsInv ==
  ASSUME FillInv, NEW s \in Sweepers, IngestFails(s)
  PROVE  FillInv'
  <1> DEFINE n == attempts[Counter(s)] + 1
             top == IF n < MaxDeliveries THEN n ELSE MaxDeliveries
  <1>0. IngestRaises(s) /\ UNCHANGED <<entries, readTo, pel, sent, stray, faults>>
    BY IngestRaisesInv DEF IngestFails
  <1>1. /\ Msg(s) \in Msgs /\ Counter(s) \in Counters /\ sweeper[s] = "work" /\ batch[s] # {}
        /\ failures' \in [Msgs -> Nat] /\ failures'[Msg(s)] = failures[Msg(s)] + 1
        /\ \A m \in Msgs : failures[m] <= failures'[m]
        /\ applied \subseteq applied' /\ applied' \subseteq sent
        /\ attempts[Counter(s)] \in Nat /\ attempts[Counter(s)] <= failures[Msg(s)]
    BY <1>0, IngestRaisesInv
  <1>2. /\ Counter(s) \notin stray /\ attempts' = [attempts EXCEPT ![Counter(s)] = top]
        /\ lasting' = lasting \ {Counter(s)}
        /\ IF n >= MaxDeliveries THEN Goto(s, "bury") ELSE NextEntry(s)
    BY DEF IngestFails
  <1>3. top \in 0..MaxDeliveries /\ top <= n /\ top > 0 /\ MaxDeliveries \in Nat
    BY <1>1, ConstantsAssumption
  <1>4. CountsHonest'
    BY <1>0, <1>2, <1>3, CountedOnce
  <1>5. /\ attempts' \in [Counters -> 0..MaxDeliveries]
        /\ lasting' \subseteq {c \in Counters : attempts'[c] > 0}
        /\ stray' \subseteq {c \in Counters : attempts'[c] = 0}
    <2> HIDE DEF top
    <2> QED
      BY <1>0, <1>1, <1>2, <1>3 DEF FillInv, TypeOK
  <1>6. CASE n >= MaxDeliveries
    <2>1. /\ sweeper'[s] = "bury" /\ UNCHANGED <<phase, todo, at, batch>>
          /\ sweeper' \in [Sweepers -> SweepPC]
          /\ \A d \in Sweepers : d # s => sweeper'[d] = sweeper[d]
      BY <1>2, <1>6 DEF Goto, sweepVars, FillInv, TypeOK, SweepPC
    <2>2. TypeOK'
      BY <1>0, <1>1, <1>5, <2>1 DEF FillInv, TypeOK
    <2>3. failures'[Msg(s)] >= MaxDeliveries
      <3>1. failures[Msg(s)] \in Nat
        BY <1>1 DEF FillInv, TypeOK
      <3> QED
        BY <1>1, <1>3, <1>6, <3>1
    <2>4. SweepTrue(s)'
      BY <1>0, <1>1, <2>1, <2>3 DEF FillInv, SweepTrue, Msg, Id
    <2> QED
      BY <1>0, <1>1, <1>4, <2>1, <2>2, <2>4, OneMoves
  <1>7. CASE ~ (n >= MaxDeliveries)
    <2>1. NextEntry(s)
      BY <1>2, <1>7
    <2>2. /\ SweepTrue(s)'
          /\ sweeper' \in [Sweepers -> SweepPC] /\ batch' \in [Sweepers -> SUBSET Ids]
          /\ \A d \in Sweepers : d # s => /\ sweeper'[d] = sweeper[d] /\ todo'[d] = todo[d]
                                          /\ at'[d] = at[d] /\ batch'[d] = batch[d]
      BY <1>0, <1>1, <2>1, NextEntryMoves
    <2>3. TypeOK'
      BY <1>0, <1>1, <1>5, <2>1, <2>2 DEF NextEntry, FillInv, TypeOK
    <2> QED
      BY <1>0, <1>1, <1>4, <2>2, <2>3, OneMoves
  <1> QED
    BY <1>6, <1>7

LEMMA CountFailsInv ==
  ASSUME FillInv, NEW s \in Sweepers, CountFails(s)
  PROVE  FillInv'
  <1>0. IngestRaises(s) /\ NextEntry(s) /\ UNCHANGED <<entries, readTo, pel, sent, stray>>
    BY IngestRaisesInv DEF CountFails
  <1>1. /\ Msg(s) \in Msgs /\ Counter(s) \in Counters /\ sweeper[s] = "work" /\ batch[s] # {}
        /\ failures' \in [Msgs -> Nat] /\ failures'[Msg(s)] = failures[Msg(s)] + 1
        /\ \A m \in Msgs : failures[m] <= failures'[m]
        /\ applied \subseteq applied' /\ applied' \subseteq sent
        /\ attempts[Counter(s)] \in Nat /\ attempts[Counter(s)] <= failures[Msg(s)]
    BY <1>0, IngestRaisesInv
  <1>2. /\ SweepTrue(s)'
        /\ sweeper' \in [Sweepers -> SweepPC] /\ batch' \in [Sweepers -> SUBSET Ids]
        /\ \A d \in Sweepers : d # s => /\ sweeper'[d] = sweeper[d] /\ todo'[d] = todo[d]
                                        /\ at'[d] = at[d] /\ batch'[d] = batch[d]
    BY <1>0, <1>1, NextEntryMoves
  <1>3. faults' \in 0..MaxFaults
    BY ConstantsAssumption DEF CountFails, FillInv, TypeOK
  <1>4. PICK n \in 0..MaxDeliveries :
          /\ n <= attempts[Counter(s)] + 1 /\ attempts' = [attempts EXCEPT ![Counter(s)] = n]
          /\ lasting' \subseteq {c \in Counters : attempts'[c] > 0}
          /\ stray' \subseteq {c \in Counters : attempts'[c] = 0}
    <2>1. CASE UNCHANGED <<attempts, lasting>>
      <3>1. attempts' = [attempts EXCEPT ![Counter(s)] = attempts[Counter(s)]]
        BY <2>1 DEF FillInv, TypeOK
      <3>2. attempts[Counter(s)] \in 0..MaxDeliveries
        BY <1>1 DEF FillInv, TypeOK
      <3> QED
        BY <1>0, <1>1, <2>1, <3>1, <3>2 DEF FillInv, TypeOK
    <2>2. CASE /\ Counter(s) \notin stray /\ attempts[Counter(s)] < MaxDeliveries
               /\ attempts' = [attempts EXCEPT ![Counter(s)] = @ + 1]
               /\ lasting' = IF attempts[Counter(s)] = 0 THEN lasting \cup {Counter(s)} ELSE lasting
      <3>1. attempts[Counter(s)] + 1 \in 0..MaxDeliveries
        BY <1>1, <2>2, ConstantsAssumption
      <3>2. attempts'[Counter(s)] > 0 /\ \A c \in Counters : c # Counter(s) => attempts'[c] = attempts[c]
        BY <1>1, <2>2 DEF FillInv, TypeOK
      <3>3. lasting' \subseteq {c \in Counters : attempts'[c] > 0}
        BY <1>1, <2>2, <3>2 DEF FillInv, TypeOK
      <3>4. stray' \subseteq {c \in Counters : attempts'[c] = 0}
        BY <1>0, <1>1, <2>2, <3>2 DEF FillInv, TypeOK
      <3>5. PICK n \in 0..MaxDeliveries : n = attempts[Counter(s)] + 1
        BY <3>1
      <3>6. attempts' = [attempts EXCEPT ![Counter(s)] = n]
        BY <2>2, <3>5
      <3>7. n <= attempts[Counter(s)] + 1
        BY <1>1, <3>5
      <3> QED
        BY <3>3, <3>4, <3>6, <3>7
    <2> QED
      BY <2>1, <2>2 DEF CountFails
  <1>5. CountsHonest'
    BY <1>0, <1>4, CountedOnce
  <1>6. TypeOK'
    <2>1. attempts' \in [Counters -> 0..MaxDeliveries]
      BY <1>4 DEF FillInv, TypeOK
    <2> QED
      BY <1>0, <1>1, <1>2, <1>3, <1>4, <2>1 DEF NextEntry, FillInv, TypeOK
  <1> QED
    BY <1>0, <1>1, <1>2, <1>5, <1>6, OneMoves

LEMMA BuryFailsInv ==
  ASSUME FillInv, NEW s \in Sweepers, BuryFails(s)
  PROVE  FillInv'
  <1>1. /\ NextEntry(s) /\ sweeper[s] = "bury" /\ faults' \in 0..MaxFaults
        /\ UNCHANGED <<entries, readTo, pel, sent, attempts, lasting, stray, failures, applied>>
    BY ConstantsAssumption DEF BuryFails, redisVars, counterVars, FillInv, TypeOK
  <1>2. /\ SweepTrue(s)'
        /\ sweeper' \in [Sweepers -> SweepPC] /\ batch' \in [Sweepers -> SUBSET Ids]
        /\ \A d \in Sweepers : d # s => /\ sweeper'[d] = sweeper[d] /\ todo'[d] = todo[d]
                                        /\ at'[d] = at[d] /\ batch'[d] = batch[d]
    BY <1>1, NextEntryMoves
  <1>3. TypeOK'
    BY <1>1, <1>2 DEF NextEntry, FillInv, TypeOK
  <1> QED
    BY <1>1, <1>2, <1>3, SweepMoves

\* A counter that is dropped shows no attempts at all.
LEMMA CountDropped ==
  ASSUME FillInv, UNCHANGED <<entries, failures>>, NEW c, attempts' = [attempts EXCEPT ![c] = 0]
  PROVE  CountsHonest'
  <1> SUFFICES ASSUME NEW k \in Streams, NEW i \in Ids, attempts'[<<k, i>>] > 0
               PROVE  i <= Len(entries[k]) /\ attempts'[<<k, i>>] <= failures[entries[k][i]]
    BY DEF CountsHonest
  <1>1. attempts'[<<k, i>>] = attempts[<<k, i>>]
    BY DEF FillInv, TypeOK, Counters
  <1> QED
    BY <1>1 DEF FillInv, CountsHonest

LEMMA ClearCounterInv ==
  ASSUME FillInv, NEW s \in Sweepers, ClearCounter(s)
  PROVE  FillInv'
  <1>1. /\ NextEntry(s) /\ sweeper[s] = "clear" /\ attempts' = [attempts EXCEPT ![Counter(s)] = 0]
        /\ lasting' = lasting \ {Counter(s)} /\ stray' = stray \ {Counter(s)}
        /\ UNCHANGED <<entries, readTo, pel, sent, failures, applied, faults>>
    BY DEF ClearCounter
  <1>2. /\ SweepTrue(s)'
        /\ sweeper' \in [Sweepers -> SweepPC] /\ batch' \in [Sweepers -> SUBSET Ids]
        /\ \A d \in Sweepers : d # s => /\ sweeper'[d] = sweeper[d] /\ todo'[d] = todo[d]
                                        /\ at'[d] = at[d] /\ batch'[d] = batch[d]
    BY <1>1, NextEntryMoves
  <1>3. /\ attempts' \in [Counters -> 0..MaxDeliveries]
        /\ lasting' \subseteq {c \in Counters : attempts'[c] > 0}
        /\ stray' \subseteq {c \in Counters : attempts'[c] = 0}
    <2>1. attempts' \in [Counters -> 0..MaxDeliveries]
      <3>1. 0 \in 0..MaxDeliveries
        BY ConstantsAssumption
      <3>2. PICK c : c = Counter(s)
        OBVIOUS
      <3> QED
        BY <1>1, <3>1, <3>2 DEF FillInv, TypeOK
    <2>2. \A c \in Counters : attempts'[c] = IF c = Counter(s) THEN 0 ELSE attempts[c]
      BY <1>1 DEF FillInv, TypeOK
    <2>3. lasting' \subseteq {c \in Counters : attempts'[c] > 0}
      BY <1>1, <2>2 DEF FillInv, TypeOK
    <2>4. stray' \subseteq {c \in Counters : attempts'[c] = 0}
      BY <1>1, <2>2 DEF FillInv, TypeOK
    <2> QED
      BY <2>1, <2>3, <2>4
  <1>4. TypeOK'
    BY <1>1, <1>2, <1>3 DEF NextEntry, FillInv, TypeOK
  <1>5. CountsHonest'
    BY <1>1, CountDropped
  <1>6. \A m \in Msgs : failures[m] <= failures'[m]
    BY <1>1 DEF FillInv, TypeOK
  <1> QED
    BY <1>1, <1>2, <1>4, <1>5, <1>6, OneMoves

LEMMA CounterExpiresInv ==
  ASSUME FillInv, NEW c \in Counters, CounterExpires(c)
  PROVE  FillInv'
  <1>1. /\ attempts' = [attempts EXCEPT ![c] = 0] /\ c \notin lasting
        /\ UNCHANGED <<entries, readTo, pel, lasting, stray, sweeper, phase, todo, at, batch, applied,
                       sent, failures, faults>>
    BY DEF CounterExpires, sweepVars
  <1>2. \A d \in Counters : attempts'[d] = IF d = c THEN 0 ELSE attempts[d]
    BY <1>1 DEF FillInv, TypeOK
  <1>3. attempts' \in [Counters -> 0..MaxDeliveries]
    BY <1>1, ConstantsAssumption DEF FillInv, TypeOK
  <1>4. lasting' \subseteq {d \in Counters : attempts'[d] > 0}
    BY <1>1, <1>2 DEF FillInv, TypeOK
  <1>5. stray' \subseteq {d \in Counters : attempts'[d] = 0}
    BY <1>1, <1>2 DEF FillInv, TypeOK
  <1>6. TypeOK'
    BY <1>1, <1>3, <1>4, <1>5 DEF FillInv, TypeOK
  <1>7. CountsHonest'
    BY <1>1, CountDropped
  <1>8. \A m \in Msgs : failures[m] <= failures'[m]
    BY <1>1 DEF FillInv, TypeOK
  <1>9. ASSUME NEW s \in Sweepers PROVE SweepTrue(s)'
    BY <1>1 DEF FillInv, SweepTrue, Msg, Id, Settled, Buried
  <1>10. Delivered' /\ EntriesSent' /\ SentEntered' /\ AckedSettled' /\ BuriedAfterRetries'
    BY <1>1 DEF FillInv, Delivered, EntriesSent, SentEntered, AckedSettled, Settled, Buried,
                BuriedAfterRetries
  <1> QED
    BY <1>6, <1>7, <1>9, <1>10 DEF FillInv

-----------------------------------------------------------------------------
(* Reading and acknowledging.                                                  *)

LEMMA ReadNewInv ==
  ASSUME FillInv, NEW s \in Sweepers, ReadNew(s)
  PROVE  FillInv'
  <1> DEFINE k == at[s]
             fresh == First(readTo[k] + 1 .. Len(entries[k]))
  <1>0. /\ k \in Streams /\ readTo[k] \in Nat /\ Len(entries[k]) \in Nat
        /\ readTo[k] <= Len(entries[k]) /\ Len(entries[k]) <= MaxLen /\ pel[k] \subseteq 1..readTo[k]
        /\ MaxLen \in Nat /\ sweeper[s] = "work"
    BY ConstantsAssumption DEF FillInv, TypeOK, Delivered, ReadNew
  <1>1. PICK n \in Nat : /\ fresh = readTo[k] + 1 .. readTo[k] + n
                         /\ Cardinality(fresh) = n
                         /\ readTo[k] + n <= Len(entries[k])
    BY <1>0, FirstOfInterval
  <1> HIDE DEF fresh
  <1>2. /\ phase' = [phase EXCEPT ![s] = ">"] /\ batch' = [batch EXCEPT ![s] = fresh]
        /\ readTo' = [readTo EXCEPT ![k] = readTo[k] + n]
        /\ pel' = [pel EXCEPT ![k] = pel[k] \cup fresh]
        /\ UNCHANGED <<entries, attempts, lasting, stray, sweeper, todo, at, applied, sent, failures, faults>>
    BY <1>1 DEF ReadNew, counterVars, fresh
  <1>3. fresh \subseteq 1..readTo[k] + n /\ readTo[k] + n \in 0..MaxLen /\ fresh \subseteq Ids
    BY <1>0, <1>1 DEF Ids
  <1>4. TypeOK'
    BY <1>0, <1>2, <1>3 DEF FillInv, TypeOK
  <1>5. /\ readTo'[k] = readTo[k] + n /\ pel'[k] = pel[k] \cup fresh
        /\ \A j \in Streams : j # k => readTo'[j] = readTo[j] /\ pel'[j] = pel[j]
        /\ batch'[s] = fresh /\ \A d \in Sweepers : d # s => batch'[d] = batch[d]
    BY <1>0, <1>2 DEF FillInv, TypeOK
  <1>6. Delivered'
    BY <1>0, <1>1, <1>2, <1>3, <1>5 DEF FillInv, Delivered
  <1>7. AckedSettled'
    <2> SUFFICES ASSUME NEW j \in Streams, NEW i \in 1..readTo'[j], i \notin pel'[j]
                 PROVE  Settled(entries[j][i])'
      BY <1>2 DEF AckedSettled
    <2>1. i \in 1..readTo[j] /\ i \notin pel[j]
      <3>1. CASE j = k
        BY <1>0, <1>1, <1>5, <3>1
      <3>2. CASE j # k
        BY <1>5, <3>2
      <3> QED
        BY <3>1, <3>2
    <2> QED
      BY <1>2, <2>1 DEF FillInv, AckedSettled, Settled, Buried
  <1>8. Grows /\ \A j \in Streams : readTo[j] <= readTo'[j]
    BY <1>0, <1>2, <1>5 DEF Grows, FillInv, TypeOK
  <1>9. SweepTrue(s)'
    BY <1>0, <1>2, <1>3, <1>5 DEF FillInv, SweepTrue
  <1>10. \A d \in Sweepers : SweepTrue(d)'
    BY <1>2, <1>4, <1>5, <1>8, <1>9, OthersKept
  <1>11. EntriesSent' /\ SentEntered' /\ CountsHonest' /\ BuriedAfterRetries'
    BY <1>2 DEF FillInv, EntriesSent, SentEntered, CountsHonest, BuriedAfterRetries, Buried
  <1> QED
    BY <1>4, <1>6, <1>7, <1>10, <1>11 DEF FillInv

LEMMA AckInv ==
  ASSUME FillInv, NEW s \in Sweepers, Ack(s)
  PROVE  FillInv'
  <1>1. /\ sweeper[s] = "ack" /\ pel' = [pel EXCEPT ![at[s]] = @ \ {Id(s)}]
        /\ sweeper' = [sweeper EXCEPT ![s] = "clear"]
        /\ UNCHANGED <<entries, readTo, attempts, lasting, stray, phase, todo, at, batch, applied, sent,
                       failures, faults>>
    BY DEF Ack, Goto, counterVars, sweepVars
  <1>2. batch[s] # {} /\ Settled(Msg(s)) /\ at[s] \in Streams
    BY <1>1 DEF FillInv, SweepTrue, TypeOK
  <1>3. TypeOK'
    BY <1>1 DEF FillInv, TypeOK, SweepPC
  <1>4. /\ pel'[at[s]] = pel[at[s]] \ {Id(s)}
        /\ \A j \in Streams : j # at[s] => pel'[j] = pel[j]
        /\ sweeper'[s] = "clear" /\ \A d \in Sweepers : d # s => sweeper'[d] = sweeper[d]
    BY <1>1, <1>2 DEF FillInv, TypeOK
  <1>5. Delivered'
    BY <1>1, <1>4 DEF FillInv, Delivered
  <1>6. AckedSettled'
    <2> SUFFICES ASSUME NEW j \in Streams, NEW i \in 1..readTo[j], i \notin pel'[j]
                 PROVE  Settled(entries[j][i])
      BY <1>1 DEF AckedSettled, Settled, Buried
    <2>1. CASE i \notin pel[j]
      BY <2>1 DEF FillInv, AckedSettled
    <2>2. CASE i \in pel[j]
      BY <1>2, <1>4, <2>2 DEF Msg
    <2> QED
      BY <2>1, <2>2
  <1>7. Grows /\ \A j \in Streams : readTo[j] <= readTo'[j]
    BY <1>1 DEF Grows, FillInv, TypeOK
  <1>8. SweepTrue(s)'
    BY <1>1, <1>4 DEF FillInv, SweepTrue
  <1>9. \A d \in Sweepers : SweepTrue(d)'
    BY <1>1, <1>3, <1>4, <1>7, <1>8, OthersKept
  <1>10. EntriesSent' /\ SentEntered' /\ CountsHonest' /\ BuriedAfterRetries'
    BY <1>1 DEF FillInv, EntriesSent, SentEntered, CountsHonest, BuriedAfterRetries, Buried
  <1> QED
    BY <1>3, <1>5, <1>6, <1>9, <1>10 DEF FillInv

-----------------------------------------------------------------------------
(* Adding an entry.                                                            *)

LEMMA Appended ==
  ASSUME FillInv, NEW d \in Streams, NEW m \in Msgs, Len(entries[d]) < MaxLen,
         entries' = [entries EXCEPT ![d] = Append(@, m)]
  PROVE  /\ entries' \in [Streams -> Seq(Msgs)]
         /\ Len(entries[d]) \in Nat /\ Len(entries'[d]) = Len(entries[d]) + 1
         /\ entries'[d][Len(entries[d]) + 1] = m
         /\ \A i \in 1..Len(entries[d]) : entries'[d][i] = entries[d][i]
         /\ \A k \in Streams : k # d => entries'[k] = entries[k]
  <1>1. entries'[d] = Append(entries[d], m) /\ entries[d] \in Seq(Msgs)
        /\ \A k \in Streams : k # d => entries'[k] = entries[k]
    BY DEF FillInv, TypeOK
  <1>2. entries' \in [Streams -> Seq(Msgs)]
    BY DEF FillInv, TypeOK
  <1> QED
    BY <1>1, <1>2

\* What was said of the entries so far is still so, and the new one is a message
\* that was published.
LEMMA AppendInv ==
  ASSUME FillInv, TypeOK', NEW d \in Streams, NEW m \in Msgs, m \in sent', Len(entries[d]) < MaxLen,
         entries' = [entries EXCEPT ![d] = Append(@, m)],
         UNCHANGED <<readTo, pel, attempts, applied, failures>>, sent \subseteq sent'
  PROVE  /\ Grows /\ Delivered' /\ EntriesSent' /\ AckedSettled' /\ CountsHonest'
         /\ \A j \in sent : \E i \in 1..Len(entries'[Main(j)]) : entries'[Main(j)][i] = j
  <1>1. /\ Len(entries[d]) \in Nat /\ Len(entries'[d]) = Len(entries[d]) + 1
        /\ entries'[d][Len(entries[d]) + 1] = m
        /\ \A i \in 1..Len(entries[d]) : entries'[d][i] = entries[d][i]
        /\ \A k \in Streams : k # d => entries'[k] = entries[k]
    BY Appended
  <1>2. \A k \in Streams : Len(entries[k]) \in Nat /\ Len(entries'[k]) \in Nat /\ readTo[k] \in Nat
    BY DEF FillInv, TypeOK
  <1>3. Grows
    BY <1>1, <1>2 DEF Grows, FillInv, TypeOK
  <1>4. Delivered'
    <2>1. MaxLen \in Nat
      BY ConstantsAssumption
    <2> QED
      BY <1>1, <1>2, <2>1 DEF FillInv, Delivered
  <1>5. EntriesSent'
    <2> SUFFICES ASSUME NEW k \in Streams, NEW i \in 1..Len(entries'[k]) PROVE entries'[k][i] \in sent'
      BY DEF EntriesSent
    <2>1. CASE i \in 1..Len(entries[k])
      BY <1>3, <2>1 DEF Grows, FillInv, EntriesSent
    <2>2. CASE k = d /\ i = Len(entries[d]) + 1
      BY <1>1, <2>2
    <2> QED
      BY <1>1, <1>2, <2>1, <2>2
  <1>6. AckedSettled'
    <2> SUFFICES ASSUME NEW k \in Streams, NEW i \in 1..readTo[k], i \notin pel[k]
                 PROVE  Settled(entries[k][i])'
      BY DEF AckedSettled
    <2>1. i \in 1..Len(entries[k]) /\ Settled(entries[k][i])
      BY <1>2 DEF FillInv, Delivered, AckedSettled
    <2>2. entries'[k][i] = entries[k][i]
      BY <1>3, <2>1 DEF Grows
    <2>3. PICK x : x = entries[k][i]
      OBVIOUS
    <2>4. Settled(x)'
      BY <1>3, <2>1, <2>3, SettledStays DEF FillInv
    <2> QED
      BY <2>2, <2>3, <2>4 DEF Settled, Buried
  <1>7. CountsHonest'
    <2> SUFFICES ASSUME NEW k \in Streams, NEW i \in Ids, attempts[<<k, i>>] > 0
                 PROVE  i <= Len(entries'[k]) /\ attempts[<<k, i>>] <= failures[entries'[k][i]]
      BY DEF CountsHonest
    <2>1. i \in Nat /\ i >= 1
      BY DEF Ids
    <2>2. i \in 1..Len(entries[k]) /\ attempts[<<k, i>>] <= failures[entries[k][i]]
      BY <1>2, <2>1 DEF FillInv, CountsHonest
    <2> QED
      BY <1>2, <1>3, <2>1, <2>2 DEF Grows
  <1>8. ASSUME NEW j \in sent PROVE \E i \in 1..Len(entries'[Main(j)]) : entries'[Main(j)][i] = j
    <2>1. PICK i \in 1..Len(entries[Main(j)]) : entries[Main(j)][i] = j
      BY DEF FillInv, SentEntered
    <2>2. Main(j) \in Streams
      BY ConstantsAssumption DEF FillInv, TypeOK, Main, Streams
    <2>3. i \in 1..Len(entries'[Main(j)]) /\ entries'[Main(j)][i] = j
      BY <1>2, <1>3, <2>1, <2>2 DEF Grows
    <2> QED
      BY <2>3
  <1> QED
    BY <1>3, <1>4, <1>5, <1>6, <1>7, <1>8

LEMMA PublishInv ==
  ASSUME FillInv, NEW m \in Msgs, Publish(m)
  PROVE  FillInv'
  <1>1. /\ Main(m) \in Streams /\ Main(m)[2] = 0
    BY ConstantsAssumption DEF Main, Streams
  <1>2. /\ Len(entries[Main(m)]) < MaxLen /\ sent' = sent \cup {m}
        /\ entries' = [entries EXCEPT ![Main(m)] = Append(@, m)]
        /\ UNCHANGED <<readTo, pel, attempts, lasting, stray, sweeper, phase, todo, at, batch, applied,
                       failures, faults>>
    BY DEF Publish, counterVars, sweepVars
  <1>3. /\ entries' \in [Streams -> Seq(Msgs)]
        /\ Len(entries[Main(m)]) \in Nat /\ Len(entries'[Main(m)]) = Len(entries[Main(m)]) + 1
        /\ entries'[Main(m)][Len(entries[Main(m)]) + 1] = m
        /\ \A k \in Streams : k # Main(m) => entries'[k] = entries[k]
    BY <1>1, <1>2, Appended
  <1>4. TypeOK'
    BY <1>2, <1>3 DEF FillInv, TypeOK
  <1>5. /\ Grows /\ Delivered' /\ EntriesSent' /\ AckedSettled' /\ CountsHonest'
        /\ \A j \in sent : \E i \in 1..Len(entries'[Main(j)]) : entries'[Main(j)][i] = j
    BY <1>1, <1>2, <1>4, AppendInv
  <1>6. SentEntered'
    <2>1. Len(entries[Main(m)]) + 1 \in 1..Len(entries'[Main(m)])
      BY <1>3
    <2>2. \E i \in 1..Len(entries'[Main(m)]) : entries'[Main(m)][i] = m
      BY <1>3, <2>1
    <2> QED
      BY <1>2, <1>5, <2>2 DEF SentEntered, Main
  <1>7. \A k \in Streams : readTo[k] <= readTo'[k]
    BY <1>2 DEF FillInv, TypeOK
  <1>8. \A s \in Sweepers : SweepTrue(s)'
    BY <1>2, <1>4, <1>5, <1>7, OthersKept
  <1>9. BuriedAfterRetries'
    BY <1>1, <1>2, <1>3 DEF FillInv, BuriedAfterRetries, Buried
  <1> QED
    BY <1>4, <1>5, <1>6, <1>8, <1>9 DEF FillInv

LEMMA BuryInv ==
  ASSUME FillInv, NEW s \in Sweepers, Bury(s)
  PROVE  FillInv'
  <1> DEFINE d == Dead(at[s])
  <1>1. PICK m : m = Msg(s)
    OBVIOUS
  <1>2. /\ sweeper[s] = "bury" /\ Len(entries[d]) < MaxLen
        /\ entries' = [entries EXCEPT ![d] = Append(@, m)]
        /\ sweeper' = [sweeper EXCEPT ![s] = "ack"]
        /\ UNCHANGED <<readTo, pel, attempts, lasting, stray, phase, todo, at, batch, applied, sent,
                       failures, faults>>
    BY <1>1 DEF Bury, Goto, counterVars, sweepVars
  <1>3. /\ batch[s] # {} /\ at[s] \in Streams /\ at[s][2] < MaxDepth
        /\ m \in Poison \/ failures[m] >= MaxDeliveries
    BY <1>1, <1>2 DEF FillInv, SweepTrue, TypeOK
  <1>4. d \in Streams /\ d[2] > 0
    BY <1>3, ConstantsAssumption DEF Streams, Dead
  <1>5. /\ m \in Msgs /\ m \in sent /\ Id(s) \in 1..Len(entries[at[s]])
    BY <1>1, <1>3, Current
  <1>6. /\ entries' \in [Streams -> Seq(Msgs)]
        /\ Len(entries[d]) \in Nat /\ Len(entries'[d]) = Len(entries[d]) + 1
        /\ entries'[d][Len(entries[d]) + 1] = m
        /\ \A i \in 1..Len(entries[d]) : entries'[d][i] = entries[d][i]
        /\ \A k \in Streams : k # d => entries'[k] = entries[k]
    BY <1>2, <1>4, <1>5, Appended
  <1>7. TypeOK'
    BY <1>2, <1>6 DEF FillInv, TypeOK, SweepPC
  <1>8. /\ Grows /\ Delivered' /\ EntriesSent' /\ AckedSettled' /\ CountsHonest'
        /\ \A j \in sent : \E i \in 1..Len(entries'[Main(j)]) : entries'[Main(j)][i] = j
    <2> HIDE DEF d
    <2> QED
      BY <1>2, <1>4, <1>5, <1>7, AppendInv
  <1>9. SentEntered'
    BY <1>2, <1>8 DEF SentEntered, Main
  <1>10. Buried(m)'
    <2>1. Len(entries[d]) + 1 \in 1..Len(entries'[d])
      BY <1>6
    <2> QED
      BY <1>4, <1>6, <2>1 DEF Buried
  <1>11. SweepTrue(s)'
    <2>1. sweeper'[s] = "ack"
      BY <1>2 DEF FillInv, TypeOK
    <2>2. Msg(s)' = m
      BY <1>1, <1>2, <1>3, <1>5, <1>8 DEF Msg, Id, Grows
    <2>3. Settled(Msg(s))'
      BY <1>10, <2>2 DEF Settled, Buried
    <2> QED
      BY <1>2, <1>3, <2>1, <2>3 DEF FillInv, SweepTrue
  <1>12. \A e \in Sweepers : e # s => sweeper'[e] = sweeper[e]
    BY <1>2 DEF FillInv, TypeOK
  <1>13. \A k \in Streams : readTo[k] <= readTo'[k]
    BY <1>2 DEF FillInv, TypeOK
  <1>14. \A e \in Sweepers : SweepTrue(e)'
    BY <1>2, <1>7, <1>8, <1>11, <1>12, <1>13, OthersKept
  <1>15. BuriedAfterRetries'
    <2> SUFFICES ASSUME NEW j \in Msgs \ Poison, Buried(j)' PROVE failures[j] >= MaxDeliveries
      BY <1>2 DEF BuriedAfterRetries
    <2>1. PICK k \in Streams : k[2] > 0 /\ \E i \in 1..Len(entries'[k]) : entries'[k][i] = j
      BY DEF Buried
    <2>2. PICK i \in 1..Len(entries'[k]) : entries'[k][i] = j
      BY <2>1
    <2>3. CASE k = d /\ i = Len(entries[d]) + 1
      BY <1>3, <1>6, <2>2, <2>3
    <2>4. CASE i \in 1..Len(entries[k]) /\ entries[k][i] = j
      BY <2>1, <2>4 DEF FillInv, BuriedAfterRetries, Buried
    <2> QED
      BY <1>6, <2>2, <2>3, <2>4
  <1> QED
    BY <1>7, <1>8, <1>9, <1>14, <1>15 DEF FillInv

-----------------------------------------------------------------------------
LEMMA InitInv == Init => FillInv
  <1> SUFFICES ASSUME Init PROVE FillInv
    OBVIOUS
  <1>1. TypeOK
    <2>1. PICK u \in Users : TRUE
      BY ConstantsAssumption
    <2>2. <<u, 0>> \in Streams
      BY ConstantsAssumption DEF Streams
    <2>3. (CHOOSE k \in Streams : TRUE) \in Streams
      BY <2>2
    <2>4. at \in [Sweepers -> Streams]
      BY <2>3 DEF Init
    <2>5. /\ 0 \in 0..MaxLen /\ 0 \in 0..MaxDeliveries /\ 0 \in 0..MaxFaults
      BY ConstantsAssumption
    <2>6. /\ entries \in [Streams -> Seq(Msgs)] /\ readTo \in [Streams -> 0..MaxLen]
          /\ pel \in [Streams -> SUBSET Ids] /\ attempts \in [Counters -> 0..MaxDeliveries]
      BY <2>5 DEF Init
    <2>7. lasting = {} /\ stray = {} /\ applied = {} /\ sent = {} /\ faults \in 0..MaxFaults
      BY <2>5 DEF Init
    <2>8. /\ sweeper \in [Sweepers -> SweepPC] /\ phase \in [Sweepers -> {"0", ">"}]
          /\ todo \in [Sweepers -> SUBSET (Streams \cup Counters)]
          /\ batch \in [Sweepers -> SUBSET Ids] /\ failures \in [Msgs -> Nat]
      BY DEF Init, SweepPC
    <2> QED
      BY <2>4, <2>6, <2>7, <2>8 DEF TypeOK
  <1>2. Delivered /\ EntriesSent /\ SentEntered /\ AckedSettled
    BY ConstantsAssumption DEF Init, Delivered, EntriesSent, SentEntered, AckedSettled
  <1>3. CountsHonest
    BY DEF Init, CountsHonest, Counters
  <1>4. BuriedAfterRetries
    BY DEF Init, BuriedAfterRetries, Buried
  <1>5. \A s \in Sweepers : SweepTrue(s)
    BY DEF Init, SweepTrue
  <1> QED
    BY <1>1, <1>2, <1>3, <1>4, <1>5 DEF FillInv

LEMMA NextInv == FillInv /\ [Next]_vars => FillInv'
  <1> SUFFICES ASSUME FillInv, [Next]_vars PROVE FillInv'
    OBVIOUS
  <1>1. CASE UNCHANGED vars
    BY <1>1 DEF vars, FillInv, TypeOK, Delivered, EntriesSent, SentEntered, AckedSettled, Settled, CountsHonest,
                BuriedAfterRetries, Buried, SweepTrue, Msg, Id
  <1>2. ASSUME NEW m \in Msgs, Publish(m) PROVE FillInv'
    BY <1>2, PublishInv
  <1>3. ASSUME NEW c \in Counters, CounterExpires(c) PROVE FillInv'
    BY <1>3, CounterExpiresInv
  <1>4. ASSUME NEW s \in Sweepers, BeginSweep(s) \/ FinishSweep(s) \/ SweepDies(s) PROVE FillInv'
    BY <1>4, BeginSweepInv, SweepEndsInv
  <1>5. ASSUME NEW s \in Sweepers, SweepStep(s) PROVE FillInv'
    BY <1>5, SweepEndsInv, VisitCounterInv, VisitStreamInv, ReadNewInv, StreamDrainedInv, ParseFailsInv,
       IngestInv, IngestFailsInv, CountFailsInv, BuryInv, BuryFailsInv, AckInv, ClearCounterInv DEF SweepStep
  <1> QED
    BY <1>1, <1>2, <1>3, <1>4, <1>5 DEF Next

LEMMA SpecInv == Spec => []FillInv
  BY InitInv, NextInv, PTL DEF Spec

-----------------------------------------------------------------------------
\* Whatever overlaps, dies or expires, a message that parses is in a dead-letter
\* stream only after _MAX_DELIVERIES failures of its own (_process_message).
THEOREM PatienceKept == Spec => []FillsConsistent
  <1>1. FillInv => FillsConsistent
    BY DEF FillInv, FillsConsistent
  <1> QED
    BY <1>1, SpecInv, PTL

\* A published event is never dropped: its entry is unread, pending, applied or
\* dead-lettered (publish_fill, sweep_all_streams, _process_message).
THEOREM NoFillLost == Spec => []NothingLost
  <1>1. FillInv => NothingLost
    <2> SUFFICES ASSUME FillInv, NEW m \in sent, m \notin applied, ~Buried(m),
                        ~ \E i \in pel[Main(m)] : entries[Main(m)][i] = m
                 PROVE  m \in Unread
      BY DEF NothingLost
    <2>1. Main(m) \in Streams
      BY ConstantsAssumption DEF FillInv, TypeOK, Main, Streams
    <2>2. PICK i \in 1..Len(entries[Main(m)]) : entries[Main(m)][i] = m
      BY DEF FillInv, SentEntered
    <2>3. readTo[Main(m)] \in Nat /\ Len(entries[Main(m)]) \in Nat /\ Len(entries[Main(m)]) <= MaxLen
      BY <2>1 DEF FillInv, TypeOK, Delivered
    <2>4. i \notin 1..readTo[Main(m)]
      BY <2>1, <2>2 DEF FillInv, AckedSettled, Settled
    <2>5. i \in Ids /\ i \in readTo[Main(m)] + 1 .. Len(entries[Main(m)])
      BY <2>2, <2>3, <2>4, ConstantsAssumption DEF Ids
    <2> QED
      BY <2>2, <2>5 DEF Unread
  <1> QED
    BY <1>1, SpecInv, PTL

=============================================================================
