---------------------------- MODULE FillStream ----------------------------
(***************************************************************************)
(* The fill transport of apps/orders/fills.py: publish_fill appends to the *)
(* Redis stream of the user, sweep_all_streams (the fill_ingestor beat)    *)
(* drains every key that matches fills:user:* through one consumer group   *)
(* and one consumer name; failed entries stay pending, exhausted and       *)
(* unparsable ones move to the dead-letter stream fills:user:{id}:dead.    *)
(*                                                                         *)
(* The pattern matches the dead-letter streams and the attempt counters    *)
(* too, so both are visited by the sweep and are part of the model.        *)
(***************************************************************************)
EXTENDS Naturals, Sequences, FiniteSets, FiniteSetsExt

CONSTANTS
  Users, Msgs,
  UserOf,          \* [Msgs -> Users]
  Poison,          \* messages that do not parse
  Sweepers,        \* fill_ingestor runs that may overlap
  MaxDeliveries,   \* _MAX_DELIVERIES
  BatchSize,       \* count of one XREADGROUP
  MaxDepth,        \* bound: :dead suffixes followed
  MaxLen,          \* bound: entries of one stream
  MaxFailures,     \* bound: ingest_fill_event failures, all messages together
  MaxFaults        \* bound: sweeps that die, Redis commands that fail

ASSUME ConstantsAssumption ==
  /\ Users # {} /\ UserOf \in [Msgs -> Users]
  /\ Poison \subseteq Msgs
  /\ MaxDeliveries \in Nat \ {0, 1} /\ BatchSize \in Nat \ {0}
  /\ MaxDepth \in Nat \ {0} /\ MaxLen \in Nat
  /\ MaxFailures \in Nat /\ MaxFaults \in Nat

Streams == Users \X (0..MaxDepth)     \* fills:user:{id} and its :dead, :dead:dead, ...
Ids == 1..MaxLen
Counters == Streams \X Ids            \* fills:user:{id}:attempts:{msg id}
Main(m) == <<UserOf[m], 0>>
Dead(k) == <<k[1], k[2] + 1>>

\* A key names a stream or a counter, never both.
ASSUME KeysDiffer == Streams \cap Counters = {}

VARIABLES
  entries,    \* [Streams -> Seq(Msgs)]
  readTo,     \* [Streams -> Nat]: last id the group delivered
  pel,        \* [Streams -> SUBSET Ids]: delivered, not acknowledged
  attempts,   \* [Counters -> Nat]; 0 = no such key
  lasting,    \* counters whose EXPIRE never went through
  stray,      \* counter keys that hold an empty stream instead of a number
  sweeper,    \* where each sweep is
  phase,      \* "0" while it replays pending entries, ">" while it reads new ones
  todo,       \* keys SCAN returned that it has not visited yet
  at,         \* the stream it drains
  batch,      \* ids of the last XREADGROUP it has not settled yet
  applied,    \* messages whose ingest_fill_event committed
  sent,       \* history: messages published
  failures,   \* history: failed ingest calls per message
  faults

vars == <<entries, readTo, pel, attempts, lasting, stray, sweeper, phase, todo, at, batch, applied,
          sent, failures, faults>>
counterVars == <<attempts, lasting, stray>>
redisVars == <<entries, readTo, pel, counterVars>>
sweepVars == <<phase, todo, at, batch>>

SweepPC == {"idle", "scan", "work", "bury", "ack", "clear"}

TypeOK ==
  /\ entries \in [Streams -> Seq(Msgs)]
  /\ readTo \in [Streams -> 0..MaxLen]
  /\ pel \in [Streams -> SUBSET Ids]
  /\ attempts \in [Counters -> 0..MaxDeliveries]
  /\ lasting \subseteq {c \in Counters : attempts[c] > 0}
  /\ stray \subseteq {c \in Counters : attempts[c] = 0}
  /\ sweeper \in [Sweepers -> SweepPC]
  /\ phase \in [Sweepers -> {"0", ">"}]
  /\ todo \in [Sweepers -> SUBSET (Streams \cup Counters)]
  /\ at \in [Sweepers -> Streams]
  /\ batch \in [Sweepers -> SUBSET Ids]
  /\ applied \subseteq sent /\ sent \subseteq Msgs
  /\ failures \in [Msgs -> Nat]
  /\ faults \in 0..MaxFaults

Init ==
  /\ entries = [k \in Streams |-> <<>>]
  /\ readTo = [k \in Streams |-> 0]
  /\ pel = [k \in Streams |-> {}]
  /\ attempts = [c \in Counters |-> 0]
  /\ lasting = {} /\ stray = {}
  /\ sweeper = [s \in Sweepers |-> "idle"]
  /\ phase = [s \in Sweepers |-> "0"]
  /\ todo = [s \in Sweepers |-> {}]
  /\ at = [s \in Sweepers |-> CHOOSE k \in Streams : TRUE]
  /\ batch = [s \in Sweepers |-> {}]
  /\ applied = {} /\ sent = {}
  /\ failures = [m \in Msgs |-> 0]
  /\ faults = 0

-----------------------------------------------------------------------------
(* The producer.                                                           *)

\* XADD of one fill event.  The supervisor publishes an event once; one whose
\* XADD fails is logged and never enters the stream (fills.py:93).
Publish(m) ==
  /\ m \notin sent
  /\ Len(entries[Main(m)]) < MaxLen
  /\ sent' = sent \cup {m}
  /\ entries' = [entries EXCEPT ![Main(m)] = Append(@, m)]
  /\ UNCHANGED <<readTo, pel, counterVars, sweeper, sweepVars, applied, failures, faults>>

-----------------------------------------------------------------------------
(* The sweep.                                                              *)

\* The messages of the users' own streams that no group read has returned.
Unread == {m \in sent : \E i \in Ids : /\ i \in readTo[Main(m)] + 1 .. Len(entries[Main(m)])
                                       /\ entries[Main(m)][i] = m}

\* The keys the pattern fills:user:* matches.  The deepest dead-letter stream
\* is left out: that is the bound MaxDepth.
Scanned ==
  {k \in Streams : k[2] < MaxDepth /\ entries[k] # <<>>}
    \cup {c \in Counters : attempts[c] > 0} \cup stray

BeginSweep(s) ==
  /\ sweeper[s] = "idle"
  /\ Scanned # {}
  /\ todo' = [todo EXCEPT ![s] = Scanned]
  /\ sweeper' = [sweeper EXCEPT ![s] = "scan"]
  /\ UNCHANGED <<redisVars, phase, at, batch, applied, sent, failures, faults>>

\* The sweep is over, or gives up: nothing of it survives.
EndSweep(s) ==
  /\ sweeper' = [sweeper EXCEPT ![s] = "idle"]
  /\ todo' = [todo EXCEPT ![s] = {}]
  /\ batch' = [batch EXCEPT ![s] = {}]
  /\ phase' = [phase EXCEPT ![s] = "0"]
  /\ UNCHANGED at

FinishSweep(s) ==
  /\ sweeper[s] = "scan"
  /\ todo[s] = {}
  /\ EndSweep(s)
  /\ UNCHANGED <<redisVars, applied, sent, failures, faults>>

\* XGROUP CREATE on a counter is a WRONGTYPE error, not BUSYGROUP: it is raised
\* again and ends the sweep.  A counter that is gone by now is created as an
\* empty stream (MKSTREAM): nothing to read there.
VisitCounter(s, c) ==
  /\ sweeper[s] = "scan"
  /\ c \in todo[s] \cap Counters
  /\ IF attempts[c] > 0
     THEN EndSweep(s) /\ UNCHANGED stray
     ELSE /\ todo' = [todo EXCEPT ![s] = @ \ {c}]
          /\ stray' = stray \cup {c}
          /\ UNCHANGED <<sweeper, phase, at, batch>>
  /\ UNCHANGED <<entries, readTo, pel, attempts, lasting, applied, sent, failures, faults>>

\* The first BatchSize ids of a set.
First(ids) == {i \in ids : Cardinality({j \in ids : j <= i}) <= BatchSize}

\* XREADGROUP with "0": the pending entries of the one consumer name.
VisitStreamNoReplay(s, k) ==  \* mutant: pending entries are never replayed
  /\ sweeper[s] = "scan"
  /\ k \in todo[s] \cap Streams
  /\ todo' = [todo EXCEPT ![s] = @ \ {k}]
  /\ at' = [at EXCEPT ![s] = k]
  /\ sweeper' = [sweeper EXCEPT ![s] = "work"]
  /\ UNCHANGED <<redisVars, phase, batch, applied, sent, failures, faults>>
VisitStream(s, k) ==
  /\ sweeper[s] = "scan"
  /\ k \in todo[s] \cap Streams
  /\ todo' = [todo EXCEPT ![s] = @ \ {k}]
  /\ at' = [at EXCEPT ![s] = k]
  /\ batch' = [batch EXCEPT ![s] = First(pel[k])]
  /\ sweeper' = [sweeper EXCEPT ![s] = "work"]
  /\ UNCHANGED <<redisVars, phase, applied, sent, failures, faults>>

\* XREADGROUP with ">": the entries nobody has read become pending.
ReadNew(s) ==
  LET k == at[s]  fresh == First(readTo[k] + 1 .. Len(entries[k])) IN
  /\ sweeper[s] = "work" /\ batch[s] = {} /\ phase[s] = "0"
  /\ phase' = [phase EXCEPT ![s] = ">"]
  /\ batch' = [batch EXCEPT ![s] = fresh]
  /\ readTo' = [readTo EXCEPT ![k] = @ + Cardinality(fresh)]
  /\ pel' = [pel EXCEPT ![k] = @ \cup fresh]
  /\ UNCHANGED <<entries, counterVars, sweeper, todo, at, applied, sent, failures, faults>>

StreamDrained(s) ==
  /\ sweeper[s] = "work" /\ batch[s] = {} /\ phase[s] = ">"
  /\ phase' = [phase EXCEPT ![s] = "0"]
  /\ sweeper' = [sweeper EXCEPT ![s] = "scan"]
  /\ UNCHANGED <<redisVars, todo, at, batch, applied, sent, failures, faults>>

-----------------------------------------------------------------------------
(* _process_message, one entry at a time in the order of the ids.          *)

Id(s) == Min(batch[s])
Msg(s) == entries[at[s]][Id(s)]
Counter(s) == <<at[s], Id(s)>>

Goto(s, pc) == sweeper' = [sweeper EXCEPT ![s] = pc] /\ UNCHANGED sweepVars
NextEntry(s) ==
  /\ batch' = [batch EXCEPT ![s] = @ \ {Id(s)}]
  /\ sweeper' = [sweeper EXCEPT ![s] = "work"]
  /\ UNCHANGED <<phase, todo, at>>

Working(s) == sweeper[s] = "work" /\ batch[s] # {}

ParseFails(s) ==
  /\ Working(s)
  /\ Msg(s) \in Poison
  /\ Goto(s, "bury")
  /\ UNCHANGED <<redisVars, applied, sent, failures, faults>>

\* ingest_fill_event commits; applying a message again is a no-op there.
Ingest(s) ==
  /\ Working(s)
  /\ Msg(s) \notin Poison
  /\ applied' = applied \cup {Msg(s)}
  /\ Goto(s, "ack")
  /\ UNCHANGED <<redisVars, sent, failures, faults>>

\* ingest_fill_event raises; the commit itself may have gone through.
TotalFailures == FoldSet(LAMBDA m, n : failures[m] + n, 0, Msgs)
IngestRaises(s) ==
  /\ Working(s)
  /\ Msg(s) \notin Poison
  /\ TotalFailures < MaxFailures
  /\ failures' = [failures EXCEPT ![Msg(s)] = @ + 1]
  /\ applied' \in {applied, applied \cup {Msg(s)}}
  /\ UNCHANGED <<entries, readTo, pel, sent>>

\* INCR and EXPIRE of the counter decide between another delivery and the
\* dead letter.  Beyond MaxDeliveries the count makes no difference.
IngestFailsGivesUp(s) ==  \* mutant: buried at the first failure
  /\ IngestRaises(s)
  /\ Counter(s) \notin stray
  /\ attempts' = [attempts EXCEPT ![Counter(s)] = 1]
  /\ lasting' = lasting \ {Counter(s)}
  /\ Goto(s, "bury")
  /\ UNCHANGED <<stray, faults>>
IngestFails(s) ==
  LET n == attempts[Counter(s)] + 1 IN
  /\ IngestRaises(s)
  /\ Counter(s) \notin stray
  /\ attempts' = [attempts EXCEPT ![Counter(s)] = IF n < MaxDeliveries THEN n ELSE MaxDeliveries]
  /\ lasting' = lasting \ {Counter(s)}
  /\ IF n >= MaxDeliveries THEN Goto(s, "bury") ELSE NextEntry(s)
  /\ UNCHANGED <<stray, faults>>

\* INCR meets a stream, INCR fails, or EXPIRE fails after it: the attempt counts
\* as the first.  A counter that INCR has just created then never expires.
CountFails(s) ==
  /\ IngestRaises(s)
  /\ \/ /\ Counter(s) \in stray
        /\ UNCHANGED <<attempts, lasting, faults>>
     \/ /\ faults < MaxFaults
        /\ faults' = faults + 1
        /\ UNCHANGED <<attempts, lasting>>
     \/ /\ faults < MaxFaults
        /\ faults' = faults + 1
        /\ Counter(s) \notin stray /\ attempts[Counter(s)] < MaxDeliveries
        /\ attempts' = [attempts EXCEPT ![Counter(s)] = @ + 1]
        /\ lasting' = IF attempts[Counter(s)] = 0 THEN lasting \cup {Counter(s)} ELSE lasting
  /\ NextEntry(s)
  /\ UNCHANGED stray

\* XADD to the dead-letter stream, before the entry is acknowledged.
Bury(s) ==
  LET d == Dead(at[s]) IN
  /\ sweeper[s] = "bury"
  /\ Len(entries[d]) < MaxLen
  /\ entries' = [entries EXCEPT ![d] = Append(@, Msg(s))]
  /\ Goto(s, "ack")
  /\ UNCHANGED <<readTo, pel, counterVars, applied, sent, failures, faults>>

\* That XADD fails: the entry stays pending.
BuryFailsAcked(s) ==  \* mutant: acknowledged all the same
  /\ sweeper[s] = "bury"
  /\ faults < MaxFaults
  /\ faults' = faults + 1
  /\ Goto(s, "ack")
  /\ UNCHANGED <<redisVars, applied, sent, failures>>
BuryFails(s) ==
  /\ sweeper[s] = "bury"
  /\ faults < MaxFaults
  /\ faults' = faults + 1
  /\ NextEntry(s)
  /\ UNCHANGED <<redisVars, applied, sent, failures>>

Ack(s) ==
  /\ sweeper[s] = "ack"
  /\ pel' = [pel EXCEPT ![at[s]] = @ \ {Id(s)}]
  /\ Goto(s, "clear")
  /\ UNCHANGED <<entries, readTo, counterVars, applied, sent, failures, faults>>

\* DEL of the counter (a message that does not parse never has one).
ClearCounter(s) ==
  /\ sweeper[s] = "clear"
  /\ attempts' = [attempts EXCEPT ![Counter(s)] = 0]
  /\ lasting' = lasting \ {Counter(s)}
  /\ stray' = stray \ {Counter(s)}
  /\ NextEntry(s)
  /\ UNCHANGED <<entries, readTo, pel, applied, sent, failures, faults>>

\* The worker is killed, or a Redis command raises out of the sweep.
SweepDies(s) ==
  /\ sweeper[s] # "idle"
  /\ faults < MaxFaults
  /\ faults' = faults + 1
  /\ EndSweep(s)
  /\ UNCHANGED <<redisVars, applied, sent, failures>>

\* _ATTEMPTS_TTL: a counter lives for a day after its last INCR.
CounterExpires(c) ==
  /\ attempts[c] > 0 /\ c \notin lasting
  /\ attempts' = [attempts EXCEPT ![c] = 0]
  /\ UNCHANGED <<entries, readTo, pel, lasting, stray, sweeper, sweepVars, applied, sent, failures, faults>>

-----------------------------------------------------------------------------
SweepStep(s) ==
  \/ FinishSweep(s)
  \/ \E c \in Counters : VisitCounter(s, c)
  \/ \E k \in Streams : VisitStream(s, k)
  \/ ReadNew(s) \/ StreamDrained(s) \/ ParseFails(s) \/ Ingest(s) \/ IngestFails(s)
  \/ CountFails(s) \/ Bury(s) \/ BuryFails(s) \/ Ack(s) \/ ClearCounter(s)

Next ==
  \/ \E m \in Msgs : Publish(m)
  \/ \E s \in Sweepers : BeginSweep(s) \/ SweepStep(s) \/ SweepDies(s)
  \/ \E c \in Counters : CounterExpires(c)

Spec == Init /\ [][Next]_vars

\* The beat comes round, a sweep that runs goes on, counters expire.
Fairness ==
  /\ \A s \in Sweepers : WF_vars(BeginSweep(s)) /\ WF_vars(SweepStep(s))
  /\ \A c \in Counters : WF_vars(CounterExpires(c))

FairSpec == Spec /\ Fairness

-----------------------------------------------------------------------------
(* What must hold.                                                         *)

Buried(m) == \E k \in Streams : k[2] > 0 /\ \E i \in 1..Len(entries[k]) : entries[k][i] = m

\* A published event is never dropped: until it is applied or in a dead-letter
\* stream its entry is unread or pending, whatever dies between the commit,
\* the XADD and the XACK ("at-least-once", fills.py:131-137).
NothingLost ==
  \A m \in sent : \/ m \in Unread
                  \/ m \in applied
                  \/ Buried(m)
                  \/ \E i \in pel[Main(m)] : entries[Main(m)][i] = m

\* An event that parses is given up only after _MAX_DELIVERIES failed attempts,
\* overlapping sweeps and expired counters included (fills.py:25-27, 165).
BuriedAfterRetries ==
  \A m \in Msgs \ Poison : Buried(m) => failures[m] >= MaxDeliveries

\* Every published event is applied or dead-lettered in the end, unless some
\* counter was left without a time to live: SCAN returns that one for ever and
\* it ends every sweep that comes to it (fills.py:105, 162, 214).
FillsGetSettled ==
  \A m \in Msgs : m \in sent ~> m \in applied \/ Buried(m) \/ lasting # {}

\* Entries and counters are what Redis holds, and patience is never cut short.
FillsConsistent == TypeOK /\ BuriedAfterRetries

=============================================================================
