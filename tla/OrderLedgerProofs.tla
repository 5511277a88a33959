-------------------------- MODULE OrderLedgerProofs --------------------------
(* The ledger of an account, for any orders and lots, any trades elsewhere and *)
(* any number of mishaps.                                                      *)
EXTENDS OrderLedger, TLAPS

Closed == {"filled", "canceled", "rejected"}

\* An event tells of what has happened.
EventTrue(e) ==
    /\ e[2] \in {"fill", "partial_fill"} => e[3] >= 1
    /\ e[2] = "fill" => atBroker[e[1]] = "filled"
    /\ e[2] = "canceled" => atBroker[e[1]] = "canceled"
    /\ e[2] = "rejected" => atBroker[e[1]] = "rejected"

\* So does a status that was read at the broker.
ReplyTrue(o, reply) ==
    /\ reply # "NEEDS_RECONCILE"
    /\ reply = "FILLED" => atBroker[o] = "filled"
    /\ reply = "CANCELLED" => atBroker[o] = "canceled"
    /\ reply = "REJECTED" => atBroker[o] = "rejected"

\* The broker has not seen the order and never will.
Missed(o) == worker[o] = "over" /\ atBroker[o] = "none"

\* Before its worker submits it, an order is nowhere.
Unsent(o) == worker[o] = "new" => atBroker[o] = "none"

StatusTrue(o) ==
    /\ status[o] = "FILLED" => atBroker[o] = "filled"
    /\ status[o] = "CANCELLED" => atBroker[o] = "canceled"
    /\ status[o] = "REJECTED" => LookupsFail \/ Missed(o) \/ atBroker[o] = "rejected"
    /\ status[o] = "NEEDS_RECONCILE" => worker[o] = "over"

\* Orders are resolved only after their worker has let go of them, and what reads as
\* "not there" is not there unless look-ups fail.
Resolves(p) ==
    /\ pc[p] \in {"resolve", "settle"} => \A o \in todo[p] : worker[o] = "over"
    /\ pc[p] = "settle" =>
         /\ worker[asked[p]] = "over"
         /\ answer[p] = "none" => LookupsFail \/ atBroker[asked[p]] = "none"

EventsTrue == \A e \in inFlight : EventTrue(e)
ProcsTrue == \A p \in Procs : ReplyTrue(asked[p], answer[p]) /\ Resolves(p)
LedgerInv ==
    /\ TypeOK /\ FinalFillCompletes
    /\ EventsTrue /\ ProcsTrue /\ \A o \in Orders : StatusTrue(o) /\ Unsent(o)

\* The broker goes forward: a closed order stays as it is, an order that the worker is
\* done with does not land any more.
Forward ==
    /\ \A o \in Orders : atBroker[o] \in Closed => atBroker'[o] = atBroker[o]
    /\ \A o \in Orders : worker[o] = "over" =>
         worker'[o] = "over" /\ (atBroker[o] = "none" => atBroker'[o] = "none")
    /\ \A o \in Orders : worker'[o] = "new" =>
         worker[o] = "new" /\ (atBroker[o] = "none" => atBroker'[o] = "none")

-----------------------------------------------------------------------------
LEMMA EventIs ==
  ASSUME NEW o \in Orders, NEW k \in Kinds, NEW n \in 0..Lots[o]
  PROVE  <<o, k, n>> \in Events
  BY DEF Events

LEMMA IsEvent ==
  ASSUME NEW e \in Events
  PROVE  e[1] \in Orders /\ e[2] \in Kinds /\ e[3] \in 0..Lots[e[1]] /\ e[3] \in Nat
  BY ConstantsAssumption DEF Events

LEMMA ExecutionIs ==
  ASSUME NEW o \in Orders, NEW n \in 1..Lots[o]
  PROVE  <<o, n>> \in Executions
  BY DEF Executions

\* Statements about the broker stay true.
LEMMA TruthStays ==
  ASSUME LedgerInv, Forward
  PROVE  /\ \A e \in inFlight : EventTrue(e)'
         /\ \A p \in Procs : ReplyTrue(asked[p], answer[p])
                               => /\ answer[p] # "NEEDS_RECONCILE"
                                  /\ answer[p] = "FILLED" => atBroker'[asked[p]] = "filled"
                                  /\ answer[p] = "CANCELLED" => atBroker'[asked[p]] = "canceled"
                                  /\ answer[p] = "REJECTED" => atBroker'[asked[p]] = "rejected"
         /\ \A o \in Orders : Unsent(o)' /\ (status'[o] = status[o] => StatusTrue(o)')
  <1>1. ASSUME NEW e \in inFlight PROVE EventTrue(e)'
    <2>1. e[1] \in Orders
      BY <1>1, IsEvent DEF LedgerInv, TypeOK
    <2> QED
      BY <2>1 DEF LedgerInv, EventsTrue, EventTrue, Forward, Closed
  <1>2. \A p \in Procs : asked[p] \in Orders
    BY DEF LedgerInv, TypeOK
  <1>3. ASSUME NEW o \in Orders, status'[o] = status[o] PROVE StatusTrue(o)'
    <2>1. StatusTrue(o)
      BY DEF LedgerInv
    <2> QED
      BY <1>3, <2>1 DEF StatusTrue, Missed, Forward, Closed
  <1>4. \A o \in Orders : Unsent(o)'
    BY DEF LedgerInv, Unsent, Forward
  <1> QED
    BY <1>1, <1>2, <1>3, <1>4 DEF ReplyTrue, Forward, Closed

LEMMA ProcsStay ==
  ASSUME LedgerInv, Forward, UNCHANGED <<pc, todo, asked, answer>>
  PROVE  ProcsTrue'
  <1> SUFFICES ASSUME NEW p \in Procs PROVE ReplyTrue(asked[p], answer[p])' /\ Resolves(p)'
    BY DEF ProcsTrue
  <1>1. ReplyTrue(asked[p], answer[p])'
    BY TruthStays DEF LedgerInv, ProcsTrue, ReplyTrue
  <1>2. asked[p] \in Orders /\ todo[p] \subseteq Orders /\ Resolves(p)
    BY DEF LedgerInv, TypeOK, ProcsTrue
  <1>3. Resolves(p)'
    BY <1>2 DEF Resolves, Forward
  <1> QED
    BY <1>1, <1>3

\* What happens at the broker.
LEMMA BrokerMoves ==
  ASSUME LedgerInv, TypeOK', Forward, UNCHANGED <<orderVars, fills, pc, todo, asked, answer>>,
         \A e \in inFlight' : e \in inFlight \/ EventTrue(e)'
  PROVE  LedgerInv'
  <1>1. UNCHANGED <<status, filled>>
    BY DEF orderVars
  <1>2. EventsTrue' /\ \A o \in Orders : StatusTrue(o)' /\ Unsent(o)'
    BY <1>1, TruthStays DEF EventsTrue
  <1>3. FinalFillCompletes'
    BY <1>1 DEF LedgerInv, FinalFillCompletes
  <1> QED
    BY <1>2, <1>3, ProcsStay DEF LedgerInv

\* What happens on our side, told of one order.
LEMMA OrderMoves ==
  ASSUME LedgerInv, TypeOK', Forward, FinalFillCompletes', ProcsTrue', NEW o \in Orders,
         \A q \in Orders : q # o => status'[q] = status[q],
         StatusTrue(o)', inFlight' \subseteq inFlight
  PROVE  LedgerInv'
  BY TruthStays DEF LedgerInv, EventsTrue

-----------------------------------------------------------------------------
\* The event of a step at the broker.
LEMMA Emitted ==
  ASSUME LedgerInv, NEW e \in Events, Emit(e)
  PROVE  /\ inFlight' \subseteq Events /\ mishaps' \in 0..MaxMishaps
         /\ \A d \in inFlight' : d \in inFlight \/ d = e
  BY ConstantsAssumption DEF Emit, Mishap, LedgerInv, TypeOK

LEMMA ExecuteInv ==
  ASSUME LedgerInv, NEW o \in Orders, Execute(o)
  PROVE  LedgerInv'
  <1>0. PICK n \in Nat : n = done[o] + 1
    BY DEF LedgerInv, TypeOK
  <1>1. /\ atBroker[o] = "open" /\ done[o] < Lots[o] /\ done' = [done EXCEPT ![o] = n] /\ held' = held + 1
        /\ UNCHANGED <<worker, orderVars, bookVars, pc, fetchVars>>
        /\ \/ n = Lots[o] /\ atBroker' = [atBroker EXCEPT ![o] = "filled"] /\ Emit(<<o, "fill", n>>)
           \/ atBroker' = atBroker /\ Emit(<<o, "partial_fill", n>>)
    BY <1>0 DEF Execute
  <1>2. n \in 0..Lots[o] /\ n >= 1 /\ Lots[o] \in Nat
    <2>1. Lots[o] \in Nat /\ done[o] \in Nat
      BY ConstantsAssumption DEF LedgerInv, TypeOK
    <2> QED
      BY <1>0, <1>1, <2>1
  <1>3. PICK k \in {"fill", "partial_fill"} :
          /\ Emit(<<o, k, n>>)
          /\ k = "fill" => atBroker' = [atBroker EXCEPT ![o] = "filled"]
          /\ k = "partial_fill" => atBroker' = atBroker
    BY <1>1
  <1>4. <<o, k, n>> \in Events
    BY <1>2, EventIs DEF Kinds
  <1>5. inFlight' \subseteq Events /\ mishaps' \in 0..MaxMishaps /\ \A d \in inFlight' : d \in inFlight \/ d = <<o, k, n>>
    BY <1>3, <1>4, Emitted
  <1>6. TypeOK'
    <2>1. atBroker' \in [Orders -> BrokerState] /\ held' \in Int
      BY <1>1, <1>3 DEF LedgerInv, TypeOK, BrokerState
    <2>2. done' \in [Orders -> Nat] /\ \A q \in Orders : done'[q] <= Lots[q]
      BY <1>1, <1>2 DEF LedgerInv, TypeOK
    <2> QED
      BY <1>1, <1>5, <2>1, <2>2 DEF LedgerInv, TypeOK, orderVars, bookVars, fetchVars
  <1>7. Forward
    BY <1>1, <1>3 DEF Forward, Closed, LedgerInv, TypeOK
  <1>8. EventTrue(<<o, k, n>>)'
    BY <1>2, <1>3 DEF EventTrue, LedgerInv, TypeOK
  <1>9. \A d \in inFlight' : d \in inFlight \/ EventTrue(d)'
    BY <1>5, <1>8
  <1> QED
    BY <1>1, <1>6, <1>7, <1>9, BrokerMoves DEF orderVars, bookVars, fetchVars

LEMMA CloseInv ==
  ASSUME LedgerInv, NEW o \in Orders, NEW how \in {"canceled", "rejected"}, Close(o, how)
  PROVE  LedgerInv'
  <1>1. /\ atBroker[o] = "open" /\ atBroker' = [atBroker EXCEPT ![o] = how]
        /\ Emit(<<o, how, done[o]>>)
        /\ UNCHANGED <<done, held, worker, orderVars, bookVars, pc, fetchVars>>
    BY DEF Close
  <1>2. <<o, how, done[o]>> \in Events
    <2>1. done[o] \in 0..Lots[o]
      BY ConstantsAssumption DEF LedgerInv, TypeOK
    <2> QED
      BY <2>1, EventIs DEF Kinds
  <1>3. inFlight' \subseteq Events /\ mishaps' \in 0..MaxMishaps
        /\ \A d \in inFlight' : d \in inFlight \/ d = <<o, how, done[o]>>
    BY <1>1, <1>2, Emitted
  <1>4. TypeOK'
    BY <1>1, <1>3 DEF LedgerInv, TypeOK, BrokerState, orderVars, bookVars, fetchVars
  <1>5. Forward
    BY <1>1 DEF Forward, Closed, LedgerInv, TypeOK
  <1>6. EventTrue(<<o, how, done[o]>>)'
    BY <1>1 DEF EventTrue, LedgerInv, TypeOK
  <1>7. \A d \in inFlight' : d \in inFlight \/ EventTrue(d)'
    BY <1>3, <1>6 DEF EventTrue
  <1> QED
    BY <1>1, <1>4, <1>5, <1>7, BrokerMoves DEF orderVars, bookVars, fetchVars

LEMMA ForeignTradeInv ==
  ASSUME LedgerInv, NEW n \in ForeignLots, ForeignTrade(n)
  PROVE  LedgerInv'
  <1>1. mishaps' \in 0..MaxMishaps /\ held' \in Int
    BY ConstantsAssumption DEF ForeignTrade, Mishap, LedgerInv, TypeOK
  <1>2. UNCHANGED <<atBroker, done, worker, orderVars, bookVars, inFlight, pc, fetchVars>>
    BY DEF ForeignTrade
  <1>3. TypeOK'
    BY <1>1, <1>2 DEF LedgerInv, TypeOK, orderVars, bookVars, fetchVars
  <1>4. Forward
    BY <1>2 DEF Forward
  <1> QED
    BY <1>2, <1>3, <1>4, BrokerMoves DEF orderVars, bookVars, fetchVars

LEMMA SubmitInv ==
  ASSUME LedgerInv, NEW o \in Orders, Submit(o)
  PROVE  LedgerInv'
  <1>1. /\ worker[o] = "new" /\ worker' = [worker EXCEPT ![o] = "posted"]
        /\ \/ atBroker' = [atBroker EXCEPT ![o] = "open"] /\ Emit(<<o, "new", 0>>)
           \/ UNCHANGED <<atBroker, inFlight, mishaps>>
        /\ UNCHANGED <<done, held, orderVars, bookVars, pc, fetchVars>>
    BY DEF Submit
  <1>2. <<o, "new", 0>> \in Events
    <2>1. 0 \in 0..Lots[o]
      BY ConstantsAssumption
    <2> QED
      BY <2>1, EventIs DEF Kinds
  <1>3. /\ inFlight' \subseteq Events /\ mishaps' \in 0..MaxMishaps
        /\ \A d \in inFlight' : d \in inFlight \/ d = <<o, "new", 0>>
    BY <1>1, <1>2, Emitted DEF LedgerInv, TypeOK
  <1>4. TypeOK'
    BY <1>1, <1>3 DEF LedgerInv, TypeOK, BrokerState, orderVars, bookVars, fetchVars
  <1>5. Forward
    BY <1>1 DEF Forward, Closed, LedgerInv, TypeOK, Unsent
  <1>6. \A d \in inFlight' : d \in inFlight \/ EventTrue(d)'
    BY <1>3 DEF EventTrue
  <1> QED
    BY <1>1, <1>4, <1>5, <1>6, BrokerMoves DEF orderVars, bookVars, fetchVars

-----------------------------------------------------------------------------
\* The ends of a submit.
LEMMA OverInv ==
  ASSUME LedgerInv, NEW o \in Orders, SubmitOver(o), mishaps' \in 0..MaxMishaps,
         status' \in [Orders -> Status], \A q \in Orders : q # o => status'[q] = status[q],
         known' \in [Orders -> BOOLEAN],
         StatusTrue(o)'
  PROVE  LedgerInv'
  <1>1. /\ worker[o] = "posted" /\ worker' = [worker EXCEPT ![o] = "over"]
        /\ UNCHANGED <<atBroker, done, held, filled, fills, position, drift, inFlight, pc, saw, open,
                      todo, asked, answer>>
    BY DEF SubmitOver, brokerVars, bookVars, fetchVars
  <1>2. TypeOK'
    BY <1>1 DEF LedgerInv, TypeOK
  <1>3. Forward
    BY <1>1 DEF Forward, LedgerInv, TypeOK
  <1>4. FinalFillCompletes'
    BY <1>1 DEF LedgerInv, FinalFillCompletes
  <1> QED
    BY <1>1, <1>2, <1>3, <1>4, ProcsStay, OrderMoves

LEMMA SubmitEndsInv ==
  ASSUME LedgerInv, NEW o \in Orders,
         SubmitAcked(o) \/ SubmitAmbiguous(o) \/ SubmitRejected(o) \/ WorkerDies(o)
  PROVE  LedgerInv'
  <1>0. /\ status \in [Orders -> Status] /\ known \in [Orders -> BOOLEAN]
        /\ mishaps \in 0..MaxMishaps /\ StatusTrue(o)
        /\ SubmitOver(o) /\ atBroker' = atBroker /\ worker[o] = "posted" /\ worker'[o] = "over"
    BY DEF LedgerInv, TypeOK, SubmitOver, SubmitAcked, SubmitAmbiguous, SubmitRejected, WorkerDies,
           brokerVars
  <1>1. CASE SubmitAcked(o)
    BY <1>0, <1>1, OverInv DEF SubmitAcked, StatusTrue, Missed, Status, Live
  <1>2. CASE SubmitAmbiguous(o)
    BY <1>0, <1>2, OverInv DEF SubmitAmbiguous, StatusTrue, Status
  <1>3. CASE SubmitRejected(o)
    BY <1>0, <1>3, OverInv DEF SubmitRejected, StatusTrue, Missed, Status, Terminal
  <1>4. CASE WorkerDies(o)
    <2>1. mishaps' \in 0..MaxMishaps
      BY <1>4, ConstantsAssumption DEF WorkerDies, Mishap, LedgerInv, TypeOK
    <2> QED
      BY <1>0, <1>4, <2>1, OverInv DEF WorkerDies, StatusTrue, Missed
  <1> QED
    BY <1>1, <1>2, <1>3, <1>4

-----------------------------------------------------------------------------
\* The running sum is never below the cumulative quantity that an event tells.
LEMMA IngestInv ==
  ASSUME LedgerInv, NEW e \in Events, Ingest(e)
  PROVE  LedgerInv'
  <1> DEFINE o == e[1]
  <1>0. /\ o \in Orders /\ e[2] \in Kinds /\ e[3] \in 0..Lots[o] /\ e[3] \in Nat
        /\ Lots[o] \in Nat /\ filled[o] \in Nat /\ EventTrue(e)
    <2>1. Lots[o] \in Nat
      BY IsEvent, ConstantsAssumption
    <2>2. EventTrue(e)
      BY DEF Ingest, LedgerInv, EventsTrue
    <2> QED
      BY <2>1, <2>2, IsEvent DEF LedgerInv, TypeOK
  <1>1. /\ UNCHANGED <<atBroker, done, held, worker, drift, pc, saw, open, todo, asked, answer>>
        /\ filled' = [filled EXCEPT ![o] = FilledAfter(e)]
        /\ status' = [status EXCEPT ![o] = StatusAfter(e)]
        /\ known' = [known EXCEPT ![o] = TRUE]
        /\ inFlight' \subseteq inFlight
    BY DEF Ingest, brokerVars, fetchVars
  <1>2. FilledAfter(e) \in Nat /\ FilledAfter(e) >= e[3] /\ FilledAfter(e) >= filled[o]
    BY <1>0 DEF FilledAfter, LocalSum
  <1>3. fills' \subseteq Executions /\ position' \in Int /\ \A f \in fills' : f \in fills \/ f = <<o, e[3]>>
    <2>1. CASE NewFill(e)
      <3>1. e[3] \in 1..Lots[o]
        BY <1>0, <2>1 DEF NewFill, EventTrue
      <3> QED
        BY <1>0, <2>1, <3>1, ExecutionIs DEF Ingest, BookFill, LedgerInv, TypeOK
    <2>2. CASE ~NewFill(e)
      BY <2>2 DEF Ingest, BookFill, LedgerInv, TypeOK
    <2> QED
      BY <2>1, <2>2
  <1>4. StatusAfter(e) \in Status
    <2>1. status[o] \in Status
      BY <1>0 DEF LedgerInv, TypeOK
    <2> QED
      BY <1>0, <2>1 DEF StatusAfter, Mapped, Status, Live, Terminal, Kinds
  <1>5. mishaps' \in 0..MaxMishaps
    BY ConstantsAssumption DEF Ingest, Mishap, LedgerInv, TypeOK
  <1> HIDE DEF o
  <1>6. TypeOK'
    BY <1>0, <1>1, <1>2, <1>3, <1>4, <1>5 DEF LedgerInv, TypeOK
  <1>7. Forward
    BY <1>1 DEF Forward
  <1>8. FinalFillCompletes'
    <2> SUFFICES ASSUME NEW q \in Orders, <<q, Lots[q]>> \in fills' PROVE filled'[q] >= Lots[q]
      BY DEF FinalFillCompletes
    <2>0. filled[q] \in Nat /\ Lots[q] \in Nat /\ (<<q, Lots[q]>> \in fills => filled[q] >= Lots[q])
      <3>1. Lots[q] \in Nat
        BY ConstantsAssumption
      <3> QED
        BY <3>1 DEF LedgerInv, TypeOK, FinalFillCompletes
    <2>1. CASE q = o
      <3>1. filled'[q] = FilledAfter(e)
        BY <1>0, <1>1, <2>1 DEF LedgerInv, TypeOK
      <3>2. <<q, Lots[q]>> \in fills \/ Lots[q] = e[3]
        BY <1>3
      <3> QED
        BY <1>0, <1>2, <2>0, <2>1, <3>1, <3>2
    <2>2. CASE q # o
      BY <1>0, <1>1, <1>3, <2>0, <2>2 DEF LedgerInv, TypeOK
    <2> QED
      BY <2>1, <2>2
  <1>9. StatusTrue(o)'
    <2>1. status'[o] = StatusAfter(e) /\ StatusTrue(o)
      BY <1>0, <1>1 DEF LedgerInv, TypeOK
    <2>2. CASE e[2] = "fill"
      <3>1. atBroker[o] = "filled" /\ StatusAfter(e) \in {"FILLED", "PARTIAL"}
        BY <1>0, <2>2 DEF EventTrue, StatusAfter, o
      <3> QED
        BY <1>1, <2>1, <3>1 DEF StatusTrue
    <2>3. CASE e[2] # "fill" /\ status[o] \in Terminal
      <3>1. status'[o] = status[o]
        BY <2>1, <2>3 DEF StatusAfter, o
      <3> QED
        BY <1>0, <1>7, <3>1, TruthStays
    <2>4. CASE e[2] # "fill" /\ status[o] \notin Terminal
      <3>1. status'[o] = Mapped(e[2])
        BY <2>1, <2>4 DEF StatusAfter, o
      <3> QED
        BY <1>0, <1>1, <2>4, <3>1 DEF StatusTrue, Mapped, EventTrue, Kinds, Missed, o
    <2> QED
      BY <2>2, <2>3, <2>4
  <1>10. \A q \in Orders : q # o => status'[q] = status[q]
    BY <1>0, <1>1 DEF LedgerInv, TypeOK
  <1> QED
    BY <1>0, <1>1, <1>6, <1>7, <1>8, <1>9, <1>10, ProcsStay, OrderMoves

-----------------------------------------------------------------------------
\* The thread and the beat.

LEMMA Told ==
  ASSUME LedgerInv, NEW o \in Orders
  PROVE  /\ BrokerStatus(o) \in Status \cup {"none"} /\ ReplyTrue(o, BrokerStatus(o))
         /\ BrokerStatus(o) = "none" => atBroker[o] = "none"
  <1>1. atBroker[o] \in BrokerState
    BY DEF LedgerInv, TypeOK
  <1> QED
    BY <1>1 DEF BrokerState, BrokerStatus, ReplyTrue, Status, Live, Terminal

\* A step of one of them that leaves the orders as they are.
LEMMA ProcMoves ==
  ASSUME LedgerInv, TypeOK', NEW p \in Procs,
         UNCHANGED <<atBroker, worker, status, filled, fills, inFlight>>,
         \A q \in Procs : q # p => /\ pc'[q] = pc[q] /\ todo'[q] = todo[q]
                                  /\ asked'[q] = asked[q] /\ answer'[q] = answer[q],
         ReplyTrue(asked'[p], answer'[p]), Resolves(p)'
  PROVE  LedgerInv'
  <1>1. \A q \in Procs : ReplyTrue(asked'[q], answer'[q])
    BY DEF LedgerInv, ProcsTrue
  <1>2. \A q \in Procs : Resolves(q)'
    <2>1. ASSUME NEW q \in Procs, q # p PROVE Resolves(q)'
      BY <2>1 DEF LedgerInv, ProcsTrue, Resolves
    <2> QED
      BY <2>1
  <1>3. ProcsTrue'
    BY <1>1, <1>2 DEF ProcsTrue, ReplyTrue
  <1>4. EventsTrue' /\ FinalFillCompletes'
    BY DEF LedgerInv, EventsTrue, EventTrue, FinalFillCompletes
  <1>5. \A o \in Orders : StatusTrue(o)' /\ Unsent(o)'
    BY DEF LedgerInv, StatusTrue, Missed, Unsent
  <1> QED
    BY <1>3, <1>4, <1>5 DEF LedgerInv

\* What the steps do to the variables that count.
LEMMA Fetches ==
  ASSUME LedgerInv, NEW p \in Procs,
         \/ FetchPosition(p) \/ Resolved(p) \/ Breaks(p)
         \/ p = "stream" /\ (SnapPosition \/ ListOpen \/ SelectClosed)
         \/ p = "beat" /\ Reconcile
  PROVE  LedgerInv'
  <1>0. /\ pc[p] \in PC /\ todo[p] \in SUBSET Orders /\ asked[p] \in Orders
        /\ position \in Int /\ saw \in [Procs -> Int] /\ held \in Int
        /\ ReplyTrue(asked[p], answer[p]) /\ Resolves(p)
    BY DEF LedgerInv, TypeOK, ProcsTrue
  <1>1. /\ UNCHANGED <<atBroker, done, held, worker, status, filled, known, fills, inFlight, asked>>
        /\ position' \in Int /\ drift' \in BOOLEAN /\ saw' \in [Procs -> Int] /\ open' \subseteq Orders
        /\ mishaps' \in 0..MaxMishaps
    <2>1. mishaps \in 0..MaxMishaps /\ (Mishap => mishaps' \in 0..MaxMishaps)
      BY ConstantsAssumption DEF Mishap, LedgerInv, TypeOK
    <2>2. CASE FetchPosition(p) \/ Resolved(p) \/ Breaks(p)
      BY <1>0, <2>1, <2>2 DEF FetchPosition, Resolved, Breaks, brokerVars, orderVars, bookVars, fetchVars,
                              LedgerInv, TypeOK
    <2>3. CASE SnapPosition \/ ListOpen \/ SelectClosed
      BY <1>0, <2>1, <2>3 DEF SnapPosition, ListOpen, SelectClosed, brokerVars, orderVars, bookVars,
                              LedgerInv, TypeOK, Procs
    <2>4. CASE Reconcile
      BY <1>0, <2>1, <2>4 DEF Reconcile, brokerVars, orderVars, LedgerInv, TypeOK, Procs
    <2> QED
      BY <2>2, <2>3, <2>4
  <1>2. PICK next \in {"idle", "fetched", "list", "select", "orders", "pick", "up"} :
          pc' = [pc EXCEPT ![p] = next]
    BY DEF FetchPosition, Resolved, Breaks, SnapPosition, ListOpen, SelectClosed, Reconcile, Goto
  <1>3. /\ todo' \in [Procs -> SUBSET Orders] /\ answer' \in [Procs -> Status \cup {"none"}]
        /\ \A q \in Procs : q # p => todo'[q] = todo[q] /\ answer'[q] = answer[q]
        /\ answer'[p] \in {answer[p], "none"}
    BY DEF FetchPosition, Resolved, Breaks, SnapPosition, ListOpen, SelectClosed, Reconcile, fetchVars,
           LedgerInv, TypeOK
  <1>4. pc' \in [Procs -> PC] /\ pc'[p] = next /\ \A q \in Procs : q # p => pc'[q] = pc[q]
    BY <1>2 DEF LedgerInv, TypeOK, PC
  <1>5. TypeOK'
    BY <1>1, <1>3, <1>4 DEF LedgerInv, TypeOK
  <1>6. ReplyTrue(asked'[p], answer'[p])
    BY <1>0, <1>1, <1>3 DEF ReplyTrue
  <1>7. Resolves(p)'
    BY <1>4 DEF Resolves
  <1> QED
    BY <1>1, <1>3, <1>4, <1>5, <1>6, <1>7, ProcMoves

LEMMA SelectAmbiguousInv ==
  ASSUME LedgerInv, NEW p \in Procs, SelectAmbiguous(p)
  PROVE  LedgerInv'
  <1> DEFINE these == {o \in Orders : status[o] = "NEEDS_RECONCILE"}
  <1>1. /\ todo' = [todo EXCEPT ![p] = these] /\ pc' = [pc EXCEPT ![p] = "resolve"]
        /\ UNCHANGED <<atBroker, done, held, worker, status, filled, known, fills, position, drift, inFlight,
                      saw, open, asked, answer, mishaps>>
    BY DEF SelectAmbiguous, Goto, brokerVars, orderVars, bookVars
  <1>2. these \in SUBSET Orders /\ \A o \in these : worker[o] = "over"
    BY DEF LedgerInv, StatusTrue
  <1> HIDE DEF these
  <1>3. TypeOK'
    BY <1>1, <1>2 DEF LedgerInv, TypeOK, PC
  <1>4. /\ pc'[p] = "resolve" /\ todo'[p] = these
        /\ \A q \in Procs : q # p => pc'[q] = pc[q] /\ todo'[q] = todo[q]
    BY <1>1 DEF LedgerInv, TypeOK
  <1>5. ReplyTrue(asked'[p], answer'[p]) /\ Resolves(p)'
    BY <1>1, <1>2, <1>4 DEF LedgerInv, ProcsTrue, Resolves
  <1> QED
    BY <1>1, <1>3, <1>4, <1>5, ProcMoves

\* A question at the broker.
LEMMA AskInv ==
  ASSUME LedgerInv, NEW p \in Procs, NEW o \in todo[p], NEW reply \in Status \cup {"none"},
         Asks(p, o, reply), ReplyTrue(o, reply), mishaps' \in 0..MaxMishaps,
         NEW next \in {"update", "settle"}, pc' = [pc EXCEPT ![p] = next],
         next = "settle" => /\ pc[p] = "resolve"
                            /\ reply = "none" => LookupsFail \/ atBroker[o] = "none"
  PROVE  LedgerInv'
  <1>0. o \in Orders /\ todo[p] \subseteq Orders /\ Resolves(p)
    BY DEF LedgerInv, TypeOK, ProcsTrue
  <1>1. /\ asked' = [asked EXCEPT ![p] = o] /\ answer' = [answer EXCEPT ![p] = reply]
        /\ todo' = [todo EXCEPT ![p] = @ \ {o}]
        /\ UNCHANGED <<atBroker, done, held, worker, status, filled, known, fills, position, drift, inFlight,
                      saw, open>>
    BY DEF Asks, brokerVars, orderVars, bookVars
  <1>2. TypeOK'
    BY <1>0, <1>1 DEF LedgerInv, TypeOK, PC
  <1>3. /\ pc'[p] = next /\ todo'[p] = todo[p] \ {o} /\ asked'[p] = o /\ answer'[p] = reply
        /\ \A q \in Procs : q # p => /\ pc'[q] = pc[q] /\ todo'[q] = todo[q]
                                     /\ asked'[q] = asked[q] /\ answer'[q] = answer[q]
    BY <1>1 DEF LedgerInv, TypeOK
  <1>4. Resolves(p)'
    BY <1>0, <1>1, <1>3 DEF Resolves
  <1> QED
    BY <1>1, <1>2, <1>3, <1>4, ProcMoves

LEMMA AskStatusInv ==
  ASSUME LedgerInv, NEW o \in Orders, AskStatus(o)
  PROVE  LedgerInv'
  <1>1. /\ "stream" \in Procs /\ o \in todo["stream"] /\ pc' = [pc EXCEPT !["stream"] = "update"]
    BY DEF AskStatus, Goto, Procs
  <1>2. mishaps \in 0..MaxMishaps /\ (Mishap => mishaps' \in 0..MaxMishaps)
    BY ConstantsAssumption DEF Mishap, LedgerInv, TypeOK
  <1>3. ReplyTrue(o, "none")
    BY DEF ReplyTrue
  <1>4. CASE Asks("stream", o, BrokerStatus(o)) /\ UNCHANGED mishaps
    BY <1>1, <1>2, <1>4, Told, AskInv
  <1>5. CASE Asks("stream", o, "none") /\ Mishap
    BY <1>1, <1>2, <1>3, <1>5, AskInv
  <1> QED
    BY <1>4, <1>5 DEF AskStatus

LEMMA AskClientIdInv ==
  ASSUME LedgerInv, NEW p \in Procs, NEW o \in Orders, AskClientId(p, o)
  PROVE  LedgerInv'
  <1>1. /\ o \in todo[p] /\ pc[p] = "resolve" /\ pc' = [pc EXCEPT ![p] = "settle"]
        /\ mishaps' \in 0..MaxMishaps
    BY DEF AskClientId, Goto, LedgerInv, TypeOK
  <1>2. ReplyTrue(o, "none")
    BY DEF ReplyTrue
  <1>3. CASE Asks(p, o, BrokerStatus(o))
    BY <1>1, <1>3, Told, AskInv
  <1>4. CASE LookupsFail /\ Asks(p, o, "none")
    BY <1>1, <1>2, <1>4, AskInv
  <1> QED
    BY <1>3, <1>4 DEF AskClientId

\* An answer is written to its order, or dropped.
LEMMA AnswerWritten ==
  ASSUME LedgerInv, NEW p \in Procs, NEW next \in {"orders", "resolve"},
         next = "resolve" => pc[p] = "settle",
         pc' = [pc EXCEPT ![p] = next], answer' = [answer EXCEPT ![p] = "none"],
         UNCHANGED <<atBroker, done, held, worker, filled, fills, position, drift, inFlight, saw, open, todo,
                     asked, mishaps>>,
         known' \in [Orders -> BOOLEAN],
         \/ status' = status
         \/ answer[p] \in Status /\ status' = [status EXCEPT ![asked[p]] = answer[p]]
         \/ (LookupsFail \/ Missed(asked[p])) /\ status' = [status EXCEPT ![asked[p]] = "REJECTED"]
  PROVE  LedgerInv'
  <1> DEFINE o == asked[p]
  <1>0. o \in Orders /\ ReplyTrue(o, answer[p]) /\ Resolves(p) /\ StatusTrue(o) /\ status[o] \in Status
    BY DEF LedgerInv, TypeOK, ProcsTrue
  <1>1. PICK st \in Status : /\ status' = [status EXCEPT ![o] = st]
                             /\ \/ st = status[o]
                                \/ st = answer[p]
                                \/ st = "REJECTED" /\ (LookupsFail \/ Missed(o))
    <2>1. CASE status' = status
      <3>1. status' = [status EXCEPT ![o] = status[o]]
        BY <2>1, <1>0 DEF LedgerInv, TypeOK
      <3> QED
        BY <3>1, <1>0
    <2>2. "REJECTED" \in Status
      BY DEF Status, Terminal
    <2> QED
      BY <2>1, <2>2
  <1>2. status'[o] = st /\ \A q \in Orders : q # o => status'[q] = status[q]
    BY <1>0, <1>1 DEF LedgerInv, TypeOK
  <1>3. TypeOK'
    BY <1>0, <1>1 DEF LedgerInv, TypeOK, PC
  <1>4. Forward
    BY DEF Forward
  <1>5. /\ pc'[p] = next /\ answer'[p] = "none"
        /\ \A q \in Procs : q # p => pc'[q] = pc[q] /\ answer'[q] = answer[q]
    BY DEF LedgerInv, TypeOK
  <1>6. ProcsTrue'
    <2>1. ReplyTrue(asked[p], answer[p])' /\ Resolves(p)'
      BY <1>0, <1>5 DEF ReplyTrue, Resolves
    <2>2. ASSUME NEW q \in Procs, q # p PROVE ReplyTrue(asked[q], answer[q])' /\ Resolves(q)'
      BY <1>5, <2>2 DEF LedgerInv, ProcsTrue, ReplyTrue, Resolves
    <2> QED
      BY <2>1, <2>2 DEF ProcsTrue
  <1>7. StatusTrue(o)'
    BY <1>0, <1>1, <1>2 DEF StatusTrue, ReplyTrue, Missed
  <1>8. FinalFillCompletes'
    BY DEF LedgerInv, FinalFillCompletes
  <1> QED
    BY <1>0, <1>2, <1>3, <1>4, <1>6, <1>7, <1>8, OrderMoves

LEMMA StoreStatusInv ==
  ASSUME LedgerInv, StoreStatus
  PROVE  LedgerInv'
  <1>0. "stream" \in Procs
    BY DEF Procs
  <1>1. answer["stream"] # "none" => answer["stream"] \in Status
    BY <1>0 DEF LedgerInv, TypeOK
  <1>2. /\ pc' = [pc EXCEPT !["stream"] = "orders"] /\ answer' = [answer EXCEPT !["stream"] = "none"]
        /\ UNCHANGED <<atBroker, done, held, worker, filled, known, fills, position, drift, inFlight, saw,
                      open, todo, asked, mishaps>>
    BY DEF StoreStatus, Goto, brokerVars, bookVars
  <1>3. known' \in [Orders -> BOOLEAN]
    BY <1>2 DEF LedgerInv, TypeOK
  <1>4. \/ status' = status
        \/ answer["stream"] \in Status /\ status' = [status EXCEPT ![asked["stream"]] = answer["stream"]]
    BY <1>1 DEF StoreStatus
  <1>5. "orders" \in {"orders", "resolve"}
    OBVIOUS
  <1> QED
    BY <1>0, <1>2, <1>3, <1>4, <1>5, AnswerWritten

LEMMA SettleInv ==
  ASSUME LedgerInv, NEW p \in Procs, Settle(p)
  PROVE  LedgerInv'
  <1>1. asked[p] \in Orders /\ answer[p] \in Status \cup {"none"} /\ Resolves(p)
    BY DEF LedgerInv, TypeOK, ProcsTrue
  <1>2. /\ pc[p] = "settle" /\ pc' = [pc EXCEPT ![p] = "resolve"] /\ answer' = [answer EXCEPT ![p] = "none"]
        /\ UNCHANGED <<atBroker, done, held, worker, filled, fills, position, drift, inFlight, saw,
                      open, todo, asked, mishaps>>
    BY DEF Settle, Goto, brokerVars, bookVars
  <1>3. known' \in [Orders -> BOOLEAN]
    BY <1>1 DEF Settle, LedgerInv, TypeOK
  <1>4. answer[p] = "none" => LookupsFail \/ Missed(asked[p])
    BY <1>1, <1>2 DEF Resolves, Missed
  <1>5. \/ status' = status
        \/ answer[p] \in Status /\ status' = [status EXCEPT ![asked[p]] = answer[p]]
        \/ (LookupsFail \/ Missed(asked[p])) /\ status' = [status EXCEPT ![asked[p]] = "REJECTED"]
    BY <1>1, <1>4 DEF Settle
  <1>6. "resolve" \in {"orders", "resolve"}
    OBVIOUS
  <1> QED
    BY <1>2, <1>3, <1>5, <1>6, AnswerWritten

-----------------------------------------------------------------------------
LEMMA InitInv == Init => LedgerInv
  <1> SUFFICES ASSUME Init PROVE LedgerInv
    OBVIOUS
  <1>1. TypeOK
    <2>1. (CHOOSE o \in Orders : TRUE) \in Orders
      BY ConstantsAssumption
    <2>2. asked \in [Procs -> Orders]
      BY <2>1 DEF Init
    <2>3. \A o \in Orders : Lots[o] \in Nat /\ 0 <= Lots[o]
      BY ConstantsAssumption
    <2>4. done \in [Orders -> Nat] /\ \A o \in Orders : done[o] <= Lots[o]
      BY <2>3 DEF Init
    <2>5. mishaps \in 0..MaxMishaps
      BY ConstantsAssumption DEF Init
    <2>6. /\ atBroker \in [Orders -> BrokerState]
          /\ status \in [Orders -> Status] /\ filled \in [Orders -> Nat]
          /\ worker \in [Orders -> {"new", "posted", "over"}]
          /\ known \in [Orders -> BOOLEAN]
      BY DEF Init, BrokerState, Status, Live
    <2>7. held = 0 /\ position = 0 /\ drift \in BOOLEAN
      BY DEF Init
    <2>8. fills \subseteq Executions /\ inFlight \subseteq Events /\ open \subseteq Orders
      BY DEF Init
    <2>9. /\ pc \in [Procs -> PC] /\ saw \in [Procs -> Int]
          /\ todo \in [Procs -> SUBSET Orders]
          /\ answer \in [Procs -> Status \cup {"none"}]
      BY DEF Init, PC
    <2> QED
      BY <2>2, <2>4, <2>5, <2>6, <2>7, <2>8, <2>9 DEF TypeOK
  <1>2. FinalFillCompletes /\ EventsTrue
    BY DEF Init, FinalFillCompletes, EventsTrue
  <1>3. ProcsTrue
    BY DEF Init, ProcsTrue, ReplyTrue, Resolves
  <1>4. \A o \in Orders : StatusTrue(o) /\ Unsent(o)
    BY DEF Init, StatusTrue, Unsent
  <1> QED
    BY <1>1, <1>2, <1>3, <1>4 DEF LedgerInv

LEMMA NextInv == LedgerInv /\ [Next]_vars => LedgerInv'
  <1> SUFFICES ASSUME LedgerInv, [Next]_vars PROVE LedgerInv'
    OBVIOUS
  <1>1. CASE UNCHANGED vars
    <2>1. TypeOK' /\ Forward
      BY <1>1 DEF vars, LedgerInv, TypeOK, Forward
    <2> QED
      BY <1>1, <2>1, BrokerMoves DEF vars, orderVars
  <1>2. CASE BrokerStep
    BY <1>2, ExecuteInv, CloseInv, ForeignTradeInv DEF BrokerStep
  <1>3. ASSUME NEW o \in Orders, WorkerStep(o) \/ WorkerDies(o) PROVE LedgerInv'
    BY <1>3, SubmitInv, SubmitEndsInv DEF WorkerStep
  <1>4. ASSUME NEW e \in Events, Ingest(e) PROVE LedgerInv'
    BY <1>4, IngestInv
  <1>5. ASSUME NEW p \in Procs, Breaks(p) PROVE LedgerInv'
    BY <1>5, Fetches
  <1>6. ASSUME NEW p \in Procs, ProcStep(p) PROVE LedgerInv'
    <2>1. CASE \/ FetchPosition(p) \/ Resolved(p)
               \/ p = "stream" /\ (SnapPosition \/ ListOpen \/ SelectClosed)
               \/ p = "beat" /\ Reconcile
      BY <2>1, Fetches
    <2>2. CASE StoreStatus \/ Settle(p) \/ SelectAmbiguous(p)
      BY <2>2, StoreStatusInv, SettleInv, SelectAmbiguousInv
    <2>3. CASE \E o \in Orders : AskStatus(o) \/ AskClientId(p, o)
      BY <2>3, AskStatusInv, AskClientIdInv
    <2> QED
      BY <1>6, <2>1, <2>2, <2>3 DEF ProcStep
  <1> QED
    BY <1>1, <1>2, <1>3, <1>4, <1>5, <1>6 DEF Next

LEMMA SpecInv == Spec => []LedgerInv
  BY InitInv, NextInv, PTL DEF Spec

-----------------------------------------------------------------------------
\* What holds even where look-ups by client order id fail: an order that had its last
\* execution booked is complete, and FILLED and CANCELLED are the broker's words
\* (ingest_fill_event, catch_up_account and resolve_needs_reconcile).
FilledIsTrue ==
    /\ TypeOK /\ FinalFillCompletes
    /\ \A o \in Orders : /\ status[o] = "FILLED" => atBroker[o] = "filled"
                         /\ status[o] = "CANCELLED" => atBroker[o] = "canceled"

THEOREM FilledIsNoGuess == Spec => []FilledIsTrue
  <1>1. LedgerInv => FilledIsTrue
    BY DEF LedgerInv, FilledIsTrue, StatusTrue
  <1> QED
    BY <1>1, SpecInv, PTL

\* If look-ups answer, REJECTED is no guess either: whatever is lost, ingested twice or
\* late, whoever dies or reconnects, a terminal status is the broker's, or the order
\* never landed (_reject of process_alert, resolve_needs_reconcile).
THEOREM LedgerIsTrue == ~LookupsFail => (Spec => []LedgerTrue)
  <1>1. ~LookupsFail /\ LedgerInv => LedgerTrue
    BY DEF LedgerInv, LedgerTrue, TerminalIsTrue, StatusTrue, Missed
  <1>2. ASSUME ~LookupsFail PROVE Spec => []LedgerTrue
    <2>1. LedgerInv => LedgerTrue
      BY <1>1, <1>2
    <2> QED
      BY <2>1, SpecInv, PTL
  <1> QED
    BY <1>2
=============================================================================
