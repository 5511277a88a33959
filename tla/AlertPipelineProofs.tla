----------------------- MODULE AlertPipelineProofs -----------------------
(***************************************************************************)
(* Type correctness of AlertPipeline and its central promises, for every   *)
(* set of requests, keys and workers, every fault and any number of        *)
(* crashes: one submit per client order id, a bounded leak of a halt,      *)
(* answers that stand, orders and alerts that agree, and the refinement of *)
(* AlertIntake.  Where a promise needs more, its theorem assumes it.       *)
(***************************************************************************)
EXTENDS AlertPipeline, TLAPS

\* A worker that is not idle holds an alert.
WorkerHolds == \A w \in Workers : worker[w] # "idle" => holds[w] \in Requests

\* Worker w found the order of c new and has not sent it yet; has sent it.
AboutToSend(w, c) == worker[w] = "check" /\ Coid(holds[w]) = c
HasSent(w, c) == worker[w] \in {"posted", "record"} /\ Coid(holds[w]) = c

\* Why the submit happens once: whoever is about to send c is alone, its row
\* still waits and c was not sent; what has no row was never sent; and what
\* went past the submit was.
SendRight ==
  \A c \in Coids :
    /\ submits[c] <= 1
    /\ order[c] = "none" => submits[c] = 0 /\ owner[c] = None
    /\ order[c] # "none" => owner[c] \in Requests
    /\ order[c] \in {"SUBMITTED", "NEEDS_RECONCILE"} => submits[c] = 1
    /\ \A w \in Workers :
         /\ HasSent(w, c) => submits[c] = 1 /\ order[c] # "none"
         /\ AboutToSend(w, c) =>
              /\ submits[c] = 0
              /\ order[c] = "PENDING_SUBMIT"
              /\ \A v \in Workers : AboutToSend(v, c) => v = w

\* Why a halt leaks one order per worker: under a halt nobody passes the gate,
\* so a worker past it got there before the count was reset.
HaltRight ==
  \A w \in Workers :
    /\ leaked[w] <= 1
    /\ blocked /\ worker[w] \in {"create", "check"} => leaked[w] = 0

IInv == TypeOK /\ WorkerHolds /\ SendRight /\ HaltRight

-----------------------------------------------------------------------------
LEMMA CoidType == ASSUME NEW r \in Requests PROVE Coid(r) \in Coids
  BY ConstantsAssumption DEF Coid, Coids

LEMMA HaltsType ==
  ASSUME TypeOK, Halts
  PROVE  /\ blocked' \in BOOLEAN /\ leaked' \in [Workers -> Nat]
         /\ \A v \in Workers : leaked'[v] = 0 \/ (leaked'[v] = leaked[v] /\ (blocked' => blocked))
  <1>1. CASE blocked
    BY <1>1 DEF TypeOK, Halts
  <1>2. CASE ~blocked
    BY <1>2 DEF TypeOK, Halts
  <1> QED
    BY <1>1, <1>2

LEMMA InitIInv == Init => IInv
  <1> SUFFICES ASSUME Init PROVE IInv
    OBVIOUS
  <1>1. TypeOK
    <2>1. /\ alert \in [Requests -> AlertStatus] /\ rowKey \in [Requests -> Keys \cup {NoKey}]
          /\ cached \subseteq Keys
          /\ view \in [Requests -> ViewPC] /\ viewSaw \in [Requests -> BOOLEAN]
          /\ answer \in [Requests -> Answers]
          /\ queue \in [Requests -> 0..MaxQueued]
      BY ConstantsAssumption DEF Init, AlertStatus, ViewPC, Answers
    <2>2. /\ worker \in [Workers -> WorkerPC] /\ holds \in [Workers -> Requests \cup {None}]
          /\ workerSaw \in [Workers -> BOOLEAN] /\ leaked \in [Workers -> Nat]
      BY DEF Init, WorkerPC
    <2>3. /\ order \in [Coids -> OrderStatus] /\ owner \in [Coids -> Requests \cup {None}]
          /\ landed \subseteq Coids /\ submits \in [Coids -> Nat]
      BY DEF Init, OrderStatus
    <2>4. paused \in BOOLEAN /\ blocked \in BOOLEAN
      BY DEF Init
    <2>5. /\ crashes \in [{"view", "worker"} -> Nat]
          /\ crashes["view"] = 0 /\ crashes["worker"] = 0
      BY DEF Init
    <2>6. 0 <= MaxViewCrashes /\ 0 <= MaxWorkerCrashes
      BY ConstantsAssumption
    <2> QED
      BY <2>1, <2>2, <2>3, <2>4, <2>5, <2>6 DEF TypeOK
  <1>2. WorkerHolds
    BY DEF Init, WorkerHolds
  <1>3. SendRight
    BY DEF Init, SendRight, AboutToSend, HasSent
  <1>4. HaltRight
    BY DEF Init, HaltRight
  <1> QED
    BY <1>1, <1>2, <1>3, <1>4 DEF IInv

\* The web handlers touch neither the orders, the submits nor a worker.
LEMMA ViewStepIInv ==
  ASSUME IInv, NEW r \in Requests, ViewStep(r) \/ ViewDies(r)
  PROVE  IInv'
  <1> USE DEF rowVars, viewVars, taskVars, workVars, orderVars, brokerVars, switchVars
  <1>0. TypeOK /\ WorkerHolds /\ SendRight /\ HaltRight
    BY DEF IInv
  <1>1. TypeOK'
    <2>0. Anchor(r) \in Keys \cup {NoKey} /\ MaxQueued \in Nat /\ MaxViewCrashes \in Nat
      BY ConstantsAssumption DEF Anchor
    <2> USE <1>0, <2>0 DEF TypeOK, AlertStatus, ViewPC, Answers
    <2>1. CASE ViewRefuses(r)
      BY <2>1 DEF ViewRefuses, AuditRow, Insert
    <2>2. CASE ViewChecksCache(r)
      BY <2>2 DEF ViewChecksCache
    <2>3. CASE ViewAnchors(r)
      BY <2>3 DEF ViewAnchors, Insert
    <2>4. CASE ViewHalts(r)
      BY <2>4 DEF ViewHalts
    <2>5. CASE ViewDispatches(r)
      BY <2>5 DEF ViewDispatches
    <2>6. CASE ViewAnswers(r)
      BY <2>6 DEF ViewAnswers
    <2>7. CASE ViewDies(r)
      BY <2>7 DEF ViewDies
    <2> QED
      BY <2>1, <2>2, <2>3, <2>4, <2>5, <2>6, <2>7 DEF ViewStep
  <1>2. UNCHANGED <<worker, holds, order, owner, submits, leaked, blocked>>
    BY DEF ViewStep, ViewRefuses, ViewChecksCache, ViewAnchors, ViewHalts, ViewDispatches,
           ViewAnswers, ViewDies
  <1> QED
    BY <1>0, <1>1, <1>2 DEF IInv, WorkerHolds, SendRight, AboutToSend, HasSent, HaltRight

\* process_alert, one step of worker w.  Steps that leave the orders and the
\* submits alone disturb SendRight only through the worker's own position.
LEMMA WorkerStepIInv ==
  ASSUME IInv, NEW w \in Workers, WorkerStep(w) \/ WorkerDies(w)
  PROVE  IInv'
  <1> USE DEF rowVars, viewVars, taskVars, orderVars, brokerVars, switchVars
  <1>0. TypeOK /\ WorkerHolds /\ SendRight /\ HaltRight /\ None \notin Requests
    BY ConstantsAssumption DEF IInv
  <1>c. worker[w] # "idle" => holds[w] \in Requests /\ Coid(holds[w]) \in Coids
    BY <1>0, CoidType DEF WorkerHolds
  <1>1. ASSUME NEW r \in Requests, Take(w, r)
        PROVE  IInv'
    <2>0. queue[r] - 1 \in 0..MaxQueued
      BY <1>0, <1>1, ConstantsAssumption DEF TypeOK, Take
    <2>1. TypeOK'
      BY <1>0, <1>1, <2>0 DEF TypeOK, Take, WorkerPC
    <2>2. WorkerHolds'
      BY <1>0, <1>1 DEF TypeOK, Take, WorkerHolds
    <2>3. SendRight'
      BY <1>0, <1>1 DEF TypeOK, Take, SendRight, AboutToSend, HasSent
    <2>4. HaltRight'
      BY <1>0, <1>1 DEF TypeOK, Take, HaltRight
    <2> QED
      BY <2>1, <2>2, <2>3, <2>4 DEF IInv
  <1>2. CASE GateRejects(w) \/ CloseAlert(w) \/ WorkerDies(w)
    <2>0. MaxWorkerCrashes \in Nat
      BY ConstantsAssumption
    <2>1. TypeOK'
      <3>1. CASE GateRejects(w)
        BY <1>0, <1>c, <3>1 DEF TypeOK, GateRejects, Done, WorkerPC, AlertStatus
      <3>2. CASE CloseAlert(w)
        BY <1>0, <1>c, <3>2 DEF TypeOK, CloseAlert, Done, WorkerPC, AlertStatus
      <3>3. CASE WorkerDies(w)
        BY <1>0, <2>0, <3>3 DEF TypeOK, WorkerDies, Done, WorkerPC
      <3> QED
        BY <1>2, <3>1, <3>2, <3>3
    <2>2. /\ worker' = [worker EXCEPT ![w] = "idle"] /\ holds' = [holds EXCEPT ![w] = None]
          /\ UNCHANGED <<order, owner, submits, leaked, blocked>>
      BY <1>2 DEF GateRejects, CloseAlert, WorkerDies, Done
    <2> QED
      BY <1>0, <2>1, <2>2 DEF IInv, TypeOK, WorkerHolds, SendRight, AboutToSend, HasSent, HaltRight
  <1>3. CASE GatePasses(w)
    <2>1. TypeOK'
      BY <1>0, <1>3 DEF TypeOK, GatePasses, Step, WorkerPC
    <2>2. WorkerHolds' /\ SendRight'
      BY <1>0, <1>c, <1>3
      DEF TypeOK, GatePasses, Step, WorkerHolds, SendRight, AboutToSend, HasSent
    <2>3. HaltRight'
      BY <1>0, <1>3 DEF TypeOK, GatePasses, Step, HaltRight
    <2> QED
      BY <2>1, <2>2, <2>3 DEF IInv
  <1>4. CASE CreateOrder(w)
    <2> DEFINE c == Coid(holds[w])
    <2>0. holds[w] \in Requests /\ c \in Coids
      BY <1>4, <1>c DEF CreateOrder
    <2>1. CASE order[c] = "none"
      <3>1. /\ order' = [order EXCEPT ![c] = "PENDING_SUBMIT"]
            /\ owner' = [owner EXCEPT ![c] = holds[w]]
            /\ worker' = [worker EXCEPT ![w] = "check"]
            /\ worker[w] = "create"
            /\ UNCHANGED <<rowVars, viewVars, queue, taskVars, brokerVars, switchVars, crashes>>
        BY <1>4, <2>1 DEF CreateOrder, Owns, Step
      <3> HIDE DEF c
      <3>2. TypeOK'
        BY <1>0, <2>0, <3>1 DEF TypeOK, WorkerPC, OrderStatus
      <3>3. WorkerHolds' /\ HaltRight'
        BY <1>0, <2>0, <3>1 DEF TypeOK, WorkerHolds, HaltRight
      <3>4. submits[c] = 0 /\ \A v \in Workers : ~AboutToSend(v, c)
        BY <1>0, <2>0, <2>1 DEF SendRight
      <3>5. SendRight'
        BY <1>0, <2>0, <2>1, <3>1, <3>4 DEF TypeOK, SendRight, AboutToSend, HasSent, c
      <3> QED
        BY <3>2, <3>3, <3>5 DEF IInv
    <2>2. CASE order[c] # "none"
      <3>1. /\ worker' = [worker EXCEPT ![w] = "idle"] /\ holds' = [holds EXCEPT ![w] = None]
            /\ workerSaw' = [workerSaw EXCEPT ![w] = FALSE]
            /\ UNCHANGED <<rowVars, viewVars, queue, orderVars, brokerVars, switchVars, crashes>>
        BY <1>4, <2>2 DEF CreateOrder, Done
      <3>2. TypeOK'
        BY <1>0, <3>1 DEF TypeOK, WorkerPC
      <3> QED
        BY <1>0, <3>1, <3>2 DEF IInv, TypeOK, WorkerHolds, SendRight, AboutToSend, HasSent, HaltRight
    <2> QED
      BY <2>1, <2>2
  <1>5. CASE RefuseOrder(w)
    <2> DEFINE c == Coid(holds[w])
    <2>0. holds[w] \in Requests /\ c \in Coids
      BY <1>5, <1>c DEF RefuseOrder
    <2>1. /\ order' = [order EXCEPT ![c] = "REJECTED"]
          /\ worker' = [worker EXCEPT ![w] = "reject"]
          /\ worker[w] = "check" /\ AboutToSend(w, c)
          /\ UNCHANGED <<rowVars, viewVars, queue, owner, taskVars, landed, submits, paused, crashes>>
      BY <1>5 DEF RefuseOrder, Step, AboutToSend
    <2>2. /\ blocked' \in BOOLEAN /\ leaked' \in [Workers -> Nat]
          /\ \A v \in Workers : leaked'[v] = 0 \/ (leaked'[v] = leaked[v] /\ (blocked' => blocked))
      <3>1. CASE Halts
        BY <1>0, <3>1, HaltsType
      <3>2. CASE UNCHANGED <<blocked, leaked>>
        BY <1>0, <3>2 DEF TypeOK
      <3> QED
        BY <1>5, <3>1, <3>2 DEF RefuseOrder
    <2> HIDE DEF c
    <2>3. TypeOK'
      BY <1>0, <2>0, <2>1, <2>2 DEF TypeOK, WorkerPC, OrderStatus
    <2>4. WorkerHolds'
      BY <1>0, <2>0, <2>1 DEF TypeOK, WorkerHolds
    <2>5. SendRight'
      BY <1>0, <2>0, <2>1 DEF TypeOK, SendRight, AboutToSend, HasSent
    <2>6. HaltRight'
      BY <1>0, <2>1, <2>2 DEF TypeOK, HaltRight
    <2> QED
      BY <2>3, <2>4, <2>5, <2>6 DEF IInv
  <1>6. CASE Submit(w)
    <2> DEFINE c == Coid(holds[w])
    <2>0. holds[w] \in Requests /\ c \in Coids
      BY <1>6, <1>c DEF Submit
    <2>1. /\ submits' = [submits EXCEPT ![c] = submits[c] + 1]
          /\ worker' = [worker EXCEPT ![w] = "posted"]
          /\ worker[w] = "check" /\ AboutToSend(w, c)
          /\ UNCHANGED <<rowVars, viewVars, queue, orderVars, taskVars, switchVars, crashes>>
      BY <1>6 DEF Submit, Step, AboutToSend
    <2>2. submits[c] = 0 /\ \A v \in Workers : AboutToSend(v, c) => v = w
      BY <1>0, <2>0, <2>1 DEF SendRight
    <2>3. \/ leaked' = [leaked EXCEPT ![w] = leaked[w] + 1] /\ leaked[w] = 0
          \/ leaked' = leaked
      BY <1>0, <1>6, <2>1 DEF Submit, HaltRight
    <2>4. landed' \subseteq Coids
      BY <1>0, <1>6, <2>0 DEF Submit, TypeOK
    <2> HIDE DEF c
    <2>5. TypeOK'
      BY <1>0, <2>0, <2>1, <2>3, <2>4 DEF TypeOK, WorkerPC
    <2>6. WorkerHolds'
      BY <1>0, <2>0, <2>1 DEF TypeOK, WorkerHolds
    <2>7. SendRight'
      BY <1>0, <2>0, <2>1, <2>2 DEF TypeOK, SendRight, AboutToSend, HasSent
    <2>8. HaltRight'
      BY <1>0, <2>1, <2>3 DEF TypeOK, HaltRight
    <2> QED
      BY <2>5, <2>6, <2>7, <2>8 DEF IInv
  <1>7. CASE Acknowledged(w)
    <2>1. TypeOK'
      BY <1>0, <1>7 DEF TypeOK, Acknowledged, Step, WorkerPC
    <2> QED
      BY <1>0, <1>7, <2>1
      DEF IInv, TypeOK, Acknowledged, Step, WorkerHolds, SendRight, AboutToSend, HasSent, HaltRight
  <1>8. CASE BrokerRejects(w) \/ SubmitAmbiguous(w) \/ SubmitTimesOut(w) \/ RecordAck(w)
    <2> DEFINE c == Coid(holds[w])
    <2>0. holds[w] \in Requests /\ c \in Coids /\ HasSent(w, c)
      BY <1>8, <1>c
      DEF BrokerRejects, SubmitAmbiguous, AmbiguousGoesTo, SubmitTimesOut, RecordAck, HasSent
    <2>1. PICK pc \in {"accept", "reject"}, s \in OrderStatus \ {"none"} :
            /\ order' = [order EXCEPT ![c] = s]
            /\ worker' = [worker EXCEPT ![w] = pc]
            /\ UNCHANGED <<rowVars, viewVars, queue, owner, taskVars, brokerVars, switchVars, crashes>>
      <3>1. CASE BrokerRejects(w) \/ SubmitTimesOut(w)
        BY <3>1 DEF BrokerRejects, SubmitTimesOut, Step, OrderStatus
      <3>2. CASE SubmitAmbiguous(w)
        BY <3>2 DEF SubmitAmbiguous, AmbiguousGoesTo, Step, OrderStatus
      <3>3. CASE RecordAck(w)
        <4>1. order[c] \in OrderStatus \ {"none"}
          BY <1>0, <2>0 DEF TypeOK, SendRight
        <4>2. order' = [order EXCEPT ![c] = IF order[c] = "PENDING_SUBMIT" THEN "SUBMITTED" ELSE order[c]]
          BY <1>0, <2>0, <3>3 DEF RecordAck, TypeOK
        <4> QED
          BY <3>3, <4>1, <4>2 DEF RecordAck, Step, OrderStatus
      <3> QED
        BY <1>8, <3>1, <3>2, <3>3
    <2>2. submits[c] = 1
      BY <1>0, <2>0 DEF SendRight
    <2> HIDE DEF c
    <2>3. TypeOK'
      BY <1>0, <2>0, <2>1 DEF TypeOK, WorkerPC
    <2>4. WorkerHolds' /\ HaltRight'
      BY <1>0, <2>0, <2>1 DEF TypeOK, WorkerHolds, HaltRight
    <2>5. SendRight'
      BY <1>0, <2>0, <2>1, <2>2 DEF TypeOK, SendRight, AboutToSend, HasSent
    <2> QED
      BY <2>3, <2>4, <2>5 DEF IInv
  <1> QED
    BY <1>1, <1>2, <1>3, <1>4, <1>5, <1>6, <1>7, <1>8 DEF WorkerStep

LEMMA NextIInv == IInv /\ [Next]_vars => IInv'
  <1> SUFFICES ASSUME IInv, [Next]_vars PROVE IInv'
    OBVIOUS
  <1> USE DEF rowVars, viewVars, taskVars, workVars, orderVars, brokerVars, switchVars
  <1>0. TypeOK /\ WorkerHolds /\ SendRight /\ HaltRight
    BY DEF IInv
  <1>1. ASSUME NEW r \in Requests, ViewStep(r) \/ ViewDies(r) PROVE IInv'
    BY <1>1, ViewStepIInv
  <1>2. ASSUME NEW w \in Workers, WorkerStep(w) \/ WorkerDies(w) PROVE IInv'
    BY <1>2, WorkerStepIInv
  <1>3. CASE \/ \E k \in Keys : CacheEvicts(k)
             \/ \E S \in SUBSET Stranded : Redispatch(S)
             \/ PauseStrategy
             \/ UNCHANGED vars
    <2>1. TypeOK'
      <3>1. ASSUME NEW k \in Keys, CacheEvicts(k) PROVE TypeOK'
        BY <1>0, <3>1 DEF CacheEvicts, TypeOK
      <3>2. ASSUME NEW S \in SUBSET Stranded, Redispatch(S) PROVE TypeOK'
        <4>1. queue' \in [Requests -> 0..MaxQueued]
          BY <1>0, <3>2, ConstantsAssumption DEF Redispatch, TypeOK, Stranded
        <4> QED
          BY <1>0, <3>2, <4>1 DEF Redispatch, TypeOK
      <3>3. CASE PauseStrategy \/ UNCHANGED vars
        BY <1>0, <3>3 DEF PauseStrategy, TypeOK, vars
      <3> QED
        BY <1>3, <3>1, <3>2, <3>3
    <2>2. UNCHANGED <<worker, holds, order, owner, submits, leaked, blocked>>
      BY <1>3 DEF CacheEvicts, Redispatch, PauseStrategy, vars
    <2> QED
      BY <1>0, <2>1, <2>2 DEF IInv, WorkerHolds, SendRight, AboutToSend, HasSent, HaltRight
  <1>4. ASSUME NEW c \in Coids, Resolve(c) PROVE IInv'
    <2>1. PICK s \in {"SUBMITTED", "REJECTED"} : order' = [order EXCEPT ![c] = s]
      BY <1>4 DEF Resolve
    <2>2. order[c] = "NEEDS_RECONCILE"
          /\ UNCHANGED <<rowVars, viewVars, workVars, owner, brokerVars, switchVars, crashes>>
      BY <1>4 DEF Resolve
    <2>3. TypeOK'
      BY <1>0, <2>1, <2>2 DEF TypeOK, OrderStatus
    <2> QED
      BY <1>0, <2>1, <2>2, <2>3
      DEF IInv, TypeOK, WorkerHolds, SendRight, AboutToSend, HasSent, HaltRight
  <1>5. CASE HaltTrading \/ ReleaseHalt
    <2>1. /\ blocked' \in BOOLEAN /\ leaked' \in [Workers -> Nat]
          /\ \A v \in Workers : leaked'[v] = 0 \/ (leaked'[v] = leaked[v] /\ (blocked' => blocked))
      <3>1. CASE HaltTrading
        BY <1>0, <3>1, HaltsType DEF HaltTrading
      <3>2. CASE ReleaseHalt
        BY <1>0, <3>2 DEF ReleaseHalt, TypeOK
      <3> QED
        BY <1>5, <3>1, <3>2
    <2>2. UNCHANGED <<rowVars, viewVars, workVars, orderVars, landed, submits, paused, crashes>>
      BY <1>5 DEF HaltTrading, ReleaseHalt
    <2>3. TypeOK'
      BY <1>0, <2>1, <2>2 DEF TypeOK
    <2>4. WorkerHolds' /\ SendRight'
      BY <1>0, <2>2 DEF WorkerHolds, SendRight, AboutToSend, HasSent
    <2>5. HaltRight'
      BY <1>0, <2>1, <2>2 DEF TypeOK, HaltRight
    <2> QED
      BY <2>3, <2>4, <2>5 DEF IInv
  <1> QED
    BY <1>1, <1>2, <1>3, <1>4, <1>5 DEF Next

LEMMA Invariance == Spec => []IInv
  BY InitIInv, NextIInv, PTL DEF Spec

-----------------------------------------------------------------------------
\* The variables keep their types, the cursor of every handler and worker
\* included: no step of process_alert runs outside its place in the task.
THEOREM TypeCorrect == Spec => []TypeOK
  BY Invariance, PTL DEF IInv

\* One client order id is submitted at most once (get_or_create on
\* client_order_id, tasks.py:202-219), whatever fails and however often.
THEOREM SubmitOnce == Spec => []AtMostOneSubmit
  <1>1. IInv => AtMostOneSubmit
    BY DEF IInv, SendRight, AtMostOneSubmit
  <1> QED
    BY <1>1, Invariance, PTL

\* Both together: what the runs check as SubmitsOnce (webhooks/tasks.py:196-219).
COROLLARY SubmitsAreSingle == Spec => []SubmitsOnce
  BY TypeCorrect, SubmitOnce, PTL DEF SubmitsOnce

\* A halt leaks at most the order each worker had already let through its gate
\* (tasks.py:143-153), for any number of workers.
THEOREM HaltLeaksOne == Spec => []LeakBound
  <1>1. IInv => LeakBound
    BY DEF IInv, HaltRight, LeakBound
  <1> QED
    BY <1>1, Invariance, PTL

-----------------------------------------------------------------------------
(* What the callers were told.                                             *)

Kept == {"RECEIVED", "ACCEPTED", "REJECTED"}

\* No worker is at r, and r owns no order.
Untouched(r) ==
  /\ owner[Coid(r)] # r
  /\ \A w \in Workers : worker[w] # "idle" => holds[w] # r

\* A row holds a key only when it is a genuine alert, and a request has no row
\* before its handler anchors it.
RowsRight ==
  \A r \in Requests :
    /\ view[r] \in {"new", "missed"} => alert[r] = "none" /\ rowKey[r] = NoKey
    /\ rowKey[r] # NoKey => alert[r] \in Kept

\* Workers are at genuine alerts.
WorkRight == \A w \in Workers : worker[w] # "idle" => alert[holds[w]] \in Kept

\* Before the dispatch nothing of r is in the queue or at a worker, and a
\* refused row never leaves REJECTED: that is why the beat cannot revive it.
RefusalRight ==
  \A r \in Requests :
    /\ view[r] \in {"new", "missed", "anchored"} => queue[r] = 0 /\ Untouched(r)
    /\ answer[r] = "rejected" => view[r] = "done"
    /\ view[r] = "refused" \/ answer[r] = "rejected" => alert[r] = "REJECTED" /\ Untouched(r)

AInv == RowsRight /\ WorkRight /\ RefusalRight /\ DuplicateIsAnchored

LEMMA InitAInv == Init => AInv
  BY ConstantsAssumption, CoidType
  DEF Init, AInv, RowsRight, WorkRight, RefusalRight, Untouched, DuplicateIsAnchored

\* What DuplicateIsAnchored needs of a step: nobody is told "duplicate" anew, and
\* a genuine row stays one, with its key.
LEMMA RowsStay ==
  ASSUME DuplicateIsAnchored,
         \A r \in Requests : answer'[r] = "duplicate" => answer[r] = "duplicate",
         \A q \in Requests : alert[q] \in Kept => alert'[q] \in Kept /\ rowKey'[q] = rowKey[q]
  PROVE  DuplicateIsAnchored'
  BY DEF DuplicateIsAnchored, Kept

LEMMA ViewStepAInv ==
  ASSUME IInv, AInv, NEW r \in Requests, ViewStep(r) \/ ViewDies(r)
  PROVE  AInv'
  <1> USE DEF rowVars, viewVars, taskVars, workVars, orderVars, brokerVars, switchVars
  <1>0. TypeOK /\ RowsRight /\ WorkRight /\ RefusalRight /\ DuplicateIsAnchored
    BY DEF IInv, AInv
  <1>k. Anchor(r) \in Keys \cup {NoKey} /\ NoKey \notin Keys
    BY ConstantsAssumption DEF Anchor
  <1>w. UNCHANGED <<worker, holds, owner>>
    BY DEF ViewStep, ViewRefuses, ViewChecksCache, ViewAnchors, ViewHalts, ViewDispatches,
           ViewAnswers, ViewDies
  <1>u. \A q \in Requests : Untouched(q) => Untouched(q)'
    BY <1>w DEF Untouched
  <1>1. RowsRight'
    <2> USE <1>0, <1>k DEF TypeOK, RowsRight, Kept
    <2>1. CASE ViewRefuses(r)
      BY <2>1 DEF ViewRefuses, AuditRow, Insert
    <2>2. CASE ViewAnchors(r)
      BY <2>2 DEF ViewAnchors, Insert
    <2>3. CASE ViewChecksCache(r) \/ ViewHalts(r) \/ ViewDispatches(r) \/ ViewAnswers(r) \/ ViewDies(r)
      BY <2>3 DEF ViewChecksCache, ViewHalts, ViewDispatches, ViewAnswers, ViewDies
    <2> QED
      BY <2>1, <2>2, <2>3 DEF ViewStep
  <1>2. \A q \in Requests : alert[q] \in Kept => alert'[q] \in Kept /\ rowKey'[q] = rowKey[q]
    <2> USE <1>0 DEF TypeOK, RowsRight, Kept
    <2>1. CASE ViewRefuses(r)
      BY <2>1 DEF ViewRefuses, AuditRow, Insert
    <2>2. CASE ViewAnchors(r)
      BY <2>2 DEF ViewAnchors, Insert
    <2>3. CASE ViewChecksCache(r) \/ ViewHalts(r) \/ ViewDispatches(r) \/ ViewAnswers(r) \/ ViewDies(r)
      BY <2>3 DEF ViewChecksCache, ViewHalts, ViewDispatches, ViewAnswers, ViewDies
    <2> QED
      BY <2>1, <2>2, <2>3 DEF ViewStep
  <1>3. WorkRight'
    BY <1>0, <1>2, <1>w DEF WorkRight, IInv, WorkerHolds
  <1>4. RefusalRight'
    <2> USE <1>0, <1>u DEF TypeOK, RefusalRight
    <2>1. CASE ViewRefuses(r)
      BY <2>1 DEF ViewRefuses, AuditRow, Insert
    <2>2. CASE ViewChecksCache(r)
      BY <2>2 DEF ViewChecksCache
    <2>3. CASE ViewAnchors(r)
      BY <2>3 DEF ViewAnchors, Insert
    <2>4. CASE ViewHalts(r)
      BY <2>4 DEF ViewHalts
    <2>5. CASE ViewDispatches(r)
      BY <2>5 DEF ViewDispatches
    <2>6. CASE ViewAnswers(r)
      BY <2>6 DEF ViewAnswers
    <2>7. CASE ViewDies(r)
      BY <2>7 DEF ViewDies
    <2> QED
      BY <2>1, <2>2, <2>3, <2>4, <2>5, <2>6, <2>7 DEF ViewStep
  <1>5. DuplicateIsAnchored'
    <2>1. CASE ViewChecksCache(r) \/ ViewAnchors(r)
      <3>1. \/ UNCHANGED answer
            \/ /\ answer' = [answer EXCEPT ![r] = "duplicate"] /\ UNCHANGED rowVars
               /\ view[r] \in {"new", "missed"} /\ Anchor(r) # NoKey
               /\ \E q \in Requests : alert[q] # "none" /\ rowKey[q] = Anchor(r)
        BY <1>0, <1>k, <2>1 DEF ViewChecksCache, ViewAnchors, FastHit, KeyTaken, TypeOK
      <3>2. CASE UNCHANGED answer
        BY <1>0, <1>2, <3>2, RowsStay
      <3>3. ASSUME answer' = [answer EXCEPT ![r] = "duplicate"], UNCHANGED rowVars,
                   view[r] \in {"new", "missed"}, Anchor(r) # NoKey,
                   \E q \in Requests : alert[q] # "none" /\ rowKey[q] = Anchor(r)
            PROVE  DuplicateIsAnchored'
        <4>1. \E q \in Requests \ {r} : alert[q] \in Kept /\ rowKey[q] = Anchor(r)
          BY <1>0, <3>3 DEF RowsRight
        <4> QED
          BY <1>0, <3>3, <4>1 DEF DuplicateIsAnchored, TypeOK, Kept
      <3> QED
        BY <3>1, <3>2, <3>3
    <2>2. CASE ViewRefuses(r) \/ ViewHalts(r) \/ ViewDispatches(r) \/ ViewAnswers(r) \/ ViewDies(r)
      <3>1. \A q \in Requests : answer'[q] = "duplicate" => answer[q] = "duplicate"
        BY <1>0, <2>2 DEF TypeOK, ViewRefuses, ViewHalts, ViewDispatches, ViewAnswers, ViewDies
      <3> QED
        BY <1>0, <1>2, <3>1, RowsStay
    <2> QED
      BY <2>1, <2>2 DEF ViewStep
  <1> QED
    BY <1>1, <1>3, <1>4, <1>5 DEF AInv

LEMMA WorkerStepAInv ==
  ASSUME IInv, AInv, NEW w \in Workers, WorkerStep(w) \/ WorkerDies(w)
  PROVE  AInv'
  <1> USE DEF rowVars, viewVars, taskVars, workVars, orderVars, brokerVars, switchVars
  <1>0. /\ TypeOK /\ WorkerHolds /\ None \notin Requests
        /\ RowsRight /\ WorkRight /\ RefusalRight /\ DuplicateIsAnchored
    BY ConstantsAssumption DEF IInv, AInv
  <1>c. worker[w] # "idle" => holds[w] \in Requests /\ Coid(holds[w]) \in Coids
    BY <1>0, CoidType DEF WorkerHolds
  <1>1. UNCHANGED <<rowKey, view, answer>>
    BY DEF WorkerStep, Take, GateRejects, GatePasses, CreateOrder, RefuseOrder, Submit,
           Acknowledged, BrokerRejects, SubmitAmbiguous, AmbiguousGoesTo, SubmitTimesOut,
           RecordAck, CloseAlert, WorkerDies
  <1>2. \/ UNCHANGED alert
        \/ /\ worker[w] # "idle" /\ worker'[w] = "idle"
           /\ \E s \in {"ACCEPTED", "REJECTED"} : alert' = [alert EXCEPT ![holds[w]] = s]
    BY <1>0 DEF TypeOK, WorkerStep, Take, GateRejects, GatePasses, CreateOrder, RefuseOrder, Submit,
           Acknowledged, BrokerRejects, SubmitAmbiguous, AmbiguousGoesTo, SubmitTimesOut,
           RecordAck, CloseAlert, WorkerDies, Done
  <1>3. \A q \in Requests : alert[q] \in Kept => alert'[q] \in Kept /\ rowKey'[q] = rowKey[q]
    BY <1>0, <1>1, <1>2, <1>c DEF TypeOK, Kept
  <1>4. \A v \in Workers : worker'[v] # "idle" =>
          \/ worker[v] # "idle" /\ holds'[v] = holds[v]
          \/ /\ v = w /\ worker[w] = "idle" /\ holds'[w] \in Requests
             /\ alert[holds'[w]] = "RECEIVED" /\ queue[holds'[w]] > 0
    BY <1>0 DEF TypeOK, WorkerStep, Take, GateRejects, GatePasses, CreateOrder, RefuseOrder, Submit,
           Acknowledged, BrokerRejects, SubmitAmbiguous, AmbiguousGoesTo, SubmitTimesOut,
           RecordAck, CloseAlert, WorkerDies, Done, Step
  <1>5. \/ UNCHANGED owner
        \/ worker[w] # "idle" /\ owner' = [owner EXCEPT ![Coid(holds[w])] = holds[w]]
    BY DEF WorkerStep, Take, GateRejects, GatePasses, CreateOrder, RefuseOrder, Submit,
           Acknowledged, BrokerRejects, SubmitAmbiguous, AmbiguousGoesTo, SubmitTimesOut,
           RecordAck, CloseAlert, WorkerDies, Owns
  <1>6. \A q \in Requests : queue[q] = 0 => queue'[q] = 0
    BY <1>0 DEF TypeOK, WorkerStep, Take, GateRejects, GatePasses, CreateOrder, RefuseOrder, Submit,
           Acknowledged, BrokerRejects, SubmitAmbiguous, AmbiguousGoesTo, SubmitTimesOut,
           RecordAck, CloseAlert, WorkerDies
  <1>7. RowsRight'
    BY <1>0, <1>1, <1>2, <1>3, <1>c DEF TypeOK, RowsRight, WorkRight, Kept
  <1>8. WorkRight'
    BY <1>0, <1>3, <1>4 DEF WorkRight, WorkerHolds, Kept
  <1>9. RefusalRight'
    <2> SUFFICES ASSUME NEW r \in Requests
        PROVE  /\ view[r] \in {"new", "missed", "anchored"} => queue'[r] = 0 /\ Untouched(r)'
               /\ answer[r] = "rejected" => view[r] = "done"
               /\ view[r] = "refused" \/ answer[r] = "rejected" => alert'[r] = "REJECTED" /\ Untouched(r)'
      BY <1>1 DEF RefusalRight
    <2>1. ASSUME Untouched(r), queue[r] = 0 \/ alert[r] = "REJECTED" PROVE Untouched(r)'
      <3>1. owner'[Coid(r)] # r
        BY <1>0, <1>5, <1>c, <2>1, CoidType DEF TypeOK, Untouched
      <3>2. \A v \in Workers : worker'[v] # "idle" => holds'[v] # r
        <4> SUFFICES ASSUME NEW v \in Workers, worker'[v] # "idle", holds'[v] = r PROVE FALSE
          OBVIOUS
        <4>1. CASE worker[v] # "idle" /\ holds'[v] = holds[v]
          BY <2>1, <4>1 DEF Untouched
        <4>2. CASE alert[r] = "RECEIVED" /\ queue[r] > 0
          BY <2>1, <4>2
        <4> QED
          BY <1>4, <4>1, <4>2
      <3> QED
        BY <3>1, <3>2 DEF Untouched
    <2>2. ASSUME Untouched(r), alert[r] = "REJECTED" PROVE alert'[r] = "REJECTED"
      BY <1>0, <1>2, <1>c, <2>2 DEF TypeOK, Untouched
    <2> QED
      BY <1>0, <1>6, <2>1, <2>2 DEF RefusalRight
  <1>10. DuplicateIsAnchored'
    BY <1>0, <1>1, <1>3, RowsStay
  <1> QED
    BY <1>7, <1>8, <1>9, <1>10 DEF AInv

LEMMA NextAInv == IInv /\ AInv /\ [Next]_vars => AInv'
  <1> SUFFICES ASSUME IInv, AInv, [Next]_vars PROVE AInv'
    OBVIOUS
  <1> USE DEF rowVars, viewVars, taskVars, workVars, orderVars, brokerVars, switchVars
  <1>0. TypeOK /\ RowsRight /\ WorkRight /\ RefusalRight /\ DuplicateIsAnchored
    BY DEF IInv, AInv
  <1>1. ASSUME NEW r \in Requests, ViewStep(r) \/ ViewDies(r) PROVE AInv'
    BY <1>1, ViewStepAInv
  <1>2. ASSUME NEW w \in Workers, WorkerStep(w) \/ WorkerDies(w) PROVE AInv'
    BY <1>2, WorkerStepAInv
  <1>3. CASE \/ \E k \in Keys : CacheEvicts(k)
             \/ \E c \in Coids : Resolve(c)
             \/ PauseStrategy \/ HaltTrading \/ ReleaseHalt
             \/ UNCHANGED vars
    <2>1. UNCHANGED <<alert, rowKey, view, answer, queue, worker, holds, owner>>
      BY <1>3 DEF CacheEvicts, Resolve, PauseStrategy, HaltTrading, ReleaseHalt, vars
    <2> QED
      BY <1>0, <2>1 DEF AInv, RowsRight, WorkRight, RefusalRight, Untouched, DuplicateIsAnchored
  <1>4. ASSUME NEW S \in SUBSET Stranded, Redispatch(S) PROVE AInv'
    <2>1. UNCHANGED <<alert, rowKey, view, answer, worker, holds, owner>>
      BY <1>4 DEF Redispatch
    <2>2. \A r \in Requests : view[r] \in {"new", "missed", "anchored"} => r \notin S
      BY <1>0 DEF Stranded, RowsRight
    <2>3. \A r \in Requests : r \notin S => queue'[r] = queue[r]
      BY <1>4 DEF Redispatch
    <2>4. RefusalRight'
      BY <1>0, <2>1, <2>2, <2>3 DEF RefusalRight, Untouched
    <2> QED
      BY <1>0, <2>1, <2>4 DEF AInv, RowsRight, WorkRight, DuplicateIsAnchored
  <1> QED
    BY <1>1, <1>2, <1>3, <1>4 DEF Next

\* Every answer holds (views.py:213-250): "duplicate" only when another, genuine
\* alert with the key is on record, and nothing told "rejected" is ever traded,
\* whatever is released, evicted, redispatched or killed afterwards.
THEOREM AnswersStand == Spec => []AnswersHold
  <1>1. AInv => AnswersHold
    BY DEF AInv, AnswersHold, RefusalRight, Untouched, RefusedNeverTrades
  <1> QED
    BY <1>1, InitAInv, NextAInv, Invariance, PTL DEF Spec

-----------------------------------------------------------------------------
(* The orders, the broker and the alerts tell the same story.              *)

\* Where the look-up by client order id does not fail, what the broker holds was
\* sent once and is not written off.
LandedRight == \A c \in landed : submits[c] = 1 /\ order[c] # "REJECTED"

LEMMA InitLanded == Init => LandedRight
  BY DEF Init, LandedRight

LEMMA NextLanded ==
  ASSUME "probe_error" \notin Faults, IInv, LandedRight, [Next]_vars
  PROVE  LandedRight'
  <1> USE DEF rowVars, viewVars, taskVars, workVars, orderVars, brokerVars, switchVars
  <1>0. TypeOK /\ WorkerHolds /\ SendRight
    BY DEF IInv
  <1>1. CASE UNCHANGED <<landed, submits, order>>
    BY <1>0, <1>1 DEF LandedRight
  <1>2. ASSUME NEW w \in Workers, WorkerStep(w) PROVE LandedRight'
    <2>0. worker[w] # "idle" => holds[w] \in Requests /\ Coid(holds[w]) \in Coids
      BY <1>0, CoidType DEF WorkerHolds
    <2>1. CASE CreateOrder(w)
      BY <1>0, <2>0, <2>1 DEF CreateOrder, Owns, LandedRight, TypeOK, SendRight
    <2>2. CASE RefuseOrder(w)
      <3>1. worker[w] = "check" /\ Coid(holds[w]) \notin landed
        BY <1>0, <2>0, <2>2 DEF RefuseOrder, SendRight, AboutToSend, LandedRight
      <3> QED
        BY <1>0, <2>0, <2>2, <3>1 DEF RefuseOrder, LandedRight, TypeOK
    <2>3. CASE Submit(w)
      <3>1. PICK c \in Coids : c = Coid(holds[w])
        BY <2>0, <2>3 DEF Submit
      <3>2. submits[c] = 0 /\ order[c] = "PENDING_SUBMIT"
        BY <1>0, <2>3, <3>1 DEF Submit, SendRight, AboutToSend
      <3>3. submits' = [submits EXCEPT ![c] = @ + 1] /\ order' = order /\ landed' \subseteq landed \cup {c}
        BY <2>3, <3>1 DEF Submit
      <3> QED
        BY <1>0, <3>1, <3>2, <3>3 DEF LandedRight, TypeOK
    <2>4. CASE BrokerRejects(w) \/ SubmitTimesOut(w)
      <3>1. /\ Coid(holds[w]) \notin landed /\ worker[w] # "idle"
            /\ order' = [order EXCEPT ![Coid(holds[w])] = "REJECTED"] /\ UNCHANGED <<landed, submits>>
        BY <2>4 DEF BrokerRejects, SubmitTimesOut, ProbeMisses
      <3> QED
        BY <1>0, <2>0, <3>1 DEF LandedRight, TypeOK
    <2>5. CASE SubmitAmbiguous(w) \/ RecordAck(w)
      <3>1. /\ worker[w] # "idle" /\ UNCHANGED <<landed, submits>>
            /\ \E s \in {"NEEDS_RECONCILE", "SUBMITTED"} : order' \in {order, [order EXCEPT ![Coid(holds[w])] = s]}
        BY <2>5 DEF SubmitAmbiguous, AmbiguousGoesTo, RecordAck
      <3> QED
        BY <1>0, <2>0, <3>1 DEF LandedRight, TypeOK
    <2>6. CASE (\E r \in Requests : Take(w, r)) \/ GateRejects(w) \/ GatePasses(w) \/ Acknowledged(w) \/ CloseAlert(w)
      BY <1>1, <2>6 DEF Take, GateRejects, GatePasses, Acknowledged, CloseAlert
    <2> QED
      BY <1>2, <2>1, <2>2, <2>3, <2>4, <2>5, <2>6 DEF WorkerStep
  <1>3. ASSUME NEW c \in Coids, Resolve(c) PROVE LandedRight'
    BY <1>0, <1>3 DEF Resolve, ProbeMisses, LandedRight, TypeOK
  <1>4. ASSUME NEW r \in Requests, ViewStep(r) \/ ViewDies(r) PROVE LandedRight'
    BY <1>1, <1>4 DEF ViewStep, ViewRefuses, ViewChecksCache, ViewAnchors, ViewHalts, ViewDispatches,
                      ViewAnswers, ViewDies
  <1>5. CASE \/ \E k \in Keys : CacheEvicts(k)
             \/ \E S \in SUBSET Stranded : Redispatch(S)
             \/ \E w \in Workers : WorkerDies(w)
             \/ PauseStrategy \/ HaltTrading \/ ReleaseHalt
             \/ UNCHANGED vars
    BY <1>1, <1>5 DEF CacheEvicts, Redispatch, WorkerDies, PauseStrategy, HaltTrading, ReleaseHalt, vars
  <1> QED
    BY <1>2, <1>3, <1>4, <1>5 DEF Next

\* No order the broker holds is written off (tasks.py:30-34, 370-373), for any number
\* of workers and crashes and every other fault, where the look-up by client order
\* id itself does not fail; where it may, the run alert_probe shows one that is.
THEOREM NoOrderIsOrphaned ==
  ASSUME "probe_error" \notin Faults
  PROVE  Spec => []NoOrphanOrder
  <1>1. IInv /\ LandedRight => NoOrphanOrder
    BY DEF IInv, TypeOK, SendRight, LandedRight, NoOrphanOrder
  <1>2. IInv /\ LandedRight /\ [Next]_vars => LandedRight'
    BY NextLanded
  <1> QED
    BY <1>1, <1>2, InitLanded, Invariance, PTL DEF Spec

-----------------------------------------------------------------------------

\* Worker w created the order of c and is not done with it.
Busy(w, c) == worker[w] \in {"check", "posted", "record", "accept", "reject"} /\ Coid(holds[w]) = c

\* The order was sent, and its state recorded.
Sent(c) == submits[c] = 1 /\ order[c] \notin {"none", "PENDING_SUBMIT"}

\* One worker at most ever works on an order, the one that created it for the
\* alert it holds; what it reports at the end is what became of the order.
AcceptRight ==
  /\ \A w \in Workers, c \in Coids : Busy(w, c) =>
       /\ owner[c] = holds[w] /\ order[c] # "none"
       /\ worker[w] = "accept" => Sent(c)
       /\ worker[w] = "reject" => order[c] = "REJECTED"
       /\ \A v \in Workers : Busy(v, c) => v = w
  /\ \A r \in Requests : alert[r] = "ACCEPTED" => owner[Coid(r)] = r /\ Sent(Coid(r))

\* With one worker that never dies an alert is open while the worker is at it, and
\* one that owns an order is open at the worker or closed as the order ended.
RejectRight ==
  /\ \A w \in Workers :
       /\ worker[w] # "idle" => alert[holds[w]] = "RECEIVED"
       /\ worker[w] \in {"gate", "create"} => owner[Coid(holds[w])] # holds[w]
  /\ \A r \in Requests : owner[Coid(r)] = r =>
       \/ \E w \in Workers : worker[w] # "idle" /\ holds[w] = r
       \/ alert[r] = "ACCEPTED"
       \/ alert[r] = "REJECTED" /\ order[Coid(r)] = "REJECTED"

LEMMA InitAccept == Init => AcceptRight /\ RejectRight
  BY ConstantsAssumption, CoidType DEF Init, AcceptRight, RejectRight, Busy

\* What AcceptRight needs of a step that leaves the orders alone: nobody starts to
\* work on one, and no alert is accepted.
LEMMA AcceptStays ==
  ASSUME AcceptRight, UNCHANGED <<order, owner, submits>>,
         \A v \in Workers : \/ worker'[v] = worker[v] /\ holds'[v] = holds[v]
                            \/ worker'[v] \in {"idle", "gate", "create"},
         \A r \in Requests : alert'[r] = "ACCEPTED" => alert[r] = "ACCEPTED"
  PROVE  AcceptRight'
  BY DEF AcceptRight, Busy, Sent

LEMMA NextAccept == IInv /\ AcceptRight /\ [Next]_vars => AcceptRight'
  <1> SUFFICES ASSUME IInv, AcceptRight, [Next]_vars PROVE AcceptRight'
    OBVIOUS
  <1> USE DEF rowVars, viewVars, taskVars, workVars, orderVars, brokerVars, switchVars
  <1>0. TypeOK /\ WorkerHolds /\ SendRight
    BY DEF IInv
  <1>1. ASSUME NEW r \in Requests, ViewStep(r) \/ ViewDies(r) PROVE AcceptRight'
    <2>1. /\ UNCHANGED <<order, owner, submits, worker, holds>>
          /\ \/ UNCHANGED alert
             \/ \E s \in {"AUDIT", "RECEIVED", "REJECTED"} : alert' = [alert EXCEPT ![r] = s]
      BY <1>1 DEF ViewStep, ViewRefuses, AuditRow, Insert, ViewChecksCache, ViewAnchors, ViewHalts,
                  ViewDispatches, ViewAnswers, ViewDies
    <2>2. \A q \in Requests : alert'[q] = "ACCEPTED" => alert[q] = "ACCEPTED"
      BY <1>0, <2>1 DEF TypeOK
    <2> QED
      BY <2>1, <2>2, AcceptStays
  <1>2. ASSUME NEW w \in Workers, WorkerStep(w) \/ WorkerDies(w) PROVE AcceptRight'
    <2>c. worker[w] # "idle" => holds[w] \in Requests /\ Coid(holds[w]) \in Coids
      BY <1>0, CoidType DEF WorkerHolds
    <2>1. CASE \/ \E r \in Requests : Take(w, r)
               \/ GateRejects(w) \/ GatePasses(w) \/ WorkerDies(w)
               \/ CreateOrder(w) /\ order[Coid(holds[w])] # "none"
      <3>1. /\ UNCHANGED <<order, owner, submits>>
            /\ \A v \in Workers : \/ worker'[v] = worker[v] /\ holds'[v] = holds[v]
                                  \/ worker'[v] \in {"idle", "gate", "create"}
        BY <1>0, <2>1 DEF TypeOK, Take, GateRejects, GatePasses, WorkerDies, CreateOrder, Done, Step
      <3>2. UNCHANGED alert \/ alert' = [alert EXCEPT ![holds[w]] = "REJECTED"]
        BY <2>1 DEF Take, GateRejects, GatePasses, WorkerDies, CreateOrder
      <3>3. \A r \in Requests : alert'[r] = "ACCEPTED" => alert[r] = "ACCEPTED"
        BY <1>0, <3>2 DEF TypeOK
      <3> QED
        BY <3>1, <3>3, AcceptStays
    <2>2. CASE CloseAlert(w)
      <3>0. PICK r \in Requests, c \in Coids : r = holds[w] /\ c = Coid(r) /\ Busy(w, c)
        BY <2>2, <2>c DEF CloseAlert, Busy
      <3>1. /\ worker' = [worker EXCEPT ![w] = "idle"] /\ holds' = [holds EXCEPT ![w] = None]
            /\ UNCHANGED <<order, owner, submits>>
            /\ \/ worker[w] = "accept" /\ alert' = [alert EXCEPT ![r] = "ACCEPTED"]
               \/ alert' = [alert EXCEPT ![r] = "REJECTED"]
        BY <2>2, <3>0 DEF CloseAlert, Done
      <3>2. owner[c] = r /\ (worker[w] = "accept" => Sent(c))
        BY <3>0 DEF AcceptRight
      <3> QED
        BY <1>0, <3>0, <3>1, <3>2 DEF AcceptRight, Busy, Sent, TypeOK
    <2>3. CASE CreateOrder(w) /\ order[Coid(holds[w])] = "none"
      <3>0. PICK r \in Requests, c \in Coids : r = holds[w] /\ c = Coid(r)
        BY <2>3, <2>c DEF CreateOrder
      <3>1. /\ order' = [order EXCEPT ![c] = "PENDING_SUBMIT"]
            /\ owner' = [owner EXCEPT ![c] = r]
            /\ worker' = [worker EXCEPT ![w] = "check"] /\ worker[w] = "create"
            /\ order[c] = "none" /\ UNCHANGED <<alert, holds, submits>>
        BY <2>3, <3>0 DEF CreateOrder, Owns, Step
      <3>2. ~Sent(c) /\ \A v \in Workers : ~Busy(v, c)
        BY <3>0, <3>1 DEF AcceptRight, Sent
      <3>3. ASSUME NEW v \in Workers, NEW d \in Coids, Busy(v, d)'
            PROVE  \/ v = w /\ d = c
                   \/ v # w /\ d # c /\ Busy(v, d)
        BY <1>0, <3>0, <3>1, <3>2, <3>3 DEF Busy, TypeOK
      <3>4. ASSUME NEW v \in Workers, NEW d \in Coids, Busy(v, d)'
            PROVE  /\ owner'[d] = holds'[v] /\ order'[d] # "none"
                   /\ worker'[v] = "accept" => Sent(d)'
                   /\ worker'[v] = "reject" => order'[d] = "REJECTED"
        BY <1>0, <3>0, <3>1, <3>3, <3>4 DEF AcceptRight, Sent, TypeOK
      <3>5. ASSUME NEW v \in Workers, NEW u \in Workers, NEW d \in Coids, Busy(v, d)', Busy(u, d)'
            PROVE  u = v
        <4>1. CASE d = c
          BY <3>3, <3>5, <4>1
        <4>2. CASE d # c
          <5>1. Busy(v, d) /\ Busy(u, d)
            BY <3>3, <3>5, <4>2
          <5> QED
            BY <5>1 DEF AcceptRight
        <4> QED
          BY <4>1, <4>2
      <3>6. ASSUME NEW q \in Requests, alert'[q] = "ACCEPTED" PROVE owner'[Coid(q)] = q /\ Sent(Coid(q))'
        BY <1>0, <3>0, <3>1, <3>2, <3>6, CoidType DEF AcceptRight, Sent, TypeOK
      <3> QED
        BY <3>4, <3>5, <3>6 DEF AcceptRight
    <2>4. CASE RefuseOrder(w) \/ Submit(w) \/ Acknowledged(w) \/ BrokerRejects(w) \/ SubmitAmbiguous(w)
               \/ SubmitTimesOut(w) \/ RecordAck(w)
      <3>0. PICK r \in Requests, c \in Coids :
              /\ r = holds[w] /\ c = Coid(r) /\ Busy(w, c)
              /\ AboutToSend(w, c) \/ HasSent(w, c)
        BY <2>4, <2>c
        DEF RefuseOrder, Submit, Acknowledged, BrokerRejects, SubmitAmbiguous, AmbiguousGoesTo,
            SubmitTimesOut, RecordAck, Busy, AboutToSend, HasSent
      <3>1. /\ UNCHANGED <<alert, owner, holds>>
            /\ \E pc \in {"posted", "record", "accept", "reject"} : worker' = [worker EXCEPT ![w] = pc]
        BY <2>4
        DEF RefuseOrder, Submit, Acknowledged, BrokerRejects, SubmitAmbiguous, AmbiguousGoesTo,
            SubmitTimesOut, RecordAck, Step
      <3>2. \A d \in Coids : d # c => order'[d] = order[d] /\ submits'[d] = submits[d]
        BY <1>0, <2>4, <3>0
        DEF TypeOK, RefuseOrder, Submit, Acknowledged, BrokerRejects, SubmitAmbiguous, AmbiguousGoesTo,
            SubmitTimesOut, RecordAck
      <3>3. owner[c] = r /\ order[c] # "none" /\ \A v \in Workers : Busy(v, c) => v = w
        BY <3>0 DEF AcceptRight
      <3>4. /\ order'[c] # "none"
            /\ worker'[w] = "accept" => Sent(c)'
            /\ worker'[w] = "reject" => order'[c] = "REJECTED"
            /\ Sent(c) => Sent(c)'
        <4>0. HasSent(w, c) => submits[c] = 1
          BY <1>0, <3>0 DEF SendRight
        <4>1. CASE RefuseOrder(w) \/ Submit(w)
          <5>1. AboutToSend(w, c) /\ ~Sent(c) /\ order[c] = "PENDING_SUBMIT"
            BY <1>0, <3>0, <4>1 DEF RefuseOrder, Submit, AboutToSend, HasSent, SendRight, Sent
          <5> QED
            BY <1>0, <3>0, <3>3, <4>1, <5>1 DEF TypeOK, RefuseOrder, Submit, Step
        <4>2. CASE Acknowledged(w)
          BY <1>0, <3>3, <4>2 DEF TypeOK, Acknowledged, Step, Sent
        <4>3. CASE BrokerRejects(w) \/ SubmitTimesOut(w)
          BY <1>0, <3>0, <4>3 DEF TypeOK, BrokerRejects, SubmitTimesOut, Step, Sent
        <4>4. CASE SubmitAmbiguous(w)
          <5>1. HasSent(w, c)
            BY <3>0, <4>4 DEF SubmitAmbiguous, AmbiguousGoesTo, AboutToSend
          <5> QED
            BY <1>0, <3>0, <4>0, <4>4, <5>1 DEF TypeOK, SubmitAmbiguous, AmbiguousGoesTo, Step, Sent
        <4>5. CASE RecordAck(w)
          <5>1. HasSent(w, c)
            BY <3>0, <4>5 DEF RecordAck, AboutToSend
          <5> QED
            BY <1>0, <3>0, <3>3, <4>0, <4>5, <5>1 DEF TypeOK, RecordAck, Step, Sent
        <4> QED
          BY <2>4, <4>1, <4>2, <4>3, <4>4, <4>5
      <3>5. ASSUME NEW v \in Workers, NEW d \in Coids, Busy(v, d)'
            PROVE  Busy(v, d) /\ (d = c => v = w) /\ (v = w => d = c)
        BY <1>0, <3>0, <3>1, <3>3, <3>5 DEF Busy, TypeOK
      <3>6. ASSUME NEW v \in Workers, NEW d \in Coids, Busy(v, d)'
            PROVE  /\ owner'[d] = holds'[v] /\ order'[d] # "none"
                   /\ worker'[v] = "accept" => Sent(d)'
                   /\ worker'[v] = "reject" => order'[d] = "REJECTED"
                   /\ \A u \in Workers : Busy(u, d)' => u = v
        <4>1. CASE d = c
          BY <3>0, <3>1, <3>3, <3>4, <3>5, <3>6, <4>1
        <4>2. CASE d # c
          <5>1. v # w /\ Busy(v, d) /\ worker'[v] = worker[v]
            BY <1>0, <3>1, <3>5, <3>6, <4>2 DEF TypeOK
          <5> QED
            BY <3>1, <3>2, <3>5, <4>2, <5>1 DEF AcceptRight, Sent
        <4> QED
          BY <4>1, <4>2
      <3>7. ASSUME NEW q \in Requests, alert'[q] = "ACCEPTED" PROVE owner'[Coid(q)] = q /\ Sent(Coid(q))'
        <4>1. owner'[Coid(q)] = q /\ Sent(Coid(q)) /\ Coid(q) \in Coids
          BY <3>1, <3>7, CoidType DEF AcceptRight
        <4> QED
          BY <3>2, <3>4, <4>1 DEF Sent
      <3> QED
        BY <3>6, <3>7 DEF AcceptRight
    <2> QED
      BY <1>2, <2>1, <2>2, <2>3, <2>4 DEF WorkerStep
  <1>3. ASSUME NEW c \in Coids, Resolve(c) PROVE AcceptRight'
    <2>1. /\ order[c] = "NEEDS_RECONCILE" /\ order'[c] \in {"SUBMITTED", "REJECTED"}
          /\ \A d \in Coids : d # c => order'[d] = order[d]
          /\ UNCHANGED <<alert, owner, submits, worker, holds>>
      BY <1>0, <1>3 DEF Resolve, TypeOK
    <2>2. \A d \in Coids : Sent(d) => Sent(d)'
      BY <2>1 DEF Sent
    <2>3. \A w \in Workers, d \in Coids : Busy(w, d)' <=> Busy(w, d)
      BY <2>1 DEF Busy
    <2> QED
      BY <2>1, <2>2, <2>3, CoidType DEF AcceptRight
  <1>4. CASE \/ \E k \in Keys : CacheEvicts(k)
             \/ \E S \in SUBSET Stranded : Redispatch(S)
             \/ PauseStrategy \/ HaltTrading \/ ReleaseHalt
             \/ UNCHANGED vars
    <2>1. UNCHANGED <<order, owner, submits, worker, holds, alert>>
      BY <1>4 DEF CacheEvicts, Redispatch, PauseStrategy, HaltTrading, ReleaseHalt, vars
    <2> QED
      BY <2>1, AcceptStays
  <1> QED
    BY <1>1, <1>2, <1>3, <1>4 DEF Next

LEMMA AcceptInvariance == Spec => []AcceptRight
  BY InitAccept, NextAccept, Invariance, PTL DEF Spec

\* An alert is accepted only for the order it created itself, once that order was
\* sent and the outcome of the submit recorded (tasks.py:196-219, 359-396): half of
\* AlertMatchesOrder, for any number of workers, crashes and faults.
THEOREM AcceptedWasSent ==
  Spec => [](\A r \in Requests : alert[r] = "ACCEPTED" =>
               /\ owner[Coid(r)] = r
               /\ submits[Coid(r)] = 1 /\ order[Coid(r)] \notin {"none", "PENDING_SUBMIT"})
  <1>1. AcceptRight => \A r \in Requests : alert[r] = "ACCEPTED" =>
                         /\ owner[Coid(r)] = r
                         /\ submits[Coid(r)] = 1 /\ order[Coid(r)] \notin {"none", "PENDING_SUBMIT"}
    BY DEF AcceptRight, Sent
  <1> QED
    BY <1>1, AcceptInvariance, PTL

\* The other half wants one worker that never dies: a redispatch may hand the alert
\* to a second worker while the first is still at the broker, or after it died
\* there, and the gate of the second then rejects an alert whose order is out.
OneSteadyWorker == MaxWorkerCrashes = 0 /\ \A v \in Workers, w \in Workers : v = w

LEMMA NextReject ==
  ASSUME OneSteadyWorker, IInv, AInv, AcceptRight, RejectRight, [Next]_vars
  PROVE  RejectRight'
  <1> USE DEF rowVars, viewVars, taskVars, workVars, orderVars, brokerVars, switchVars
  <1>0. TypeOK /\ WorkerHolds /\ SendRight /\ RefusalRight /\ None \notin Requests
    BY ConstantsAssumption DEF IInv, AInv
  <1>1. ASSUME NEW r \in Requests, ViewStep(r) \/ ViewDies(r) PROVE RejectRight'
    <2>1. /\ UNCHANGED <<order, owner, worker, holds>>
          /\ \/ UNCHANGED alert
             \/ /\ view[r] \in {"new", "missed", "anchored"}
                /\ \E s \in AlertStatus : alert' = [alert EXCEPT ![r] = s]
      BY <1>1 DEF ViewStep, ViewRefuses, AuditRow, Insert, ViewChecksCache, ViewAnchors, ViewHalts,
                  ViewDispatches, ViewAnswers, ViewDies, AlertStatus
    <2>2. \A q \in Requests : q # r => alert'[q] = alert[q]
      BY <1>0, <2>1 DEF TypeOK
    <2>3. UNCHANGED alert \/ Untouched(r)
      BY <1>0, <2>1 DEF RefusalRight
    <2> QED
      BY <1>0, <2>1, <2>2, <2>3 DEF RejectRight, Untouched, WorkerHolds
  <1>2. ASSUME NEW w \in Workers, WorkerStep(w) \/ WorkerDies(w) PROVE RejectRight'
    <2>c. worker[w] # "idle" => holds[w] \in Requests /\ Coid(holds[w]) \in Coids
      BY <1>0, CoidType DEF WorkerHolds
    <2>w. \A v \in Workers : v = w
      BY DEF OneSteadyWorker
    <2>1. ASSUME NEW r \in Requests, Take(w, r) PROVE RejectRight'
      <3>1. CASE alert[r] = "RECEIVED"
        <4>1. /\ worker[w] = "idle" /\ worker'[w] = "gate" /\ holds'[w] = r
              /\ UNCHANGED <<alert, order, owner>>
          BY <1>0, <2>1, <3>1 DEF TypeOK, Take
        <4>2. owner[Coid(r)] # r
          BY <2>w, <3>1, <4>1 DEF RejectRight
        <4> QED
          BY <2>w, <3>1, <4>1, <4>2 DEF RejectRight
      <3>2. CASE alert[r] # "RECEIVED"
        BY <2>1, <3>2 DEF Take, RejectRight
      <3> QED
        BY <3>1, <3>2
    <2>2. CASE GateRejects(w) \/ CloseAlert(w)
      <3>0. PICK r \in Requests, c \in Coids : r = holds[w] /\ c = Coid(r)
        BY <2>2, <2>c DEF GateRejects, CloseAlert
      <3>1. worker'[w] = "idle" /\ UNCHANGED <<order, owner>>
        BY <1>0, <2>2 DEF TypeOK, GateRejects, CloseAlert, Done
      <3>2. \/ worker[w] = "gate" /\ owner[c] # r
            \/ worker[w] = "accept" /\ alert'[r] = "ACCEPTED"
            \/ worker[w] = "reject" /\ alert'[r] = "REJECTED" /\ order[c] = "REJECTED"
        BY <1>0, <2>2, <3>0 DEF TypeOK, GateRejects, CloseAlert, RejectRight, AcceptRight, Busy
      <3>3. \A q \in Requests : q # r => alert'[q] = alert[q]
        BY <1>0, <2>2, <3>0 DEF TypeOK, GateRejects, CloseAlert
      <3> QED
        BY <2>w, <3>0, <3>1, <3>2, <3>3 DEF RejectRight
    <2>3. CASE CreateOrder(w)
      <3>0. PICK r \in Requests, c \in Coids : r = holds[w] /\ c = Coid(r)
        BY <2>3, <2>c DEF CreateOrder
      <3>1. CASE order[c] = "none"
        <4>1. /\ order' = [order EXCEPT ![c] = "PENDING_SUBMIT"]
              /\ owner' = [owner EXCEPT ![c] = r]
              /\ worker'[w] = "check" /\ worker[w] = "create"
              /\ UNCHANGED <<alert, holds>>
          BY <1>0, <2>3, <3>0, <3>1 DEF CreateOrder, Owns, Step, TypeOK
        <4> QED
          BY <1>0, <2>w, <3>0, <3>1, <4>1, CoidType DEF RejectRight, TypeOK
      <3>2. CASE order[c] # "none"
        <4>1. worker[w] = "create" /\ worker'[w] = "idle" /\ UNCHANGED <<alert, order, owner>>
          BY <1>0, <2>3, <3>0, <3>2 DEF CreateOrder, Done, TypeOK
        <4> QED
          BY <2>w, <3>0, <4>1 DEF RejectRight
      <3> QED
        BY <3>1, <3>2
    <2>4. CASE \/ GatePasses(w) \/ RefuseOrder(w) \/ Submit(w) \/ Acknowledged(w) \/ BrokerRejects(w)
               \/ SubmitAmbiguous(w) \/ SubmitTimesOut(w) \/ RecordAck(w)
      <3>0. PICK r \in Requests, c \in Coids : r = holds[w] /\ c = Coid(r) /\ worker[w] # "idle"
        BY <2>4, <2>c
        DEF GatePasses, RefuseOrder, Submit, Acknowledged, BrokerRejects, SubmitAmbiguous,
            AmbiguousGoesTo, SubmitTimesOut, RecordAck
      <3>1. /\ UNCHANGED <<alert, owner, holds>> /\ worker'[w] # "idle"
            /\ worker'[w] \in {"gate", "create"} => worker[w] = "gate"
            /\ order' = order \/ Busy(w, c)
            /\ \A d \in Coids : d # c => order'[d] = order[d]
        BY <1>0, <2>4, <3>0
        DEF TypeOK, GatePasses, RefuseOrder, Submit, Acknowledged, BrokerRejects, SubmitAmbiguous,
            AmbiguousGoesTo, SubmitTimesOut, RecordAck, Step, Busy
      <3>2. ASSUME NEW q \in Requests, alert[q] = "REJECTED", owner[Coid(q)] = q, order[Coid(q)] = "REJECTED"
            PROVE  order'[Coid(q)] = "REJECTED"
        <4>1. Busy(w, c) => owner[c] = r
          BY <3>0 DEF AcceptRight
        <4>2. q # r
          BY <3>0, <3>2 DEF RejectRight
        <4> QED
          BY <3>0, <3>1, <3>2, <4>1, <4>2, CoidType
      <3> QED
        BY <2>w, <3>0, <3>1, <3>2 DEF RejectRight
    <2>5. ~WorkerDies(w)
      BY <1>0 DEF OneSteadyWorker, WorkerDies, TypeOK
    <2> QED
      BY <1>2, <2>1, <2>2, <2>3, <2>4, <2>5 DEF WorkerStep
  <1>3. ASSUME NEW c \in Coids, Resolve(c) PROVE RejectRight'
    <2>1. /\ \A d \in Coids : order[d] = "REJECTED" => order'[d] = "REJECTED"
          /\ UNCHANGED <<alert, owner, worker, holds>>
      BY <1>0, <1>3 DEF Resolve, TypeOK
    <2> QED
      BY <2>1, CoidType DEF RejectRight
  <1>4. CASE \/ \E k \in Keys : CacheEvicts(k)
             \/ \E S \in SUBSET Stranded : Redispatch(S)
             \/ PauseStrategy \/ HaltTrading \/ ReleaseHalt
             \/ UNCHANGED vars
    <2>1. UNCHANGED <<order, owner, worker, holds, alert>>
      BY <1>4 DEF CacheEvicts, Redispatch, PauseStrategy, HaltTrading, ReleaseHalt, vars
    <2> QED
      BY <2>1 DEF RejectRight
  <1> QED
    BY <1>1, <1>2, <1>3, <1>4 DEF Next

\* Orders, alerts and broker agree (tasks.py:30-34, 359-396): no order the broker
\* holds is written off, an accepted alert's order was sent, a rejected alert's is
\* dead; for every set of requests and keys, any halts, pauses, evictions,
\* redispatches and deaths of web handlers, and every fault but a failing look-up.
THEOREM OrdersAreAnswered ==
  ASSUME "probe_error" \notin Faults, OneSteadyWorker
  PROVE  Spec => []OrdersAnswered
  <1>1. AcceptRight /\ RejectRight /\ IInv => AlertMatchesOrder
    <2> SUFFICES ASSUME AcceptRight, RejectRight, IInv, NEW r \in Requests, owner[Coid(r)] = r,
                        alert[r] = "REJECTED"
                 PROVE  order[Coid(r)] = "REJECTED"
      BY DEF AlertMatchesOrder, AcceptRight, Sent
    <2> QED
      BY DEF RejectRight
  <1>2. OneSteadyWorker /\ IInv /\ AInv /\ AcceptRight /\ RejectRight /\ [Next]_vars => RejectRight'
    BY NextReject
  <1>3. Init => RejectRight
    BY InitAccept
  <1>4. OneSteadyWorker
    OBVIOUS
  <1> QED
    BY <1>1, <1>2, <1>3, <1>4, InitAInv, NextAInv, Invariance, AcceptInvariance, NoOrderIsOrphaned, PTL
    DEF Spec, OrdersAnswered

-----------------------------------------------------------------------------
(* The refinement of AlertIntake.                                          *)

Claims == [c \in Coids |-> owner[c]]
Fates == [c \in Coids |-> Fate(c)]

\* A step that only moves orders already submitted is invisible to the promise.
LEMMA SettledStutters ==
  ASSUME TypeOK, TypeOK', UNCHANGED <<owner, submits>>,
         \A c \in Coids : submits[c] = 1 \/ order'[c] = order[c]
  PROVE  UNCHANGED <<Claims, Fates>>
  <1>1. ASSUME NEW c \in Coids PROVE Fates'[c] = Fates[c]
    <2>1. CASE submits[c] = 1
      BY <2>1 DEF Fates, Fate, TypeOK
    <2>2. CASE order'[c] = order[c]
      BY <2>2 DEF Fates, Fate, TypeOK
    <2> QED
      BY <2>1, <2>2
  <1> QED
    BY <1>1 DEF Claims, Fates

LEMMA IntakeStep ==
  ASSUME IInv, IInv', [Next]_vars
  PROVE  [Intake!Next]_<<Claims, Fates>>
  <1> USE DEF rowVars, viewVars, taskVars, workVars, orderVars, brokerVars, switchVars
  <1>0. TypeOK /\ TypeOK' /\ WorkerHolds /\ SendRight
    BY DEF IInv
  <1>c. \A w \in Workers : worker[w] # "idle" => holds[w] \in Requests /\ Coid(holds[w]) \in Coids
    BY <1>0, CoidType DEF WorkerHolds
  <1>1. CASE UNCHANGED <<order, owner, submits>>
    BY <1>0, <1>1, SettledStutters
  <1>2. ASSUME NEW w \in Workers, CreateOrder(w), order[Coid(holds[w])] = "none"
        PROVE  Intake!Next
    <2>0. PICK r \in Requests, c \in Coids : r = holds[w] /\ c = Coid(holds[w])
      BY <1>2, <1>c DEF CreateOrder
    <2>1. /\ order' = [order EXCEPT ![c] = "PENDING_SUBMIT"]
          /\ owner' = [owner EXCEPT ![c] = r]
          /\ order[c] = "none"
          /\ UNCHANGED submits
      BY <1>2, <2>0 DEF CreateOrder, Owns
    <2>2. Claims[c] = None /\ Claims' = [Claims EXCEPT ![c] = r]
      BY <1>0, <2>0, <2>1 DEF Claims, SendRight, TypeOK
    <2>3. ASSUME NEW d \in Coids PROVE Fates'[d] = Fates[d]
      BY <1>0, <2>0, <2>1 DEF Fates, Fate, SendRight, TypeOK
    <2>4. Fates' = Fates
      BY <2>3 DEF Fates
    <2>5. Intake!Claim(c, r)
      BY <2>2, <2>4 DEF Intake!Claim, Claims, Fates
    <2> QED
      BY <2>0, <2>5 DEF Intake!Next
  <1>3. ASSUME NEW w \in Workers, RefuseOrder(w) \/ Submit(w)
        PROVE  Intake!Next
    <2>0. PICK c \in Coids : c = Coid(holds[w]) /\ AboutToSend(w, c)
      BY <1>3, <1>c DEF RefuseOrder, Submit, AboutToSend
    <2>1. submits[c] = 0 /\ order[c] = "PENDING_SUBMIT" /\ owner[c] # None
      BY <1>0, <2>0, ConstantsAssumption DEF SendRight
    <2>2. UNCHANGED owner
      BY <1>3 DEF RefuseOrder, Submit
    <2>3. \/ order' = [order EXCEPT ![c] = "REJECTED"] /\ UNCHANGED submits
          \/ submits' = [submits EXCEPT ![c] = submits[c] + 1] /\ UNCHANGED order
      BY <1>3, <2>0 DEF RefuseOrder, Submit
    <2>4. ASSUME NEW d \in Coids, d # c PROVE Fates'[d] = Fates[d]
      BY <1>0, <2>0, <2>3, <2>4 DEF Fates, Fate, TypeOK
    <2>5. Fates[c] = "open" /\ Claims[c] # None /\ Claims' = Claims
      BY <2>0, <2>1, <2>2 DEF Fates, Fate, Claims
    <2>6. PICK outcome \in {"sent", "dropped"} : Fates'[c] = outcome
      <3>1. Fates'[c] = Fate(c)'
        BY <2>0 DEF Fates, Fate
      <3>2. CASE order' = [order EXCEPT ![c] = "REJECTED"] /\ UNCHANGED submits
        BY <1>0, <2>0, <2>1, <3>1, <3>2 DEF Fate, TypeOK
      <3>3. CASE submits' = [submits EXCEPT ![c] = submits[c] + 1] /\ UNCHANGED order
        BY <1>0, <2>0, <2>1, <3>1, <3>3 DEF Fate, TypeOK
      <3> QED
        BY <2>3, <3>2, <3>3
    <2>7. Fates' = [Fates EXCEPT ![c] = outcome]
      BY <2>0, <2>4, <2>6 DEF Fates
    <2>8. Intake!Settle(c, outcome)
      BY <2>5, <2>7 DEF Intake!Settle, Claims, Fates
    <2> QED
      BY <2>0, <2>8 DEF Intake!Next
  <1>4. ASSUME NEW c \in Coids, submits[c] = 1,
               UNCHANGED <<owner, submits>>, \A d \in Coids \ {c} : order'[d] = order[d]
        PROVE  UNCHANGED <<Claims, Fates>>
    <2> \A d \in Coids : submits[d] = 1 \/ order'[d] = order[d]
      BY <1>4
    <2> QED
      BY <1>0, <1>4, SettledStutters
  <1>5. ASSUME NEW w \in Workers,
               BrokerRejects(w) \/ SubmitAmbiguous(w) \/ SubmitTimesOut(w) \/ RecordAck(w)
        PROVE  UNCHANGED <<Claims, Fates>>
    <2> DEFINE c == Coid(holds[w])
    <2>0. c \in Coids /\ HasSent(w, c)
      BY <1>5, <1>c
      DEF BrokerRejects, SubmitAmbiguous, AmbiguousGoesTo, SubmitTimesOut, RecordAck, HasSent
    <2>1. submits[c] = 1
      BY <1>0, <2>0 DEF SendRight
    <2>2. UNCHANGED <<owner, submits>> /\ \A d \in Coids \ {c} : order'[d] = order[d]
      BY <1>0, <1>5 DEF TypeOK, BrokerRejects, SubmitAmbiguous, AmbiguousGoesTo, SubmitTimesOut, RecordAck
    <2> QED
      BY <1>4, <2>0, <2>1, <2>2
  <1>6. ASSUME NEW c \in Coids, Resolve(c) PROVE UNCHANGED <<Claims, Fates>>
    BY <1>0, <1>4, <1>6 DEF Resolve, SendRight, TypeOK
  <1>7. ASSUME NEW r \in Requests, ViewStep(r) \/ ViewDies(r)
        PROVE  UNCHANGED <<order, owner, submits>>
    BY <1>7 DEF ViewStep, ViewRefuses, ViewChecksCache, ViewAnchors, ViewHalts, ViewDispatches,
                ViewAnswers, ViewDies
  <1>8. ASSUME NEW w \in Workers,
               \/ \E r \in Requests : Take(w, r)
               \/ GateRejects(w) \/ GatePasses(w) \/ Acknowledged(w) \/ CloseAlert(w) \/ WorkerDies(w)
               \/ CreateOrder(w) /\ order[Coid(holds[w])] # "none"
        PROVE  UNCHANGED <<order, owner, submits>>
    BY <1>8 DEF Take, GateRejects, GatePasses, Acknowledged, CloseAlert, WorkerDies, CreateOrder
  <1>9. CASE \/ \E k \in Keys : CacheEvicts(k)
             \/ \E S \in SUBSET Stranded : Redispatch(S)
             \/ PauseStrategy \/ HaltTrading \/ ReleaseHalt
             \/ UNCHANGED vars
    BY <1>1, <1>9 DEF CacheEvicts, Redispatch, PauseStrategy, HaltTrading, ReleaseHalt, vars
  <1>10. ASSUME NEW w \in Workers, WorkerStep(w) \/ WorkerDies(w)
         PROVE  [Intake!Next]_<<Claims, Fates>>
    BY <1>1, <1>2, <1>3, <1>5, <1>8, <1>10 DEF WorkerStep
  <1> QED
    BY <1>1, <1>6, <1>7, <1>9, <1>10 DEF Next

\* The pipeline keeps the intake promise (tasks.py:202-219, 386): one owner
\* and one outcome per client order id, nothing sent after it was refused.
THEOREM KeepsIntakePromise == Spec => ImplementsIntake
  <1>1. Init => Intake!Init
    BY DEF Init, Intake!Init, Fate
  <1>2. IInv /\ IInv' /\ [Next]_vars => [Intake!Next]_<<Claims, Fates>>
    BY IntakeStep
  <1> QED
    BY <1>1, <1>2, Invariance, PTL DEF Spec, ImplementsIntake, Intake!Spec, Claims, Fates

=============================================================================
