--------------------------- MODULE AlertPipeline ---------------------------
(***************************************************************************)
(* From webhook to broker: apps/webhooks/views.py (WebhookView.post),      *)
(* apps/webhooks/tasks.py (process_alert, redispatch_stranded_alerts), the *)
(* submit of apps/brokers/alpaca/adapter.py and resolve_needs_reconcile of *)
(* apps/orders/services.py.                                                *)
(*                                                                         *)
(* One user and one strategy.  A REQUEST is one HTTP post of an alert; its *)
(* body carries a raw idempotency key or none.  Web handlers, workers, the *)
(* beat and the broker interleave at every database commit, queue          *)
(* operation and broker call; a handler or a worker may die between two.   *)
(***************************************************************************)
EXTENDS Naturals, FiniteSets

CONSTANTS
  Requests,         \* HTTP posts of alerts; each names the row it creates
  Keys,             \* raw values of the body's idempotency_key
  NoKey,            \* the body has no key; the row's column is ''
  None,             \* no request
  KeyOf,            \* [Requests -> Keys \cup {NoKey}]
  Truncated,        \* [Keys -> Keys]: str(key)[:128], the column of the row
  Stripped,         \* [Keys -> Keys \cup {NoKey}]: str(key).strip(), hashed
                    \*   into the client_order_id; blank keys fall back to the id
  Workers,          \* Celery workers consuming the default queue
  Faults,           \* what the network, the broker and the SDK may do wrong
  MaxQueued,        \* bound: messages of one alert in the queue at a time
  MaxViewCrashes,   \* bound: web handlers that die half way
  MaxWorkerCrashes  \* bound: workers that die half way

FaultKinds == {"server_error",  \* the submit answers 429 or 5xx
               "timeout",       \* the submit gets no HTTP status at all
               "probe_error",   \* get_order_by_client_id fails as well
               "unexpected"}    \* an exception that is not a BrokerError

ASSUME ConstantsAssumption ==
  /\ None \notin Requests
  /\ NoKey \notin Keys
  /\ Keys \cap Requests = {}
  /\ KeyOf \in [Requests -> Keys \cup {NoKey}]
  /\ Truncated \in [Keys -> Keys]
  /\ Stripped \in [Keys -> Keys \cup {NoKey}]
  /\ Faults \subseteq FaultKinds
  /\ MaxQueued \in Nat /\ MaxViewCrashes \in Nat /\ MaxWorkerCrashes \in Nat

\* The row's idempotency_key, and the client_order_id.  Hashing is injective
\* here: a client order id is the stripped key, or the request without one.
Anchor(r) == IF KeyOf[r] = NoKey THEN NoKey ELSE Truncated[KeyOf[r]]
Coid(r) ==
  IF KeyOf[r] = NoKey \/ Stripped[KeyOf[r]] = NoKey THEN r ELSE Stripped[KeyOf[r]]
Coids == Keys \cup Requests

VARIABLES
  alert,     \* webhooks_alert_message: the status of each request's row, "none" = no row
  rowKey,    \* and the idempotency_key column of that row
  cached,    \* idempotency keys in the cache (fast path)
  view,      \* where the web handler of each request is
  viewSaw,   \* "paused" as that handler read it with the strategy
  answer,    \* what the caller was told
  queue,     \* messages in the Celery queue: [Requests -> 0..MaxQueued]
  worker,    \* where each worker is
  holds,     \* the alert it works on, or None
  workerSaw, \* "paused" as it read it with the strategy
  order,     \* orders_order: the status under each client order id, "none" = no row
  owner,     \* the alert that created that row
  landed,    \* client order ids the broker holds an order for
  submits,   \* history: submit_order calls per client order id
  paused,    \* the strategy is disabled or soft-deleted
  blocked,   \* is_blocked: some active halt covers the strategy
  leaked,    \* history: submits by each worker since blocked last became TRUE
  crashes    \* deaths so far of web handlers ("view") and of workers ("worker")

vars == <<alert, rowKey, cached, view, viewSaw, answer, queue, worker, holds, workerSaw,
          order, owner, landed, submits, paused, blocked, leaked, crashes>>
rowVars == <<alert, rowKey>>
viewVars == <<cached, view, viewSaw, answer>>
taskVars == <<holds, workerSaw>>
workVars == <<queue, worker, taskVars>>
orderVars == <<order, owner>>
brokerVars == <<landed, submits, leaked>>
switchVars == <<paused, blocked>>

AlertStatus == {"none", "RECEIVED", "ACCEPTED", "REJECTED", "AUDIT"}
OrderStatus == {"none", "PENDING_SUBMIT", "SUBMITTED", "NEEDS_RECONCILE", "REJECTED"}
ViewPC == {"new", "missed", "anchored", "dispatched", "refused", "done", "lost"}
Answers == {"none", "unauthorized", "duplicate", "rejected", "accepted"}
WorkerPC == {"idle", "gate", "create", "check", "posted", "record", "accept", "reject"}

TypeOK ==
  /\ alert \in [Requests -> AlertStatus] /\ rowKey \in [Requests -> Keys \cup {NoKey}]
  /\ cached \subseteq Keys
  /\ view \in [Requests -> ViewPC] /\ viewSaw \in [Requests -> BOOLEAN]
  /\ answer \in [Requests -> Answers]
  /\ queue \in [Requests -> 0..MaxQueued]
  /\ worker \in [Workers -> WorkerPC] /\ holds \in [Workers -> Requests \cup {None}]
  /\ workerSaw \in [Workers -> BOOLEAN]
  /\ order \in [Coids -> OrderStatus] /\ owner \in [Coids -> Requests \cup {None}]
  /\ landed \subseteq Coids
  /\ submits \in [Coids -> Nat]
  /\ paused \in BOOLEAN /\ blocked \in BOOLEAN
  /\ leaked \in [Workers -> Nat]
  /\ crashes \in [{"view", "worker"} -> Nat]
  /\ crashes["view"] <= MaxViewCrashes /\ crashes["worker"] <= MaxWorkerCrashes

Init ==
  /\ alert = [r \in Requests |-> "none"] /\ rowKey = [r \in Requests |-> NoKey]
  /\ cached = {}
  /\ view = [r \in Requests |-> "new"] /\ viewSaw = [r \in Requests |-> FALSE]
  /\ answer = [r \in Requests |-> "none"]
  /\ queue = [r \in Requests |-> 0]
  /\ worker = [w \in Workers |-> "idle"] /\ holds = [w \in Workers |-> None]
  /\ workerSaw = [w \in Workers |-> FALSE]
  /\ order = [c \in Coids |-> "none"] /\ owner = [c \in Coids |-> None]
  /\ landed = {}
  /\ submits = [c \in Coids |-> 0]
  /\ paused = FALSE /\ blocked = FALSE
  /\ leaked = [w \in Workers |-> 0]
  /\ crashes = [p \in {"view", "worker"} |-> 0]

-----------------------------------------------------------------------------
(* The web handler.                                                        *)

\* The partial unique constraint on (user, idempotency_key).
KeyTaken(k) == k # NoKey /\ \E q \in Requests : alert[q] # "none" /\ rowKey[q] = k

\* Idempotency keys whose cached entry still finds its row.
FastHit(k) == k \in cached /\ \E q \in Requests : alert[q] # "none" /\ rowKey[q] = k

\* INSERT of the row of a request.
Insert(r, status, k) ==
  /\ alert' = [alert EXCEPT ![r] = status]
  /\ rowKey' = [rowKey EXCEPT ![r] = k]

\* The row of a request that is not to be processed keeps no key.
AuditRow(r) == Insert(r, "AUDIT", NoKey)

\* Bad signature (throttled in its own bucket or audited) or bad schema
\* (audited); an unknown strategy or a full "ok" bucket leaves no row.
ViewRefuses(r) ==
  /\ view[r] = "new"
  /\ AuditRow(r) \/ UNCHANGED rowVars
  /\ view' = [view EXCEPT ![r] = "done"]
  /\ answer' = [answer EXCEPT ![r] = "unauthorized"]
  /\ UNCHANGED <<cached, viewSaw, workVars, orderVars, brokerVars, switchVars, crashes>>

\* A genuine alert: the strategy comes with the configuration row, the cache
\* and then the anchor are consulted.
ViewChecksCache(r) ==
  /\ view[r] = "new"
  /\ IF FastHit(Anchor(r))
     THEN /\ view' = [view EXCEPT ![r] = "done"]
          /\ answer' = [answer EXCEPT ![r] = "duplicate"]
          /\ UNCHANGED viewSaw
     ELSE /\ view' = [view EXCEPT ![r] = "missed"]
          /\ viewSaw' = [viewSaw EXCEPT ![r] = paused]
          /\ UNCHANGED answer
  /\ UNCHANGED <<rowVars, cached, workVars, orderVars, brokerVars, switchVars, crashes>>

\* INSERT of the anchor row; IntegrityError means somebody else holds the key.
ViewAnchors(r) ==
  /\ view[r] = "missed"
  /\ IF KeyTaken(Anchor(r))
     THEN /\ view' = [view EXCEPT ![r] = "done"]
          /\ answer' = [answer EXCEPT ![r] = "duplicate"]
          /\ UNCHANGED rowVars
     ELSE /\ Insert(r, "RECEIVED", Anchor(r))
          /\ view' = [view EXCEPT ![r] = "anchored"]
          /\ UNCHANGED answer
  /\ UNCHANGED <<cached, viewSaw, workVars, orderVars, brokerVars, switchVars, crashes>>

\* Paused strategy or active halt: the row is rejected where it stands.
ViewHaltsWithoutSave(r) ==  \* mutant: the rejection is answered, not stored
  /\ view[r] = "anchored"
  /\ viewSaw[r] \/ blocked
  /\ view' = [view EXCEPT ![r] = "refused"]
  /\ UNCHANGED <<rowVars, cached, viewSaw, answer, workVars, orderVars, brokerVars, switchVars, crashes>>
ViewHalts(r) ==
  /\ view[r] = "anchored"
  /\ viewSaw[r] \/ blocked
  /\ alert' = [alert EXCEPT ![r] = "REJECTED"]
  /\ view' = [view EXCEPT ![r] = "refused"]
  /\ UNCHANGED <<rowKey, cached, viewSaw, answer, workVars, orderVars, brokerVars, switchVars, crashes>>

\* process_alert.delay
ViewDispatches(r) ==
  /\ view[r] = "anchored"
  /\ ~viewSaw[r] /\ ~blocked
  /\ queue[r] < MaxQueued
  /\ queue' = [queue EXCEPT ![r] = @ + 1]
  /\ view' = [view EXCEPT ![r] = "dispatched"]
  /\ UNCHANGED <<rowVars, cached, viewSaw, answer, worker, taskVars, orderVars, brokerVars, switchVars, crashes>>

\* The key is cached only now, after the row is committed.
ViewAnswers(r) ==
  /\ view[r] \in {"refused", "dispatched"}
  /\ cached' = IF Anchor(r) = NoKey THEN cached ELSE cached \cup {Anchor(r)}
  /\ answer' = [answer EXCEPT ![r] =
                  IF view[r] = "refused" THEN "rejected" ELSE "accepted"]
  /\ view' = [view EXCEPT ![r] = "done"]
  /\ UNCHANGED <<rowVars, viewSaw, workVars, orderVars, brokerVars, switchVars, crashes>>

\* The process dies, or the enqueue raises: the caller gets no answer.
ViewDies(r) ==
  /\ view[r] \in {"missed", "anchored", "dispatched", "refused"}
  /\ crashes["view"] < MaxViewCrashes
  /\ crashes' = [crashes EXCEPT !["view"] = @ + 1]
  /\ view' = [view EXCEPT ![r] = "lost"]
  /\ UNCHANGED <<rowVars, cached, viewSaw, answer, workVars, orderVars, brokerVars, switchVars>>

\* The entry expires, or the cache is flushed.
CacheEvicts(k) ==
  /\ k \in cached
  /\ cached' = cached \ {k}
  /\ UNCHANGED <<rowVars, view, viewSaw, answer, workVars, orderVars, brokerVars, switchVars, crashes>>

-----------------------------------------------------------------------------
(* The beat: every row still RECEIVED after 120 s goes back to the queue.  *)
(* A handler reaches its gate within that age (assumption, see README).    *)

StrandedAnswered ==  \* mutant: forgets the rows whose handler died
  {r \in Requests : alert[r] = "RECEIVED" /\ view[r] = "done"}
Stranded == {r \in Requests : alert[r] = "RECEIVED"
                              /\ view[r] \notin {"missed", "anchored"}}

Redispatch(S) ==
  /\ S # {}
  /\ \A r \in S : queue[r] < MaxQueued
  /\ queue' = [r \in Requests |-> IF r \in S THEN queue[r] + 1 ELSE queue[r]]
  /\ UNCHANGED <<rowVars, viewVars, worker, taskVars, orderVars, brokerVars, switchVars, crashes>>

-----------------------------------------------------------------------------
(* process_alert.                                                          *)

Step(w, pc) == worker' = [worker EXCEPT ![w] = pc] /\ UNCHANGED taskVars
Done(w) ==
  /\ worker' = [worker EXCEPT ![w] = "idle"]
  /\ holds' = [holds EXCEPT ![w] = None]
  /\ workerSaw' = [workerSaw EXCEPT ![w] = FALSE]

\* The message is acknowledged on receipt; the row and its strategy are read.
Take(w, r) ==
  /\ worker[w] = "idle"
  /\ queue[r] > 0
  /\ queue' = [queue EXCEPT ![r] = @ - 1]
  /\ IF alert[r] = "RECEIVED"
     THEN /\ worker' = [worker EXCEPT ![w] = "gate"]
          /\ holds' = [holds EXCEPT ![w] = r]
          /\ workerSaw' = [workerSaw EXCEPT ![w] = paused]
     ELSE UNCHANGED <<worker, taskVars>>
  /\ UNCHANGED <<rowVars, viewVars, orderVars, brokerVars, switchVars, crashes>>

\* Paused strategy, no usable broker account, or an active halt: no order.
GateRejects(w) ==
  /\ worker[w] = "gate"
  /\ alert' = [alert EXCEPT ![holds[w]] = "REJECTED"]
  /\ Done(w)
  /\ UNCHANGED <<rowKey, viewVars, queue, orderVars, brokerVars, switchVars, crashes>>

GatePassesUnchecked(w) ==  \* mutant: no second look at the kill switch
  /\ worker[w] = "gate"
  /\ ~workerSaw[w]
  /\ Step(w, "create")
  /\ UNCHANGED <<rowVars, viewVars, queue, orderVars, brokerVars, switchVars, crashes>>
GatePasses(w) ==
  /\ worker[w] = "gate"
  /\ ~workerSaw[w] /\ ~blocked
  /\ Step(w, "create")
  /\ UNCHANGED <<rowVars, viewVars, queue, orderVars, brokerVars, switchVars, crashes>>

\* Order.objects.get_or_create(client_order_id=...): the loser of the race, or
\* of an earlier run, leaves the alert as it found it.
Owns(c, r) ==
  /\ order' = [order EXCEPT ![c] = "PENDING_SUBMIT"]
  /\ owner' = [owner EXCEPT ![c] = r]
CreateOrderAnyway(w) ==  \* mutant: goes on whether or not the row was new
  LET r == holds[w]  c == Coid(r) IN
  /\ worker[w] = "create"
  /\ Owns(c, r)
  /\ Step(w, "check")
  /\ UNCHANGED <<rowVars, viewVars, queue, brokerVars, switchVars, crashes>>
CreateOrder(w) ==
  LET r == holds[w]  c == Coid(r) IN
  /\ worker[w] = "create"
  /\ IF order[c] = "none"
     THEN /\ Owns(c, r)
          /\ Step(w, "check")
     ELSE /\ Done(w)
          /\ UNCHANGED orderVars
  /\ UNCHANGED <<rowVars, viewVars, queue, brokerVars, switchVars, crashes>>

\* blocked becomes TRUE: the leak count starts again.
Halts == /\ blocked' = TRUE
         /\ leaked' = IF blocked THEN leaked ELSE [w \in Workers |-> 0]

\* Validation, build_adapter or sizing refuses: the order is REJECTED first,
\* the alert in a second transaction.  A sizing HARD_STOP trips a halt too.
RefuseOrder(w) ==
  LET c == Coid(holds[w]) IN
  /\ worker[w] = "check"
  /\ order' = [order EXCEPT ![c] = "REJECTED"]
  /\ Step(w, "reject")
  /\ \/ Halts
     \/ UNCHANGED <<blocked, leaked>>
  /\ UNCHANGED <<rowVars, viewVars, queue, owner, landed, submits, paused, crashes>>

\* submit_order leaves the process, once; the broker takes the order or not.
Submit(w) ==
  LET c == Coid(holds[w]) IN
  /\ worker[w] = "check"
  /\ submits' = [submits EXCEPT ![c] = @ + 1]
  /\ leaked' = IF blocked THEN [leaked EXCEPT ![w] = @ + 1] ELSE leaked
  /\ \/ landed' = landed \cup {c}
     \/ UNCHANGED landed
  /\ Step(w, "posted")
  /\ UNCHANGED <<rowVars, viewVars, queue, orderVars, switchVars, crashes>>

\* What the look-up by client order id tells: a failed look-up reads as "not
\* there" (_lookup_by_client_id returns None on every BrokerError).
ProbeMisses(c) == c \notin landed \/ "probe_error" \in Faults

\* The response, or the look-up after a failed response, shows the order.
Acknowledged(w) ==
  /\ worker[w] = "posted"
  /\ Coid(holds[w]) \in landed
  /\ Step(w, "record")
  /\ UNCHANGED <<rowVars, viewVars, queue, orderVars, brokerVars, switchVars, crashes>>

\* A definite 4xx, and the look-up finds nothing.
BrokerRejects(w) ==
  LET c == Coid(holds[w]) IN
  /\ worker[w] = "posted"
  /\ c \notin landed
  /\ order' = [order EXCEPT ![c] = "REJECTED"]
  /\ Step(w, "reject")
  /\ UNCHANGED <<rowVars, viewVars, queue, owner, brokerVars, switchVars, crashes>>

\* 429/5xx without a positive look-up, or an exception nobody foresaw.
AmbiguousGoesTo(w, pc, status) ==
  LET c == Coid(holds[w]) IN
  /\ worker[w] = "posted"
  /\ \/ "server_error" \in Faults /\ ProbeMisses(c)
     \/ "unexpected" \in Faults
  /\ order' = [order EXCEPT ![c] = status]
  /\ Step(w, pc)
  /\ UNCHANGED <<rowVars, viewVars, queue, owner, brokerVars, switchVars, crashes>>
SubmitRetried(w) == AmbiguousGoesTo(w, "check", "PENDING_SUBMIT")  \* mutant
AmbiguousRejected(w) == AmbiguousGoesTo(w, "reject", "REJECTED")   \* mutant
SubmitAmbiguous(w) == AmbiguousGoesTo(w, "accept", "NEEDS_RECONCILE")

\* No HTTP status: map_api_error makes it UNKNOWN and not retryable, so a
\* look-up that shows nothing ends in _reject.
SubmitTimesOut(w) ==
  LET c == Coid(holds[w]) IN
  /\ worker[w] = "posted"
  /\ "timeout" \in Faults /\ ProbeMisses(c)
  /\ order' = [order EXCEPT ![c] = "REJECTED"]
  /\ Step(w, "reject")
  /\ UNCHANGED <<rowVars, viewVars, queue, owner, brokerVars, switchVars, crashes>>

\* The broker id is stored; PENDING_SUBMIT, and only it, becomes SUBMITTED.
RecordAck(w) ==
  LET c == Coid(holds[w]) IN
  /\ worker[w] = "record"
  /\ order' = IF order[c] = "PENDING_SUBMIT"
              THEN [order EXCEPT ![c] = "SUBMITTED"] ELSE order
  /\ Step(w, "accept")
  /\ UNCHANGED <<rowVars, viewVars, queue, owner, brokerVars, switchVars, crashes>>

\* alert.save, the last write of every path past CreateOrder.
CloseAlert(w) ==
  /\ worker[w] \in {"accept", "reject"}
  /\ alert' = [alert EXCEPT ![holds[w]] =
                 IF worker[w] = "accept" THEN "ACCEPTED" ELSE "REJECTED"]
  /\ Done(w)
  /\ UNCHANGED <<rowKey, viewVars, queue, orderVars, brokerVars, switchVars, crashes>>

\* A killed worker: early acknowledgement, so the message is gone.
WorkerDies(w) ==
  /\ worker[w] # "idle"
  /\ crashes["worker"] < MaxWorkerCrashes
  /\ crashes' = [crashes EXCEPT !["worker"] = @ + 1]
  /\ Done(w)
  /\ UNCHANGED <<rowVars, viewVars, queue, orderVars, brokerVars, switchVars>>

-----------------------------------------------------------------------------
(* The reconcile sweep and the operator.                                   *)

\* resolve_needs_reconcile for one order: found, it takes the broker's status;
\* not found (or the look-up failed), it is REJECTED.
Resolve(c) ==
  /\ order[c] = "NEEDS_RECONCILE"
  /\ \/ c \in landed /\ order' = [order EXCEPT ![c] = "SUBMITTED"]
     \/ ProbeMisses(c) /\ order' = [order EXCEPT ![c] = "REJECTED"]
  /\ UNCHANGED <<rowVars, viewVars, workVars, owner, brokerVars, switchVars, crashes>>

PauseStrategy ==
  /\ paused' \in BOOLEAN \ {paused}
  /\ UNCHANGED <<rowVars, viewVars, workVars, orderVars, brokerVars, blocked, crashes>>

HaltTrading ==
  /\ ~blocked
  /\ Halts
  /\ UNCHANGED <<rowVars, viewVars, workVars, orderVars, landed, submits, paused, crashes>>

ReleaseHalt ==
  /\ blocked
  /\ blocked' = FALSE
  /\ UNCHANGED <<rowVars, viewVars, workVars, orderVars, brokerVars, paused, crashes>>

-----------------------------------------------------------------------------
ViewStep(r) ==
  \/ ViewRefuses(r) \/ ViewChecksCache(r) \/ ViewAnchors(r) \/ ViewHalts(r)
  \/ ViewDispatches(r) \/ ViewAnswers(r)

WorkerStep(w) ==
  \/ \E r \in Requests : Take(w, r)
  \/ GateRejects(w) \/ GatePasses(w) \/ CreateOrder(w) \/ RefuseOrder(w)
  \/ Submit(w) \/ Acknowledged(w) \/ BrokerRejects(w) \/ SubmitAmbiguous(w)
  \/ SubmitTimesOut(w) \/ RecordAck(w) \/ CloseAlert(w)

Next ==
  \/ \E r \in Requests : ViewStep(r) \/ ViewDies(r)
  \/ \E k \in Keys : CacheEvicts(k)
  \/ \E S \in SUBSET Stranded : Redispatch(S)
  \/ \E w \in Workers : WorkerStep(w) \/ WorkerDies(w)
  \/ \E c \in Coids : Resolve(c)
  \/ PauseStrategy \/ HaltTrading \/ ReleaseHalt

Spec == Init /\ [][Next]_vars

\* A started handler or task runs to its end; the queue is served in order of
\* arrival; the beat and the sweep come round again.  Nothing obliges a caller
\* to post, an operator to halt or release, a cache to evict.
Fairness ==
  /\ \A r \in Requests : WF_vars(view[r] # "new" /\ ViewStep(r))
  /\ \A r \in Requests : WF_vars(\E S \in SUBSET Stranded : r \in S /\ Redispatch(S))
  /\ \A w \in Workers : WF_vars(WorkerStep(w) /\ worker[w] # "idle")
  /\ \A r \in Requests : SF_vars(\E w \in Workers : Take(w, r))
  /\ \A c \in Coids : WF_vars(Resolve(c))

FairSpec == Spec /\ Fairness

-----------------------------------------------------------------------------
(* What must hold.                                                         *)

\* The submit of one client order id leaves the process at most once, whatever
\* retries, redispatches, parallel workers and crashes happen (get_or_create
\* on client_order_id, tasks.py:196-219; "re-dispatch is safe", tasks.py:54).
AtMostOneSubmit == \A c \in Coids : submits[c] <= 1

\* Nobody is told "duplicate" unless another, genuine alert with the same key
\* is on record: refused posts hold no key, and the cache never answers for a
\* row that was not committed (views.py:213-219).
DuplicateIsAnchored ==
  \A r \in Requests : answer[r] = "duplicate" =>
    \E q \in Requests \ {r} :
      /\ alert[q] \in {"RECEIVED", "ACCEPTED", "REJECTED"}
      /\ rowKey[q] = Anchor(r)

\* An alert its caller was told was rejected never becomes an order, however
\* the halt is released and the beat runs afterwards (views.py:239-250).
RefusedNeverTrades ==
  \A r \in Requests : answer[r] = "rejected" => owner[Coid(r)] # r

\* From the moment trading is blocked each worker sends at most the one order
\* it had already let through its own check (tasks.py:143-153).
LeakBound == \A w \in Workers : leaked[w] <= 1

\* An order the broker holds is never written off locally: it has a row, and
\* the row is not REJECTED (tasks.py:30-34, 370-373).
NoOrphanOrder == \A c \in landed : order[c] \notin {"none", "REJECTED"}

\* The alert tells the same story as the order it created: accepted means the
\* order was sent and its state recorded, rejected means the order is dead.
AlertMatchesOrder ==
  \A r \in Requests : owner[Coid(r)] = r =>
    /\ alert[r] = "ACCEPTED" =>
         submits[Coid(r)] = 1 /\ order[Coid(r)] # "PENDING_SUBMIT"
    /\ alert[r] = "REJECTED" => order[Coid(r)] = "REJECTED"

\* Every anchored alert is decided in the end, a lost hand-over to the queue
\* included (the redispatch beat, tasks.py:50-70).
AlertsGetDecided ==
  \A r \in Requests : alert[r] = "RECEIVED" ~> alert[r] # "RECEIVED"

\* No order stays between states: neither waiting for its submit nor for the
\* reconcile sweep (tasks.py:30-34, 342; services.py:268-298).
OrdersGetSettled ==
  \A c \in Coids : order[c] \in {"PENDING_SUBMIT", "NEEDS_RECONCILE"}
                    ~> order[c] \in {"SUBMITTED", "REJECTED"}

\* What the runs check of the above: one submit, true answers, orders and alerts
\* that agree with each other and with the broker, and an end for both.
SubmitsOnce    == TypeOK /\ AtMostOneSubmit
AnswersHold    == DuplicateIsAnchored /\ RefusedNeverTrades
OrdersAnswered == NoOrphanOrder /\ AlertMatchesOrder
AlertsSettle   == AlertsGetDecided /\ OrdersGetSettled

\* The pipeline implements the intake promise: the owner of an order is its
\* claim, and submits decide between open, sent and dropped.
Fate(c) ==
  IF submits[c] = 0 THEN IF order[c] = "REJECTED" THEN "dropped" ELSE "open"
                    ELSE IF submits[c] = 1 THEN "sent" ELSE "sent twice"

Intake == INSTANCE AlertIntake WITH
  Intents <- Coids, Owners <- Requests, Nobody <- None,
  claim <- [c \in Coids |-> owner[c]], fate <- [c \in Coids |-> Fate(c)]

\* Claimed once, settled once: at most one alert owns a client order id, and
\* nothing is sent after it was refused (tasks.py:202-219, 386).
ImplementsIntake == Intake!Spec

=============================================================================
