---------------------------- MODULE OrderLedger ----------------------------
(***************************************************************************)
(* What the platform books against what the broker did: orders, fills and  *)
(* the position of one symbol in one account.  ingest_fill_event,          *)
(* reconcile_positions and resolve_needs_reconcile (apps/orders/           *)
(* services.py), reconcile_account (apps/orders/reconcile.py) and the      *)
(* supervisor's catch_up_account and _run_account (apps/brokers/           *)
(* streams.py), with the answers process_alert stores after a submit.      *)
(*                                                                         *)
(* Every order buys; an execution fills one lot, and its number in the     *)
(* order is both its execution id and the order's cumulative quantity.     *)
(***************************************************************************)
EXTENDS Integers

CONSTANTS
  Orders,
  Lots,             \* [Orders -> Nat \ {0}]: quantity ordered
  LookupsFail,      \* BOOLEAN: get_order_by_client_id may fail, which reads as "not there"
  ForeignLots,      \* sizes of trades the platform did not place
  MaxMishaps        \* bound: such trades, events ingested again or lost, failing
                    \*   REST calls and dying processes, all together

ASSUME ConstantsAssumption ==
  /\ Orders # {}
  /\ Lots \in [Orders -> Nat \ {0}]
  /\ LookupsFail \in BOOLEAN
  /\ ForeignLots \subseteq Int
  /\ MaxMishaps \in Nat

VARIABLES
  atBroker,   \* the broker's state of each order, "none" = it never landed
  done,       \* lots executed
  held,       \* the position the broker reports
  worker,     \* where process_alert is with each order
  status,     \* orders_order: status,
  filled,     \*   filled_qty,
  known,      \*   and whether broker_order_id is stored
  fills,      \* orders_fill: <<order, execution>>
  position,   \* orders_position.qty
  drift,      \* an unresolved ReconEvent(DRIFT) exists
  inFlight,   \* events published and not settled yet
  pc,         \* where the account's supervisor thread ("stream") and its turn in
              \*   reconcile_positions_task ("beat") are
  saw,        \* position each of them last fetched
  open,       \* orders the thread saw open at the broker
  todo,       \* orders each of them still has to look at
  asked,      \* order each of them last asked the broker about,
  answer,     \*   and the status it was told, "none" = nothing
  mishaps

vars == <<atBroker, done, held, worker, status, filled, known, fills, position,
          drift, inFlight, pc, saw, open, todo, asked, answer, mishaps>>
brokerVars == <<atBroker, done, held>>
orderVars == <<status, filled, known>>
bookVars == <<fills, position, drift>>
fetchVars == <<saw, open, todo, asked, answer>>

Terminal == {"FILLED", "CANCELLED", "REJECTED"}
Live == {"PENDING_SUBMIT", "SUBMITTED", "PARTIAL"}
Status == Live \cup Terminal \cup {"NEEDS_RECONCILE"}
BrokerState == {"none", "open", "filled", "canceled", "rejected"}
Kinds == {"new", "partial_fill", "fill", "canceled", "rejected"}
Executions == UNION {{o} \X (1..Lots[o]) : o \in Orders}
Events == UNION {{o} \X Kinds \X (0..Lots[o]) : o \in Orders}
Procs == {"stream", "beat"}
PC == {"idle", "fetched", "list", "select", "orders", "update", "pick", "resolve", "settle", "up"}

TypeOK ==
  /\ atBroker \in [Orders -> BrokerState]
  /\ done \in [Orders -> Nat] /\ \A o \in Orders : done[o] <= Lots[o]
  /\ held \in Int
  /\ worker \in [Orders -> {"new", "posted", "over"}]
  /\ status \in [Orders -> Status] /\ filled \in [Orders -> Nat]
  /\ known \in [Orders -> BOOLEAN]
  /\ fills \subseteq Executions /\ position \in Int /\ drift \in BOOLEAN
  /\ inFlight \subseteq Events
  /\ pc \in [Procs -> PC]
  /\ saw \in [Procs -> Int] /\ open \subseteq Orders
  /\ todo \in [Procs -> SUBSET Orders]
  /\ asked \in [Procs -> Orders]
  /\ answer \in [Procs -> Status \cup {"none"}]
  /\ mishaps \in 0..MaxMishaps

Init ==
  /\ atBroker = [o \in Orders |-> "none"] /\ done = [o \in Orders |-> 0]
  /\ held = 0
  /\ worker = [o \in Orders |-> "new"]
  /\ status = [o \in Orders |-> "PENDING_SUBMIT"] /\ filled = [o \in Orders |-> 0]
  /\ known = [o \in Orders |-> FALSE]
  /\ fills = {} /\ position = 0 /\ drift = FALSE
  /\ inFlight = {}
  /\ pc = [p \in Procs |-> "idle"]
  /\ saw = [p \in Procs |-> 0] /\ open = {} /\ todo = [p \in Procs |-> {}]
  /\ asked = [p \in Procs |-> CHOOSE o \in Orders : TRUE]
  /\ answer = [p \in Procs |-> "none"]
  /\ mishaps = 0

Mishap == mishaps < MaxMishaps /\ mishaps' = mishaps + 1

-----------------------------------------------------------------------------
(* The broker.  An event reaches the fill stream only while the thread of  *)
(* the account is connected, and may be dropped even then.                 *)

Emit(e) == \/ /\ inFlight' = IF pc["stream"] = "up" THEN inFlight \cup {e} ELSE inFlight
              /\ UNCHANGED mishaps
           \/ /\ pc["stream"] = "up" /\ Mishap
              /\ UNCHANGED inFlight

Execute(o) ==
  /\ atBroker[o] = "open" /\ done[o] < Lots[o]
  /\ done' = [done EXCEPT ![o] = @ + 1]
  /\ held' = held + 1
  /\ IF done[o] + 1 = Lots[o]
     THEN /\ atBroker' = [atBroker EXCEPT ![o] = "filled"]
          /\ Emit(<<o, "fill", done[o] + 1>>)
     ELSE /\ Emit(<<o, "partial_fill", done[o] + 1>>)
          /\ UNCHANGED atBroker
  /\ UNCHANGED <<worker, orderVars, bookVars, pc, fetchVars>>

\* Canceled, expired or replaced; rejected after it was accepted.
Close(o, how) ==
  /\ atBroker[o] = "open"
  /\ how = "rejected" => done[o] = 0
  /\ atBroker' = [atBroker EXCEPT ![o] = how]
  /\ Emit(<<o, how, done[o]>>)
  /\ UNCHANGED <<done, held, worker, orderVars, bookVars, pc, fetchVars>>

\* A trade the platform has no order for (fill.no_order), flatten_all's included.
ForeignTrade(n) ==
  /\ Mishap
  /\ held' = held + n
  /\ UNCHANGED <<atBroker, done, worker, orderVars, bookVars, inFlight, pc, fetchVars>>

-----------------------------------------------------------------------------
(* process_alert around its submit; AlertPipeline has the whole of it.     *)

Submit(o) ==
  /\ worker[o] = "new"
  /\ worker' = [worker EXCEPT ![o] = "posted"]
  /\ \/ /\ atBroker' = [atBroker EXCEPT ![o] = "open"]
        /\ Emit(<<o, "new", 0>>)
     \/ UNCHANGED <<atBroker, inFlight, mishaps>>
  /\ UNCHANGED <<done, held, orderVars, bookVars, pc, fetchVars>>

SubmitOver(o) ==
  /\ worker[o] = "posted"
  /\ worker' = [worker EXCEPT ![o] = "over"]
  /\ UNCHANGED <<brokerVars, filled, bookVars, inFlight, pc, fetchVars>>

SubmitAcked(o) ==
  /\ SubmitOver(o)
  /\ atBroker[o] # "none"
  /\ known' = [known EXCEPT ![o] = TRUE]
  /\ status' = IF status[o] = "PENDING_SUBMIT" THEN [status EXCEPT ![o] = "SUBMITTED"] ELSE status
  /\ UNCHANGED mishaps

\* _needs_reconcile and _reject write over whatever the status is by now.
SubmitAmbiguous(o) ==
  /\ SubmitOver(o)
  /\ status' = [status EXCEPT ![o] = "NEEDS_RECONCILE"]
  /\ UNCHANGED <<known, mishaps>>

SubmitRejected(o) ==
  /\ SubmitOver(o)
  /\ atBroker[o] = "none"
  /\ status' = [status EXCEPT ![o] = "REJECTED"]
  /\ UNCHANGED <<known, mishaps>>

WorkerDies(o) == SubmitOver(o) /\ Mishap /\ UNCHANGED <<status, known>>

-----------------------------------------------------------------------------
(* ingest_fill_event: one transaction under the lock of the order row.     *)

Mapped(kind) ==
  CASE kind = "new" -> "SUBMITTED"
    [] kind = "partial_fill" -> "PARTIAL"
    [] kind = "canceled" -> "CANCELLED"
    [] kind = "rejected" -> "REJECTED"

\* get_or_create on (account, exec id): only a new row moves the position and
\* the order's running sum.
NewFill(e) == e[2] \in {"fill", "partial_fill"} /\ <<e[1], e[3]>> \notin fills

BookFill(e) ==
  IF NewFill(e) THEN /\ fills' = fills \cup {<<e[1], e[3]>>}
                     /\ position' = position + 1
                ELSE UNCHANGED <<fills, position>>

\* The running sum, raised to the event's cumulative quantity.
LocalSum(e) == IF NewFill(e) THEN filled[e[1]] + 1 ELSE filled[e[1]]
FilledLocally(e) == LocalSum(e)  \* mutant: the cumulative quantity is ignored
FilledAfter(e) == IF e[3] > LocalSum(e) THEN e[3] ELSE LocalSum(e)

StatusAfter(e) ==
  IF e[2] = "fill" THEN IF FilledAfter(e) >= Lots[e[1]] THEN "FILLED" ELSE "PARTIAL"
  ELSE IF status[e[1]] \in Terminal THEN status[e[1]] ELSE Mapped(e[2])

\* Events arrive in any order: a failed ingest is retried after later events
\* went through.  A worker that dies before the XACK makes the same event come
\* again.
Ingest(e) ==
  /\ e \in inFlight
  /\ BookFill(e)
  /\ filled' = [filled EXCEPT ![e[1]] = FilledAfter(e)]
  /\ status' = [status EXCEPT ![e[1]] = StatusAfter(e)]
  /\ known' = [known EXCEPT ![e[1]] = TRUE]
  /\ \/ inFlight' = inFlight \ {e} /\ UNCHANGED mishaps
     \/ Mishap /\ UNCHANGED inFlight
  /\ UNCHANGED <<brokerVars, worker, drift, pc, fetchVars>>

-----------------------------------------------------------------------------
(* Catching up and reconciling: "stream" is _run_account with              *)
(* catch_up_account, "beat" is reconcile_account.                          *)

Goto(p, next) == pc' = [pc EXCEPT ![p] = next]

\* list_positions: the answer is applied in a later step.
FetchPosition(p) ==
  /\ pc[p] = "idle"
  /\ saw' = [saw EXCEPT ![p] = held]
  /\ Goto(p, "fetched")
  /\ UNCHANGED <<brokerVars, worker, orderVars, bookVars, inFlight, open, todo, asked, answer, mishaps>>

\* reconcile_positions: the thread takes the position it fetched.
SnapPosition ==
  /\ pc["stream"] = "fetched"
  /\ position' = saw["stream"]
  /\ saw' = [saw EXCEPT !["stream"] = 0]
  /\ Goto("stream", "list")
  /\ UNCHANGED <<brokerVars, worker, orderVars, fills, drift, inFlight, open, todo, asked, answer, mishaps>>

\* _apply_reconcile: agreement closes the drift, a first drift is recorded, a
\* second one heals.
ReconcileRecordsOnly ==  \* mutant: every drift is a first drift
  LET differs == saw["beat"] # position IN
  /\ pc["beat"] = "fetched"
  /\ drift' = differs
  /\ saw' = [saw EXCEPT !["beat"] = 0]
  /\ Goto("beat", "pick")
  /\ UNCHANGED <<brokerVars, worker, orderVars, fills, position, inFlight, open, todo, asked, answer, mishaps>>
Reconcile ==
  LET differs == saw["beat"] # position IN
  /\ pc["beat"] = "fetched"
  /\ position' = IF differs /\ drift THEN saw["beat"] ELSE position
  /\ drift' = (differs /\ ~drift)
  /\ saw' = [saw EXCEPT !["beat"] = 0]
  /\ Goto("beat", "pick")
  /\ UNCHANGED <<brokerVars, worker, orderVars, fills, inFlight, open, todo, asked, answer, mishaps>>

ListOpen ==
  /\ pc["stream"] = "list"
  /\ open' = {o \in Orders : atBroker[o] = "open"}
  /\ Goto("stream", "select")
  /\ UNCHANGED <<brokerVars, worker, orderVars, bookVars, inFlight, saw, todo, asked, answer, mishaps>>

\* Our live orders that are not among them.
SelectSubmitted ==  \* mutant: partially filled orders are forgotten
  /\ pc["stream"] = "select"
  /\ todo' = [todo EXCEPT !["stream"] =
                {o \in Orders \ open : status[o] \in {"SUBMITTED", "PENDING_SUBMIT"} /\ known[o]}]
  /\ open' = {}
  /\ Goto("stream", "orders")
  /\ UNCHANGED <<brokerVars, worker, orderVars, bookVars, inFlight, saw, asked, answer, mishaps>>
SelectClosed ==
  /\ pc["stream"] = "select"
  /\ todo' = [todo EXCEPT !["stream"] = {o \in Orders \ open : status[o] \in Live /\ known[o]}]
  /\ open' = {}
  /\ Goto("stream", "orders")
  /\ UNCHANGED <<brokerVars, worker, orderVars, bookVars, inFlight, saw, asked, answer, mishaps>>

BrokerStatus(o) ==
  CASE atBroker[o] = "none" -> "none"
    [] atBroker[o] = "open" -> IF done[o] = 0 THEN "SUBMITTED" ELSE "PARTIAL"
    [] atBroker[o] = "filled" -> "FILLED"
    [] atBroker[o] = "canceled" -> "CANCELLED"
    [] atBroker[o] = "rejected" -> "REJECTED"

Asks(p, o, reply) ==
  /\ asked' = [asked EXCEPT ![p] = o]
  /\ answer' = [answer EXCEPT ![p] = reply]
  /\ todo' = [todo EXCEPT ![p] = @ \ {o}]
  /\ UNCHANGED <<brokerVars, worker, orderVars, bookVars, inFlight, saw, open>>

\* get_order_status; a failing call leaves the order as it is.
AskStatus(o) ==
  /\ pc["stream"] = "orders"
  /\ o \in todo["stream"]
  /\ \/ Asks("stream", o, BrokerStatus(o)) /\ UNCHANGED mishaps
     \/ Asks("stream", o, "none") /\ Mishap
  /\ Goto("stream", "update")

\* The closed order takes the broker's status unless ours is terminal by now.
StoreStatus ==
  LET o == asked["stream"] IN
  /\ pc["stream"] = "update"
  /\ status' = IF answer["stream"] = "none" \/ status[o] \in Terminal THEN status
               ELSE [status EXCEPT ![o] = answer["stream"]]
  /\ answer' = [answer EXCEPT !["stream"] = "none"]
  /\ Goto("stream", "orders")
  /\ UNCHANGED <<brokerVars, worker, filled, known, bookVars, inFlight, saw, open, todo, asked, mishaps>>

\* resolve_needs_reconcile selects its orders.
SelectAmbiguous(p) ==
  /\ \/ pc[p] = "pick"
     \/ pc[p] = "orders" /\ todo[p] = {}
  /\ todo' = [todo EXCEPT ![p] = {o \in Orders : status[o] = "NEEDS_RECONCILE"}]
  /\ Goto(p, "resolve")
  /\ UNCHANGED <<brokerVars, worker, orderVars, bookVars, inFlight, saw, open, asked, answer, mishaps>>

AskClientId(p, o) ==
  /\ pc[p] = "resolve"
  /\ o \in todo[p]
  /\ \/ Asks(p, o, BrokerStatus(o))
     \/ LookupsFail /\ Asks(p, o, "none")
  /\ Goto(p, "settle")
  /\ UNCHANGED mishaps

\* "Never saw it" rejects an order still in NEEDS_RECONCILE; a status found is
\* written whatever ours is by now.
Settle(p) ==
  LET o == asked[p] IN
  /\ pc[p] = "settle"
  /\ IF answer[p] = "none"
     THEN /\ status' = IF status[o] = "NEEDS_RECONCILE"
                       THEN [status EXCEPT ![o] = "REJECTED"] ELSE status
          /\ UNCHANGED known
     ELSE /\ status' = [status EXCEPT ![o] = answer[p]]
          /\ known' = [known EXCEPT ![o] = TRUE]
  /\ answer' = [answer EXCEPT ![p] = "none"]
  /\ Goto(p, "resolve")
  /\ UNCHANGED <<brokerVars, worker, filled, bookVars, inFlight, saw, open, todo, asked, mishaps>>

\* The stream is subscribed only now; the beat's turn is over.
Resolved(p) ==
  /\ pc[p] = "resolve" /\ todo[p] = {}
  /\ Goto(p, IF p = "stream" THEN "up" ELSE "idle")
  /\ UNCHANGED <<brokerVars, worker, orderVars, bookVars, inFlight, fetchVars, mishaps>>

\* The connection is lost, a REST call raises, the process dies: after the
\* backoff the thread starts over, the beat comes back later.
Breaks(p) ==
  /\ pc[p] # "idle"
  /\ IF pc[p] = "up" THEN UNCHANGED mishaps ELSE Mishap
  /\ Goto(p, "idle")
  /\ saw' = [saw EXCEPT ![p] = 0]
  /\ open' = IF p = "stream" THEN {} ELSE open
  /\ todo' = [todo EXCEPT ![p] = {}]
  /\ answer' = [answer EXCEPT ![p] = "none"]
  /\ UNCHANGED <<brokerVars, worker, orderVars, bookVars, inFlight, asked>>

-----------------------------------------------------------------------------
BrokerStep ==
  \/ \E o \in Orders : Execute(o) \/ \E how \in {"canceled", "rejected"} : Close(o, how)
  \/ \E n \in ForeignLots : ForeignTrade(n)

WorkerStep(o) ==
  Submit(o) \/ SubmitAcked(o) \/ SubmitAmbiguous(o) \/ SubmitRejected(o)

ProcStep(p) ==
  \/ FetchPosition(p)
  \/ p = "stream" /\ (SnapPosition \/ ListOpen \/ SelectClosed \/ StoreStatus)
  \/ p = "stream" /\ \E o \in Orders : AskStatus(o)
  \/ p = "beat" /\ Reconcile
  \/ SelectAmbiguous(p) \/ Settle(p) \/ Resolved(p)
  \/ \E o \in Orders : AskClientId(p, o)

Next ==
  \/ BrokerStep
  \/ \E o \in Orders : WorkerStep(o) \/ WorkerDies(o)
  \/ \E e \in Events : Ingest(e)
  \/ \E p \in Procs : ProcStep(p) \/ Breaks(p)

Spec == Init /\ [][Next]_vars

\* What has begun goes on and the beat comes round; what was published is
\* ingested.  The broker need not execute, the connection need not break.
Fairness ==
  /\ \A o \in Orders : WF_vars(worker[o] = "posted" /\ WorkerStep(o))
  /\ WF_vars(\E e \in Events : Ingest(e))
  /\ \A p \in Procs : WF_vars(ProcStep(p))

FairSpec == Spec /\ Fairness

-----------------------------------------------------------------------------
(* What must hold.                                                         *)

\* "A dropped intermediate fill still reaches FILLED on the final event"
\* (services.py:189-193): once the last execution is booked the order counts as
\* complete, whichever events before it were lost.
FinalFillCompletes == \A o \in Orders : <<o, Lots[o]>> \in fills => filled[o] >= Lots[o]

\* A terminal status is never a guess: it is the broker's, or the order never
\* landed ("never assume FILLED", streams.py:76-80; services.py:286-290).
TerminalIsTrue ==
  \A o \in Orders :
    /\ status[o] = "FILLED" => atBroker[o] = "filled"
    /\ status[o] = "CANCELLED" => atBroker[o] = "canceled"
    /\ status[o] = "REJECTED" => atBroker[o] \in {"none", "rejected"}

\* When the broker comes to rest the position ends up the broker's, whatever
\* was lost, double-counted or traded elsewhere (reconcile.py:3-8, ADR-051).
PositionConverges == <>[](position = held)

\* An order whose submit was ambiguous is resolved (services.py:268-298).
AmbiguityEnds == \A o \in Orders : status[o] = "NEEDS_RECONCILE" ~> status[o] # "NEEDS_RECONCILE"

\* As long as the stream keeps reconnecting, a closed order whose broker id we
\* know ends up with the broker's status, lost events and late writers
\* notwithstanding (streams.py:61-85).
Agrees(o) == known[o] /\ atBroker[o] \in {"filled", "canceled", "rejected"} => status[o] = BrokerStatus(o)
OrdersCaughtUp == ([]<>(pc["stream"] = "idle")) => \A o \in Orders : <>[]Agrees(o)

\* What the ledger shows of an order is true, and nothing stays ambiguous or behind.
LedgerTrue   == TypeOK /\ FinalFillCompletes /\ TerminalIsTrue
OrdersSettle == AmbiguityEnds /\ OrdersCaughtUp

=============================================================================
