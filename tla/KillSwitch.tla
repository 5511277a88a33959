----------------------------- MODULE KillSwitch -----------------------------
(***************************************************************************)
(* The rows of brokers_trading_halt for one user: trigger_halt,            *)
(* release_halt, is_blocked, flatten_user, check_daily_loss and the sweep  *)
(* of expired L2 halts (apps/risk/killswitch.py), the Celery task that     *)
(* runs the last two (apps/risk/tasks.py), and their callers: the          *)
(* kill-switch views, process_alert and a HARD_STOP of the sizing.         *)
(*                                                                         *)
(* Levels: L0 a strategy, L1 the user, L2 the daily loss (the only         *)
(* automatic one), L3 the platform.                                        *)
(***************************************************************************)
EXTENDS Naturals, Sequences, FiniteSets

CONSTANTS
  Callers,     \* web requests that engage or release a halt
  Workers,     \* processes that run process_alert
  Watchers,    \* processes that run daily_loss_watcher
  CallerLevels,\* levels the requests are about, of L0, L1 and L3
  Overruns,    \* BOOLEAN: a run of the watcher may outlast its lock (45 s)
  MaxHalts,    \* bound: when requests stop engaging, rows that are not L2
  MaxDay,      \* bound: trading days
  MaxMishaps   \* bound: deaths, rollbacks, evictions and broker errors

ASSUME ConstantsAssumption ==
  /\ Callers \cap Workers = {} /\ Callers \cap Watchers = {} /\ Workers \cap Watchers = {}
  /\ CallerLevels \subseteq {"L0", "L1", "L3"}
  /\ Overruns \in BOOLEAN
  /\ MaxHalts \in Nat /\ MaxDay \in Nat \ {0} /\ MaxMishaps \in Nat

VARIABLES
  halts,    \* the rows: level, trading day of creation, active
  today,    \* trading_day()
  open,     \* market_is_open()
  loss,     \* the user's P&L of the day is beyond the threshold
  exposed,  \* the user has an open order or position at the broker
  pc,       \* where each process is
  arg,      \* the level it engages
  row,      \* the row a request is about to release, 0 = none
  reading,  \* what a watcher read of the P&L, "none" = nothing usable
  count,    \* today's risk:dl:{user}:{day} in the cache, counted up to 2
  lock,     \* risk:daily_loss_watcher:lock is in the cache
  mishaps,
  \* what the properties need to remember
  standing, \* rows active ever since a worker's gate began
  second,   \* a watcher made its reading after an earlier breach was counted
  tripped,  \* an L2 halt was engaged today
  mopped    \* flattened under a halt of the user, with no worker past its gate

vars == <<halts, today, open, loss, exposed, pc, arg, row, reading, count, lock, mishaps,
          standing, second, tripped, mopped>>
ghosts == <<standing, second, tripped, mopped>>
world == <<today, open, loss>>

Procs == Callers \cup Workers \cup Watchers
Levels == {"L0", "L1", "L2", "L3"}
UserLevels == {"L1", "L2"}
Row == [level : Levels, day : 1..MaxDay, active : BOOLEAN]

Active(levels) == {i \in DOMAIN halts : halts[i].active /\ halts[i].level \in levels}
UserHalted == Active(UserLevels) # {}

TypeOK ==
  /\ halts \in Seq(Row)
  /\ today \in 1..MaxDay /\ open \in BOOLEAN /\ loss \in BOOLEAN /\ exposed \in BOOLEAN
  /\ pc \in [Procs -> {"idle", "lookup", "create", "flatten", "release", "platform", "user",
                       "strategy", "passed", "sweep", "market", "check", "read", "count", "done"}]
  /\ arg \in [Procs -> Levels] /\ row \in [Callers -> {0} \cup DOMAIN halts]
  /\ reading \in [Watchers -> {"none", "ok", "breach"}]
  /\ count \in 0..2 /\ lock \in BOOLEAN /\ mishaps \in 0..MaxMishaps
  /\ standing \in [Workers -> SUBSET DOMAIN halts]
  /\ second \in [Watchers -> BOOLEAN]
  /\ tripped \in BOOLEAN /\ mopped \in BOOLEAN

Init ==
  /\ halts = <<>> /\ today = 1 /\ open = TRUE /\ loss = FALSE /\ exposed = FALSE
  /\ pc = [p \in Procs |-> "idle"] /\ arg = [p \in Procs |-> "L1"]
  /\ row = [c \in Callers |-> 0]
  /\ reading = [w \in Watchers |-> "none"] /\ count = 0 /\ lock = FALSE /\ mishaps = 0
  /\ standing = [w \in Workers |-> {}] /\ second = [w \in Watchers |-> FALSE]
  /\ tripped = FALSE /\ mopped = FALSE

Goto(p, next) == pc' = [pc EXCEPT ![p] = next]
Mishap == mishaps < MaxMishaps /\ mishaps' = mishaps + 1

\* Where a process goes when its trigger_halt is over.
Return(p) ==
  /\ Goto(p, IF p \in Watchers THEN "done" ELSE "idle")
  /\ arg' = [arg EXCEPT ![p] = "L1"]

-----------------------------------------------------------------------------
(* trigger_halt: the look-up and the insert see each other's commits, the  *)
(* row locks of the look-up hold off nobody when there is no row.          *)

Engage(p, level) ==
  /\ pc[p] = "idle"
  /\ arg' = [arg EXCEPT ![p] = level]
  /\ Goto(p, "lookup")
  /\ UNCHANGED <<halts, world, exposed, row, reading, count, lock, mishaps, ghosts>>

Trips(p) == tripped' = (tripped \/ arg[p] = "L2")

LookUp(p) ==
  /\ pc[p] = "lookup"
  /\ IF Active({arg[p]}) # {}
     THEN Return(p) /\ Trips(p)
     ELSE Goto(p, "create") /\ UNCHANGED <<arg, tripped>>
  /\ UNCHANGED <<halts, world, exposed, row, reading, count, lock, mishaps, standing, second, mopped>>

\* Committed; the flatten of a user's halt runs after that.
Create(p) ==
  /\ pc[p] = "create"
  /\ halts' = Append(halts, [level |-> arg[p], day |-> today, active |-> TRUE])
  /\ Trips(p)
  /\ IF arg[p] \in UserLevels THEN Goto(p, "flatten") /\ UNCHANGED arg ELSE Return(p)
  /\ UNCHANGED <<world, exposed, row, reading, count, lock, mishaps, standing, second, mopped>>

CreateFails(p) ==
  /\ pc[p] = "create" /\ Mishap
  /\ Return(p)
  /\ UNCHANGED <<halts, world, exposed, row, reading, count, lock, ghosts>>

PastUserGate == {w \in Workers : pc[w] \in {"strategy", "passed"}}

\* close_all_positions, open orders included.
Flatten(p) ==
  /\ pc[p] = "flatten"
  /\ exposed' = FALSE
  /\ mopped' = (UserHalted /\ PastUserGate = {})
  /\ Return(p)
  /\ UNCHANGED <<halts, world, row, reading, count, lock, mishaps, standing, second, tripped>>

\* A failing broker is logged; nobody tries again.
FlattenFails(p) ==
  /\ pc[p] = "flatten" /\ Mishap
  /\ Return(p)
  /\ UNCHANGED <<halts, world, exposed, row, reading, count, lock, ghosts>>

-----------------------------------------------------------------------------
(* release_halt: what was picked is looked at again under its row lock.    *)

\* The view takes the first active halt of the level it was asked about.
PickRelease(p, i) ==
  /\ pc[p] = "idle"
  /\ i \in Active(CallerLevels)
  /\ row' = [row EXCEPT ![p] = i]
  /\ Goto(p, "release")
  /\ UNCHANGED <<halts, world, exposed, arg, reading, count, lock, mishaps, ghosts>>

MayReleaseAnyTime(i) == halts[i].active  \* mutant: the breaker opens the same day
MayRelease(i) == halts[i].active /\ ~(halts[i].level = "L2" /\ halts[i].day = today)

ReleaseRow(i) ==
  IF MayRelease(i)
  THEN /\ halts' = [halts EXCEPT ![i].active = FALSE]
       /\ standing' = [w \in Workers |-> standing[w] \ {i}]
       /\ mopped' = (mopped /\ Active(UserLevels) \ {i} # {})
  ELSE UNCHANGED <<halts, standing, mopped>>

Release(p) ==
  /\ pc[p] = "release"
  /\ ReleaseRow(row[p])
  /\ row' = [row EXCEPT ![p] = 0]
  /\ Goto(p, "idle")
  /\ UNCHANGED <<world, exposed, arg, reading, count, lock, mishaps, second, tripped>>

-----------------------------------------------------------------------------
(* process_alert: is_blocked is three queries, widest scope first.         *)

GateBegins(w) ==
  /\ pc[w] = "idle"
  /\ standing' = [standing EXCEPT ![w] = Active(Levels)]
  /\ Goto(w, "platform")
  /\ UNCHANGED <<halts, world, exposed, arg, row, reading, count, lock, mishaps, second, tripped, mopped>>

Query(w, at, levels, next) ==
  /\ pc[w] = at
  /\ IF Active(levels) # {}
     THEN Goto(w, "idle") /\ standing' = [standing EXCEPT ![w] = {}]
     ELSE Goto(w, next) /\ UNCHANGED standing
  /\ UNCHANGED <<halts, world, exposed, arg, row, reading, count, lock, mishaps, second, tripped, mopped>>

QueryPlatform(w) == Query(w, "platform", {"L3"}, "user")
QueryUserManual(w) == Query(w, "user", {"L1"}, "strategy")  \* mutant: automatic halts are missed
QueryUser(w) == Query(w, "user", UserLevels, "strategy")
QueryStrategy(w) == Query(w, "strategy", {"L0"}, "passed")

Submit(w) ==
  /\ pc[w] = "passed"
  /\ exposed' = TRUE
  /\ standing' = [standing EXCEPT ![w] = {}]
  /\ Goto(w, "idle")
  /\ UNCHANGED <<halts, world, arg, row, reading, count, lock, mishaps, second, tripped, mopped>>

\* The sizing rejects the order and engages L2.
HardStop(w) ==
  /\ pc[w] = "passed" /\ loss
  /\ arg' = [arg EXCEPT ![w] = "L2"]
  /\ standing' = [standing EXCEPT ![w] = {}]
  /\ Goto(w, "lookup")
  /\ UNCHANGED <<halts, world, exposed, row, reading, count, lock, mishaps, second, tripped, mopped>>

-----------------------------------------------------------------------------
(* daily_loss_watcher: one run at a time, by a lock in the cache.          *)

StartUnlocked(w) ==  \* mutant: a run does not mind another one
  /\ pc[w] = "idle"
  /\ lock' = TRUE
  /\ Goto(w, "sweep")
  /\ UNCHANGED <<halts, world, exposed, arg, row, reading, count, mishaps, ghosts>>
Start(w) ==
  /\ pc[w] = "idle" /\ ~lock
  /\ lock' = TRUE
  /\ Goto(w, "sweep")
  /\ UNCHANGED <<halts, world, exposed, arg, row, reading, count, mishaps, ghosts>>

\* release_expired_l2_halts tries them all.
Expired == {i \in Active({"L2"}) : MayRelease(i)}

Sweep(w, i) ==
  /\ pc[w] = "sweep" /\ i \in Expired
  /\ ReleaseRow(i)
  /\ UNCHANGED <<world, exposed, pc, arg, row, reading, count, lock, mishaps, second, tripped>>

Swept(w) ==
  /\ pc[w] = "sweep" /\ Expired = {}
  /\ Goto(w, "market")
  /\ UNCHANGED <<halts, world, exposed, arg, row, reading, count, lock, mishaps, ghosts>>

\* Trips in market hours only.
AskMarket(w) ==
  /\ pc[w] = "market"
  /\ Goto(w, IF open THEN "check" ELSE "done")
  /\ UNCHANGED <<halts, world, exposed, arg, row, reading, count, lock, mishaps, ghosts>>

AlreadyTripped(w) ==
  /\ pc[w] = "check"
  /\ Goto(w, IF Active({"L2"}) # {} THEN "done" ELSE "read")
  /\ UNCHANGED <<halts, world, exposed, arg, row, reading, count, lock, mishaps, ghosts>>

\* user_daily_pnl; an account that cannot be read says nothing.
ReadPnl(w) ==
  /\ pc[w] = "read"
  /\ \/ /\ reading' = [reading EXCEPT ![w] = IF loss THEN "breach" ELSE "ok"]
        /\ second' = [second EXCEPT ![w] = count > 0]
        /\ Goto(w, "count")
        /\ UNCHANGED mishaps
     \/ /\ Mishap
        /\ Goto(w, "done")
        /\ UNCHANGED <<reading, second>>
  /\ UNCHANGED <<halts, world, exposed, arg, row, count, lock, standing, tripped, mopped>>

\* A breach is counted, the second one engages L2; anything else starts over.
CountAnew(w) ==  \* mutant: the counter is set to 0 before every increment
  /\ pc[w] = "count"
  /\ count' = IF reading[w] = "breach" THEN 1 ELSE 0
  /\ Goto(w, "done")
  /\ reading' = [reading EXCEPT ![w] = "none"]
  /\ UNCHANGED <<halts, world, exposed, arg, row, lock, mishaps, ghosts>>
Count(w) ==
  /\ pc[w] = "count"
  /\ IF reading[w] = "breach"
     THEN count' = IF count < 2 THEN count + 1 ELSE 2
     ELSE count' = 0
  /\ IF count' = 2
     THEN Goto(w, "lookup") /\ arg' = [arg EXCEPT ![w] = "L2"]
     ELSE Goto(w, "done") /\ UNCHANGED arg
  /\ reading' = [reading EXCEPT ![w] = "none"]
  /\ UNCHANGED <<halts, world, exposed, row, lock, mishaps, ghosts>>

\* The run ends by deleting the lock, whoever holds it by now.
Finish(w) ==
  /\ pc[w] = "done"
  /\ lock' = FALSE
  /\ second' = [second EXCEPT ![w] = FALSE]
  /\ Goto(w, "idle")
  /\ UNCHANGED <<halts, world, exposed, arg, row, reading, count, mishaps, standing, tripped, mopped>>

-----------------------------------------------------------------------------
(* What happens to all of them.                                            *)

Dies(p) ==
  /\ pc[p] # "idle" /\ Mishap
  /\ Goto(p, "idle")
  /\ arg' = [arg EXCEPT ![p] = "L1"]
  /\ second' = IF p \in Watchers THEN [second EXCEPT ![p] = FALSE] ELSE second
  /\ row' = IF p \in Callers THEN [row EXCEPT ![p] = 0] ELSE row
  /\ reading' = IF p \in Watchers THEN [reading EXCEPT ![p] = "none"] ELSE reading
  /\ standing' = IF p \in Workers THEN [standing EXCEPT ![p] = {}] ELSE standing
  /\ UNCHANGED <<halts, world, exposed, count, lock, tripped, mopped>>

LockExpires ==
  /\ lock
  /\ Overruns \/ \A w \in Watchers : pc[w] = "idle"
  /\ lock' = FALSE
  /\ UNCHANGED <<halts, world, exposed, pc, arg, row, reading, count, mishaps, ghosts>>

CounterExpires ==
  /\ count > 0 /\ Mishap
  /\ count' = 0
  /\ UNCHANGED <<halts, world, exposed, pc, arg, row, reading, lock, ghosts>>

PnlMoves ==
  /\ open /\ loss' = ~loss
  /\ UNCHANGED <<halts, today, open, exposed, pc, arg, row, reading, count, lock, mishaps, ghosts>>

OpensOrCloses ==
  /\ open' = ~open
  /\ UNCHANGED <<halts, today, loss, exposed, pc, arg, row, reading, count, lock, mishaps, ghosts>>

\* At night, when what was running has long ended.  The counter is another key.
NextDay ==
  /\ ~open /\ today < MaxDay
  /\ \A p \in Procs : pc[p] = "idle"
  /\ today' = today + 1
  /\ loss' = FALSE
  /\ count' = 0
  /\ tripped' = FALSE
  /\ UNCHANGED <<halts, open, exposed, pc, arg, row, reading, lock, mishaps, standing, second, mopped>>

-----------------------------------------------------------------------------
TriggerStep(p) == LookUp(p) \/ Create(p) \/ CreateFails(p) \/ Flatten(p) \/ FlattenFails(p)

CallerStep(c) ==
  \/ /\ Cardinality({i \in DOMAIN halts : halts[i].level # "L2"}) < MaxHalts
     /\ \E level \in CallerLevels : Engage(c, level)
  \/ \E i \in DOMAIN halts : PickRelease(c, i)
  \/ Release(c) \/ TriggerStep(c)

WorkerStep(w) ==
  \/ GateBegins(w) \/ QueryPlatform(w) \/ QueryUser(w) \/ QueryStrategy(w)
  \/ Submit(w) \/ HardStop(w) \/ TriggerStep(w)

WatcherStep(w) ==
  \/ Start(w) \/ Swept(w) \/ AskMarket(w) \/ AlreadyTripped(w) \/ ReadPnl(w) \/ Count(w)
  \/ Finish(w) \/ TriggerStep(w)
  \/ \E i \in DOMAIN halts : Sweep(w, i)

Next ==
  \/ \E c \in Callers : CallerStep(c)
  \/ \E w \in Workers : WorkerStep(w)
  \/ \E w \in Watchers : WatcherStep(w)
  \/ \E p \in Procs : Dies(p)
  \/ LockExpires \/ CounterExpires \/ PnlMoves \/ OpensOrCloses \/ NextDay

Spec == Init /\ [][Next]_vars

\* The beat comes round, a run goes on and a key left behind expires.
FairSpec == Spec /\ WF_vars(\E w \in Watchers : WatcherStep(w)) /\ WF_vars(LockExpires)

-----------------------------------------------------------------------------
(* What must hold.                                                         *)

\* is_blocked reads the halts in three queries while others engage and
\* release (killswitch.py:86-98): one that is active from the first query to
\* the last stops the order.
StandingHaltStops == \A w \in Workers : pc[w] = "passed" => standing[w] = {}

\* A daily-loss halt lasts its trading day, whoever engaged it, whatever was
\* found in its place and whoever tries to release it (killswitch.py:151-153).
TripLastsTheDay == tripped => \E i \in Active({"L2"}) : halts[i].day = today

\* A user flattened under a halt, with no order past the gate, stays flat as
\* long as the user is halted (killswitch.py:141-142).
FlatStaysFlat == mopped => ~exposed

\* The watcher engages L2 on a reading it made after an earlier breach had been
\* counted: two runs never confirm each other from one window (tasks.py:23-26).
TripNeedsTwoPolls ==
  [][\A w \in Watchers : pc[w] = "create" /\ halts' # halts /\ pc'[w] # "create" => second[w]]_vars

\* A loss that stays while the market is open trips the breaker
\* (killswitch.py:246-297).
BreachTrips == <>[](open /\ loss) => <>(Active({"L2"}) # {})

\* A breaker of an earlier day is released, in session or not (tasks.py:31-38).
BreakerReleased ==
  LET old == {i \in Active({"L2"}) : halts[i].day # today} IN old # {} ~> old = {}

\* A halt stops what it is for as long as it is for; the breaker answers to the
\* loss and to the day.
HaltsHold     == TypeOK /\ StandingHaltStops /\ TripLastsTheDay
BreakerReacts == BreachTrips /\ BreakerReleased

=============================================================================
