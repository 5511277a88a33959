---------------------------- MODULE ResearchProofs ----------------------------
(* Screens, backtests and replays, each for every value of its constants and for *)
(* itself, and together in the specification of the research side.               *)
EXTENDS MCResearch, FiniteSetTheorems, TLAPS

(* Screens: any number of POSTs, runs, killed workers, whatever the vendor answers. *)

\* The rows, and that two active ones are the same row.
Alone == \A i, k \in Runs : Active(i) /\ Active(k) => i = k
ScreensInv == screens \in Seq(ScreenRun) /\ Alone

\* Every row keeps its status or ceases to be active.
LEMMA FewerStayAlone ==
  ASSUME Alone, DOMAIN screens' = DOMAIN screens,
         \A i \in Runs : screens'[i] = screens[i] \/ screens'[i] \in {"DONE", "FAILED", "gone"}
  PROVE  Alone'
  BY DEF Alone, Active, Runs

LEMMA PostStepAlone == ASSUME ScreensInv, PostStep PROVE ScreensInv'
  <1>0. screens \in Seq(ScreenRun) /\ Alone /\ Runs = 1..Len(screens) /\ Len(screens) \in Nat
    BY DEF ScreensInv, Runs
  <1>1. ASSUME NEW c \in Callers, _reap_stale_runs(c) PROVE ScreensInv'
    <2>1. screens' = [i \in Runs |-> IF i <= aged /\ Active(i) THEN "FAILED" ELSE screens[i]]
      BY <1>1 DEF _reap_stale_runs
    <2>2. \A i \in Runs : screens[i] \in ScreenRun
      BY <1>0
    <2>3. screens' \in Seq(ScreenRun)
      BY <1>0, <2>1, <2>2 DEF ScreenRun
    <2> QED
      BY <1>0, <2>1, <2>3, FewerStayAlone DEF ScreensInv, Runs
  <1>2. ASSUME NEW c \in Callers, InsertRun(c) PROVE ScreensInv'
    <2>1. CASE UNCHANGED screens
      BY <1>0, <2>1 DEF ScreensInv, Alone, Active, Runs
    <2>2. CASE screens' = Append(screens, "QUEUED") /\ ~\E i \in Runs : Active(i)
      <3>1. screens' \in Seq(ScreenRun) /\ DOMAIN screens' = 1..(Len(screens) + 1)
            /\ \A i \in 1..Len(screens) : screens'[i] = screens[i]
        BY <1>0, <2>2 DEF ScreenRun
      <3>2. ASSUME NEW i \in Runs', Active(i)' PROVE i = Len(screens) + 1
        BY <1>0, <2>2, <3>1, <3>2 DEF Active, Runs
      <3> QED
        BY <3>1, <3>2 DEF ScreensInv, Alone
    <2> QED
      BY <1>2, <2>1, <2>2 DEF InsertRun, NewRun
  <1>3. ASSUME NEW c \in Callers, LookForActive(c) PROVE ScreensInv'
    BY <1>0, <1>3 DEF LookForActive, ScreensInv, Alone, Active, Runs
  <1> QED
    BY <1>1, <1>2, <1>3 DEF PostStep

LEMMA TaskStepAlone == ASSUME ScreensInv, TaskStep PROVE ScreensInv'
  <1>0. screens \in Seq(ScreenRun) /\ Alone /\ Runs = 1..Len(screens) /\ Len(screens) \in Nat
    BY DEF ScreensInv, Runs
  <1>1. PICK i \in Runs :
          \/ run_screen(i) \/ Nameless(i) \/ Enriched(i) \/ _finish(i) \/ _fail(i) \/ _prune_history(i)
          \/ ScreenRaises(i) \/ ScreenDies(i)
          \/ \E o \in Possible, held \in BOOLEAN :
               _enrich_candidates(i, o, held) \/ VendorStage(i, o, held)
    BY DEF TaskStep
  <1>2. CASE UNCHANGED screens
    BY <1>0, <1>2 DEF ScreensInv, Alone, Active, Runs
  <1>3. CASE run_screen(i) /\ ~UNCHANGED screens
    <2>1. screens' = [screens EXCEPT ![i] = "RUNNING"] /\ \A k \in Runs \ {i} : ~Active(k)
      BY <1>3 DEF run_screen, Saved
    <2>2. screens' \in Seq(ScreenRun) /\ DOMAIN screens' = DOMAIN screens
      BY <1>0, <2>1 DEF ScreenRun
    <2>3. ASSUME NEW k \in Runs', Active(k)' PROVE k = i
      BY <1>0, <2>1, <2>2, <2>3 DEF Active, Runs
    <2> QED
      BY <2>2, <2>3 DEF ScreensInv, Alone
  <1>4. CASE _finish(i) \/ _fail(i)
    <2>1. PICK st \in {"DONE", "FAILED"} : screens' = [screens EXCEPT ![i] = st]
      BY <1>4 DEF _finish, _fail, Saved
    <2>2. screens' \in Seq(ScreenRun) /\ DOMAIN screens' = DOMAIN screens
      BY <1>0, <2>1 DEF ScreenRun
    <2>3. \A k \in Runs : screens'[k] = screens[k] \/ screens'[k] \in {"DONE", "FAILED", "gone"}
      BY <1>0, <2>1
    <2> QED
      BY <1>0, <2>2, <2>3, FewerStayAlone DEF ScreensInv
  <1>5. CASE _prune_history(i)
    <2>1. screens' = [k \in Runs |-> IF Cardinality(Newer(k)) >= HistoryKeep
                                     THEN "gone" ELSE screens[k]]
      BY <1>5 DEF _prune_history
    <2>2. \A k \in Runs : screens[k] \in ScreenRun
      BY <1>0
    <2>3. screens' \in Seq(ScreenRun) /\ DOMAIN screens' = DOMAIN screens
      BY <1>0, <2>1, <2>2 DEF ScreenRun
    <2>4. \A k \in Runs : screens'[k] = screens[k] \/ screens'[k] \in {"DONE", "FAILED", "gone"}
      BY <2>1
    <2> QED
      BY <1>0, <2>3, <2>4, FewerStayAlone DEF ScreensInv
  <1>6. CASE \/ Nameless(i) \/ Enriched(i) \/ ScreenRaises(i) \/ ScreenDies(i)
             \/ \E o \in Possible, held \in BOOLEAN :
                  _enrich_candidates(i, o, held) \/ VendorStage(i, o, held)
    <2>1. UNCHANGED screens
      BY <1>6 DEF Nameless, Enriched, ScreenRaises, ScreenDies, _enrich_candidates, VendorStage
    <2> QED
      BY <1>2, <2>1
  <1> QED
    BY <1>1, <1>2, <1>3, <1>4, <1>5, <1>6

\* The index lets one active row in, the reaper and the prune only end rows, and a
\* worker that comes late to a row that was reaped is turned away.
LEMMA ScreensInvariance == ScreensSpec => []ScreensInv
  <1>1. ScreensInit => ScreensInv
    BY DEF ScreensInit, ScreensInv, Alone, Runs
  <1>2. ScreensInv /\ [ScreensNext]_<<vendorVars, screenVars>> => ScreensInv'
    <2>1. ASSUME ScreensInv, UNCHANGED screens PROVE ScreensInv'
      BY <2>1 DEF ScreensInv, Alone, Active, Runs
    <2> QED
      BY <2>1, PostStepAlone, TaskStepAlone DEF ScreensNext, RunAges, screenVars
  <1> QED
    BY <1>1, <1>2, PTL DEF ScreensSpec

\* At most one run of a (user, strategy) is queued or running
\* (screener/models.py, the partial unique index; screener/views.py:200-240).
THEOREM OneScreenAtATime == ScreensSpec => []OneActiveScreen
  <1>1. ScreensInv => OneActiveScreen
    <2> SUFFICES ASSUME ScreensInv PROVE Cardinality({i \in Runs : Active(i)}) <= 1
      BY DEF OneActiveScreen
    <2> DEFINE A == {i \in Runs : Active(i)}
    <2>1. CASE A = {}
      BY <2>1, FS_EmptySet
    <2>2. ASSUME NEW i \in A PROVE Cardinality(A) <= 1
      <3>1. A = {i}
        BY <2>2 DEF ScreensInv, Alone
      <3>2. Cardinality({i}) = 1
        BY FS_Singleton
      <3> QED
        BY <3>1, <3>2
    <2> QED
      BY <2>1, <2>2
  <1> QED
    BY <1>1, ScreensInvariance, PTL

-----------------------------------------------------------------------------
(* Backtests: any cap, any number of requests at once, of runs and of crashes.     *)

Row == [st : Status, segments : Int, report : {"none", "full", "evicted"}]
WorkerPC == {"queued", "read", "check", "segment", "report", "save", "over", "dead"}
Worker == {w \in [pc : WorkerPC, st : Status \union {""}, left : Int] :
               w.pc = "save" => w.st \in Status}
Call == [pc : {"idle", "create", "cancel"}, ref : Nat]

BackTypes ==
    /\ bruns \in Seq(Row) /\ workers \in Seq(Worker) /\ Len(workers) = Len(bruns)
    /\ calls \in [Clients -> Call]

Gone == {"over", "dead"}
Working == {i \in Ids : workers[i].pc \notin Gone}
Posting == {c \in Clients : calls[c].pc = "create"}

\* A run is active from its creation to the end of its task; and the runs at work,
\* with the POSTs that have counted and not yet created, stay below the bound.
ActiveAtWork == \A i \in Working : is_active(i)
Bound == Cardinality(Working) + Cardinality(Posting) <= Cap + Cardinality(Clients) - 1

BackInv == BackTypes /\ ActiveAtWork /\ Bound

-----------------------------------------------------------------------------
LEMMA BackFinite ==
  ASSUME BackTypes
  PROVE  /\ IsFiniteSet(Ids) /\ IsFiniteSet(Working) /\ IsFiniteSet(Posting)
         /\ Cardinality(Working) \in Nat /\ Cardinality(Posting) \in Nat
         /\ Cardinality(Clients) \in Nat /\ Cardinality(Posting) <= Cardinality(Clients)
  <1>1. Ids = 1..Len(bruns) /\ Len(bruns) \in Nat
    BY DEF BackTypes, Ids
  <1>2. IsFiniteSet(Ids)
    BY <1>1, FS_Interval
  <1>3. Working \subseteq Ids /\ Posting \subseteq Clients
    BY DEF Working, Posting
  <1>4. IsFiniteSet(Clients)
    BY BacktestsAssumption
  <1> QED
    BY <1>2, <1>3, <1>4, FS_Subset, FS_CardinalityType

\* What most steps do: no run comes to work, no POST comes to count.
LEMMA NoMoreWork ==
  ASSUME BackInv, BackTypes', Len(bruns') = Len(bruns),
         \A i \in Ids : workers'[i].pc \notin Gone => workers[i].pc \notin Gone /\ is_active(i)',
         \A c \in Clients : calls'[c].pc = "create" => calls[c].pc = "create"
  PROVE  BackInv'
  <1>1. Ids' = Ids
    BY DEF BackInv, BackTypes, Ids
  <1>2. Working' \subseteq Working /\ Posting' \subseteq Posting
    BY <1>1 DEF Working, Posting
  <1>3. IsFiniteSet(Working) /\ IsFiniteSet(Posting)
    BY BackFinite DEF BackInv
  <1>4. Cardinality(Working') <= Cardinality(Working) /\ Cardinality(Posting') <= Cardinality(Posting)
    BY <1>2, <1>3, FS_Subset
  <1>5. /\ Cardinality(Working) \in Nat /\ Cardinality(Posting) \in Nat
        /\ Cardinality(Working') \in Nat /\ Cardinality(Posting') \in Nat
        /\ Cardinality(Clients) \in Nat /\ Cap \in Nat
    BY <1>2, <1>3, FS_Subset, FS_CardinalityType, BackFinite, BacktestsAssumption DEF BackInv
  <1>6. Bound'
    BY <1>4, <1>5 DEF BackInv, Bound
  <1>7. ActiveAtWork'
    BY <1>1 DEF ActiveAtWork, Working
  <1> QED
    BY <1>6, <1>7 DEF BackInv

\* One field of one row, or of one worker, is set.
LEMMA RowSet ==
  ASSUME bruns \in Seq(Row), NEW i, NEW v \in Status,
         bruns' = [bruns EXCEPT ![i].st = v]
  PROVE  /\ bruns' \in Seq(Row) /\ Len(bruns') = Len(bruns)
         /\ \A k \in Ids : bruns'[k].st = v \/ bruns'[k].st = bruns[k].st
  <1>1. CASE i \in Ids
    <2>0. bruns[i] \in Row
      BY <1>1 DEF Ids
    <2>1. PICK r : r = [bruns[i] EXCEPT !.st = v] /\ bruns' = [bruns EXCEPT ![i] = r]
      OBVIOUS
    <2>2. r \in Row /\ r.st = v
      BY <2>0, <2>1 DEF Row
    <2> QED
      BY <1>1, <2>1, <2>2 DEF Ids
  <1>2. CASE i \notin Ids
    <2>1. bruns' = bruns
      BY <1>2 DEF Ids
    <2> QED
      BY <1>2, <2>1 DEF Ids
  <1> QED
    BY <1>1, <1>2

LEMMA StageIs ==
  ASSUME NEW pc \in WorkerPC, NEW st \in Status \union {""}, NEW n \in Int,
         pc = "save" => st \in Status
  PROVE  Stage(pc, st, n) \in Worker /\ Stage(pc, st, n).pc = pc
  BY DEF Stage, Worker

LEMMA WorkerSet ==
  ASSUME workers \in Seq(Worker), NEW i \in DOMAIN workers, NEW w \in Worker,
         workers' = [workers EXCEPT ![i] = w]
  PROVE  /\ workers' \in Seq(Worker) /\ Len(workers') = Len(workers)
         /\ \A k \in DOMAIN workers : workers'[k] = IF k = i THEN w ELSE workers[k]
  OBVIOUS

LEMMA CallSet ==
  ASSUME calls \in [Clients -> Call], NEW c \in Clients, NEW pc \in {"idle", "create", "cancel"},
         NEW i \in Nat, CallTo(c, pc, i)
  PROVE  /\ calls' \in [Clients -> Call]
         /\ \A d \in Clients : calls'[d].pc = IF d = c THEN pc ELSE calls[d].pc
  BY DEF CallTo, Call

-----------------------------------------------------------------------------
LEMMA ClientStepInv ==
  ASSUME BackInv, NEW c \in Clients,
         CountActive(c) \/ CreateRun(c) \/ CancelSave(c) \/ \E i \in Ids : CancelRead(c, i)
  PROVE  BackInv'
  <1>0. /\ bruns \in Seq(Row) /\ workers \in Seq(Worker) /\ Len(workers) = Len(bruns)
        /\ Len(bruns) \in Nat /\ Ids = 1..Len(bruns) /\ DOMAIN workers = Ids
        /\ calls \in [Clients -> Call]
    BY DEF BackInv, BackTypes, Ids
  <1>a. /\ Cardinality(Working) \in Nat /\ Cardinality(Posting) \in Nat /\ IsFiniteSet(Ids)
        /\ IsFiniteSet(Working) /\ IsFiniteSet(Posting)
        /\ Cardinality(Clients) \in Nat /\ Cap \in Nat
    BY BackFinite, BacktestsAssumption DEF BackInv
  <1>1. CASE CountActive(c)
    <2>1. BackTypes' /\ Working' = Working /\ Ids' = Ids /\ UNCHANGED <<bruns, workers>>
      BY <1>0, <1>1, CallSet DEF CountActive, BackTypes, Working, Ids
    <2> DEFINE A == {i \in Ids : is_active(i)}
    <2>2. Working \subseteq A
      BY DEF BackInv, ActiveAtWork, Working
    <2>3. IsFiniteSet(A)
      BY <1>a, FS_Subset
    <2>4. Cardinality(Working) <= Cardinality(A) /\ Cardinality(A) \in Nat
      BY <2>2, <2>3, FS_Subset, FS_CardinalityType
    <2>5. Cardinality(A) < Cap
      BY <1>1 DEF CountActive
    <2>6. Cardinality(Posting') <= Cardinality(Clients) /\ Cardinality(Posting') \in Nat
      <3>1. Posting' \subseteq Clients
        BY DEF Posting
      <3> QED
        BY <3>1, BacktestsAssumption, FS_Subset, FS_CardinalityType
    <2> HIDE DEF A
    <2>7. Bound'
      BY <1>a, <2>1, <2>4, <2>5, <2>6 DEF Bound
    <2>8. ActiveAtWork'
      BY <2>1 DEF BackInv, ActiveAtWork, is_active
    <2> QED
      BY <2>1, <2>7, <2>8 DEF BackInv
  <1>2. CASE CreateRun(c)
    <2> DEFINE r == [st |-> "QUEUED", segments |-> 0, report |-> "none"]
               w == Stage("queued", "", Checks)
               n == Len(bruns) + 1
    <2>1. bruns' = Append(bruns, r) /\ workers' = Append(workers, w) /\ calls[c].pc = "create"
          /\ CallTo(c, "idle", 0)
      BY <1>2 DEF CreateRun, CallAt
    <2>2. r \in Row /\ w \in Worker
      <3>1. "QUEUED" \in Status /\ "queued" \in WorkerPC /\ Checks \in Int
        BY BacktestsAssumption DEF Status, WorkerPC
      <3>2. r \in Row
        BY <3>1 DEF Row
      <3> QED
        BY <3>1, <3>2 DEF Worker, Stage
    <2>3. w.pc = "queued" /\ r.st = "QUEUED"
      BY DEF Stage
    <2> HIDE DEF r, w
    <2>4. /\ bruns' \in Seq(Row) /\ workers' \in Seq(Worker)
          /\ Len(bruns') = n /\ Len(workers') = n
          /\ bruns'[n] = r /\ workers'[n] = w
          /\ \A i \in Ids : bruns'[i] = bruns[i] /\ workers'[i] = workers[i]
      BY <1>0, <2>1, <2>2
    <2>5. Ids' = Ids \union {n} /\ n \notin Ids
      BY <1>0, <2>4 DEF Ids
    <2>6. Working' = Working \union {n} /\ n \notin Working
      BY <2>3, <2>4, <2>5 DEF Working, Gone
    <2>7. /\ calls' \in [Clients -> Call]
          /\ \A d \in Clients : calls'[d].pc = IF d = c THEN "idle" ELSE calls[d].pc
      BY <1>0, <2>1, CallSet
    <2>8. Posting' = Posting \ {c} /\ c \in Posting
      BY <2>1, <2>7 DEF Posting
    <2>9. Cardinality(Working') = Cardinality(Working) + 1
      BY <1>a, <2>6, FS_AddElement
    <2>10. Cardinality(Posting') = Cardinality(Posting) - 1
      BY <1>a, <2>8, FS_RemoveElement
    <2>11. Bound'
      BY <1>a, <2>9, <2>10 DEF BackInv, Bound
    <2>12. ActiveAtWork'
      BY <2>3, <2>4, <2>5, <2>6 DEF BackInv, ActiveAtWork, Working, is_active, TERMINAL_STATUSES
    <2> QED
      BY <2>4, <2>7, <2>11, <2>12 DEF BackInv, BackTypes
  <1>3. CASE CancelSave(c)
    <2>1. /\ bruns' = [bruns EXCEPT ![calls[c].ref].st = "CANCELLING"]
          /\ CallTo(c, "idle", 0) /\ UNCHANGED workers
      BY <1>3 DEF CancelSave
    <2>2. "CANCELLING" \in Status
      BY DEF Status
    <2>3. /\ bruns' \in Seq(Row) /\ Len(bruns') = Len(bruns)
          /\ \A k \in Ids : bruns'[k].st = "CANCELLING" \/ bruns'[k].st = bruns[k].st
      <3>1. PICK j : j = calls[c].ref
        OBVIOUS
      <3>2. bruns' = [bruns EXCEPT ![j].st = "CANCELLING"]
        BY <2>1, <3>1
      <3> QED
        BY <1>0, <2>2, <3>2, RowSet
    <2>4. BackTypes'
      BY <1>0, <2>1, <2>3, CallSet DEF BackTypes
    <2>5. \A i \in Ids : workers'[i].pc \notin Gone => workers[i].pc \notin Gone /\ is_active(i)'
      BY <2>1, <2>3 DEF BackInv, ActiveAtWork, Working, is_active, TERMINAL_STATUSES
    <2>6. \A d \in Clients : calls'[d].pc = "create" => calls[d].pc = "create"
      BY <1>0, <2>1, CallSet
    <2> QED
      BY <2>3, <2>4, <2>5, <2>6, NoMoreWork
  <1>4. ASSUME NEW i \in Ids, CancelRead(c, i) PROVE BackInv'
    <2>1. CallTo(c, "cancel", i) /\ UNCHANGED <<bruns, workers>> /\ i \in Nat
      BY <1>0, <1>4 DEF CancelRead
    <2>2. BackTypes' /\ \A d \in Clients : calls'[d].pc = "create" => calls[d].pc = "create"
      BY <1>0, <2>1, CallSet DEF BackTypes
    <2>3. \A k \in Ids : workers'[k].pc \notin Gone => workers[k].pc \notin Gone /\ is_active(k)'
      BY <2>1 DEF BackInv, ActiveAtWork, Working, is_active
    <2> QED
      BY <2>1, <2>2, <2>3, NoMoreWork
  <1> QED
    BY <1>1, <1>2, <1>3, <1>4

\* A step of the task of run i: its worker moves, its row changes or not, and as
\* long as the worker is at it the row is active.
LEMMA WorkMoves ==
  ASSUME BackInv, NEW i \in Ids, UNCHANGED calls,
         workers' \in Seq(Worker), Len(workers') = Len(workers),
         \A k \in Ids : k # i => workers'[k] = workers[k],
         bruns' \in Seq(Row), Len(bruns') = Len(bruns),
         \A k \in Ids : k # i => bruns'[k].st = bruns[k].st,
         workers'[i].pc \notin Gone => workers[i].pc \notin Gone /\ bruns'[i].st \notin TERMINAL_STATUSES
  PROVE  BackInv'
  <1>1. Len(workers) = Len(bruns) /\ calls \in [Clients -> Call]
    BY DEF BackInv, BackTypes
  <1>2. BackTypes'
    BY <1>1 DEF BackTypes
  <1>3. ASSUME NEW k \in Ids, workers'[k].pc \notin Gone
        PROVE  workers[k].pc \notin Gone /\ is_active(k)'
    <2>1. CASE k = i
      BY <1>3, <2>1 DEF is_active
    <2>2. CASE k # i
      BY <1>3, <2>2 DEF BackInv, ActiveAtWork, Working, is_active
    <2> QED
      BY <2>1, <2>2
  <1> QED
    BY <1>2, <1>3, NoMoreWork

LEMMA WorkStepInv ==
  ASSUME BackInv, NEW i \in Ids, Works(i) \/ TaskRaises(i) \/ WorkerDies(i) \/ evict(i)
  PROVE  BackInv'
  <1>0. /\ bruns \in Seq(Row) /\ workers \in Seq(Worker) /\ Len(workers) = Len(bruns)
        /\ DOMAIN bruns = Ids /\ DOMAIN workers = Ids /\ calls \in [Clients -> Call]
        /\ bruns[i] \in Row /\ workers[i] \in Worker
    BY DEF BackInv, BackTypes, Ids
  <1>1. workers[i].pc \notin Gone => bruns[i].st \notin TERMINAL_STATUSES
    BY DEF BackInv, ActiveAtWork, Working, is_active
  <1>2. ASSUME NEW w \in Worker, workers' = [workers EXCEPT ![i] = w]
        PROVE  /\ workers' \in Seq(Worker) /\ Len(workers') = Len(workers) /\ workers'[i] = w
               /\ \A k \in Ids : k # i => workers'[k] = workers[k]
    BY <1>0, <1>2
  <1>3. ASSUME NEW pc \in WorkerPC, NEW st \in Status \union {""}, NEW n \in Int,
               pc = "save" => st \in Status,
               workers' = [workers EXCEPT ![i] = Stage(pc, st, n)]
        PROVE  /\ workers' \in Seq(Worker) /\ Len(workers') = Len(workers) /\ workers'[i].pc = pc
               /\ \A k \in Ids : k # i => workers'[k] = workers[k]
    <2>1. Stage(pc, st, n) \in Worker /\ Stage(pc, st, n).pc = pc
      BY <1>3, StageIs
    <2> QED
      BY <1>2, <1>3, <2>1
  <1>4. ASSUME NEW pc \in WorkerPC \ {"save"}, NEW w, w \in {[workers[i] EXCEPT !.pc = pc]}
               \union {[workers[i] EXCEPT !.left = n, !.pc = pc] : n \in Int}
        PROVE  w \in Worker /\ w.pc = pc
    BY <1>0, <1>4 DEF Worker
  <1>5. ASSUME NEW r \in Row, bruns' = [bruns EXCEPT ![i] = r]
        PROVE  /\ bruns' \in Seq(Row) /\ Len(bruns') = Len(bruns) /\ bruns'[i] = r
               /\ \A k \in Ids : k # i => bruns'[k].st = bruns[k].st
    BY <1>0, <1>5
  <1>c. Checks \in Int
    BY BacktestsAssumption
  <1>d. /\ TERMINAL_STATUSES \subseteq Status /\ {"CANCELLING", "RUNNING"} \subseteq Status
        /\ "RUNNING" \notin TERMINAL_STATUSES
    BY DEF Status, TERMINAL_STATUSES
  <1>6. CASE TaskReadsRun(i)
    <2>1. workers' = [workers EXCEPT ![i] = Stage("read", bruns[i].st, Checks)]
          /\ UNCHANGED <<bruns, calls>> /\ workers[i].pc \notin Gone
      BY <1>6 DEF TaskReadsRun, WorkAt, Gone
    <2>2. bruns[i].st \in Status /\ "read" \in WorkerPC
      BY <1>0 DEF Row, WorkerPC
    <2> QED
      BY <1>0, <1>1, <1>3, <1>c, <2>1, <2>2, WorkMoves
  <1>7. ASSUME NEW st \in TERMINAL_STATUSES, EndAs(i, st), workers[i].pc \notin Gone,
               UNCHANGED calls, bruns' \in Seq(Row), Len(bruns') = Len(bruns),
               \A k \in Ids : bruns'[k].st = bruns[k].st
        PROVE  BackInv'
    <2>1. Stage("save", st, 0) \in Worker
      <3>1. "save" \in WorkerPC /\ 0 \in Int
        BY DEF WorkerPC
      <3>2. st \in Status /\ st \in Status \union {""}
        BY <1>d
      <3> QED
        BY <3>1, <3>2, StageIs
    <2>2. workers' \in Seq(Worker) /\ Len(workers') = Len(workers)
          /\ \A k \in Ids : k # i => workers'[k] = workers[k]
      BY <1>2, <1>7, <2>1 DEF EndAs
    <2> QED
      BY <1>1, <1>7, <2>2, WorkMoves
  <1>8. ASSUME NEW enabled \in BOOLEAN, TaskStarts(i, enabled) PROVE BackInv'
    <2>1. workers[i].pc \notin Gone /\ UNCHANGED calls
      BY <1>8 DEF TaskStarts, WorkAt, Gone
    <2>2. CASE (EndAs(i, "FAILED") \/ EndAs(i, "CANCELLED")) /\ UNCHANGED bruns
      BY <1>0, <1>7, <2>1, <2>2 DEF TERMINAL_STATUSES
    <2>3. CASE /\ bruns' = [bruns EXCEPT ![i].st = "RUNNING"]
               /\ workers' = [workers EXCEPT ![i] = Stage("check", "", Checks)]
      <3>1. "check" \in WorkerPC
        BY DEF WorkerPC
      <3>2. PICK r : r = [bruns[i] EXCEPT !.st = "RUNNING"] /\ bruns' = [bruns EXCEPT ![i] = r]
        BY <1>0, <2>3
      <3>3. r \in Row /\ r.st = "RUNNING"
        BY <1>0, <1>d, <3>2 DEF Row
      <3>4. /\ bruns' \in Seq(Row) /\ Len(bruns') = Len(bruns) /\ bruns'[i].st = "RUNNING"
            /\ \A k \in Ids : k # i => bruns'[k].st = bruns[k].st
        BY <1>5, <3>2, <3>3
      <3>5. /\ workers' \in Seq(Worker) /\ Len(workers') = Len(workers)
            /\ \A k \in Ids : k # i => workers'[k] = workers[k]
        BY <1>3, <1>c, <2>3, <3>1
      <3> QED
        BY <1>d, <2>1, <3>4, <3>5, WorkMoves
    <2> QED
      BY <1>8, <2>2, <2>3 DEF TaskStarts
  <1>9. ASSUME NEW w \in Worker, workers' = [workers EXCEPT ![i] = w], workers[i].pc \notin Gone,
               UNCHANGED calls, bruns' \in Seq(Row), Len(bruns') = Len(bruns),
               \A k \in Ids : bruns'[k].st = bruns[k].st
        PROVE  BackInv'
    <2>1. /\ workers' \in Seq(Worker) /\ Len(workers') = Len(workers)
          /\ \A k \in Ids : k # i => workers'[k] = workers[k]
      BY <1>2, <1>9
    <2> QED
      BY <1>1, <1>9, <2>1, WorkMoves
  <1>10. CASE should_cancel(i)
    <2>1. workers[i].pc \notin Gone /\ UNCHANGED <<calls, bruns>>
      BY <1>10 DEF should_cancel, WorkAt, Gone
    <2>2. CASE EndAs(i, "CANCELLED")
      BY <1>0, <1>7, <2>1, <2>2 DEF TERMINAL_STATUSES
    <2>3. CASE WorkTo(i, "segment")
      <3>1. PICK w : w = [workers[i] EXCEPT !.pc = "segment"] /\ workers' = [workers EXCEPT ![i] = w]
        BY <1>0, <2>3 DEF WorkTo
      <3>2. w \in Worker
        BY <1>4, <3>1 DEF WorkerPC
      <3> QED
        BY <1>0, <1>9, <2>1, <3>1, <3>2
    <2> QED
      BY <1>10, <2>2, <2>3 DEF should_cancel
  <1>11. CASE _persist_segments(i)
    <2>1. workers[i].pc \notin Gone /\ UNCHANGED calls
      BY <1>11 DEF _persist_segments, WorkAt, Gone
    <2>a. PICK pc \in {"report", "check"} : pc = IF workers[i].left = 1 THEN "report" ELSE "check"
      OBVIOUS
    <2>2. PICK w : /\ w = [workers[i] EXCEPT !.left = workers[i].left - 1, !.pc = pc]
                   /\ workers' = [workers EXCEPT ![i] = w]
      BY <1>0, <1>11, <2>a DEF _persist_segments
    <2>3. w \in Worker
      <3>0. workers[i].left \in Int
        BY <1>0 DEF Worker
      <3>1. PICK m \in Int : m = workers[i].left - 1
        BY <3>0
      <3>2. w = [workers[i] EXCEPT !.left = m, !.pc = pc]
        BY <2>2, <3>1
      <3>3. pc # "save"
        BY <2>a
      <3> QED
        BY <1>0, <3>2, <3>3 DEF Worker, WorkerPC
    <2>4. PICK r : r = [bruns[i] EXCEPT !.segments = @ + 1] /\ bruns' = [bruns EXCEPT ![i] = r]
      BY <1>0, <1>11 DEF _persist_segments
    <2>5. r \in Row /\ r.st = bruns[i].st
      <3>1. PICK m \in Int : m = bruns[i].segments + 1
        BY <1>0 DEF Row
      <3>2. r = [bruns[i] EXCEPT !.segments = m]
        BY <2>4, <3>1
      <3> QED
        BY <1>0, <3>2 DEF Row
    <2>6. bruns' \in Seq(Row) /\ Len(bruns') = Len(bruns) /\ \A k \in Ids : bruns'[k].st = bruns[k].st
      BY <1>5, <2>4, <2>5
    <2> QED
      BY <1>9, <2>1, <2>2, <2>3, <2>6
  <1>12. ASSUME NEW v \in {"full", "evicted"}, bruns' = [bruns EXCEPT ![i].report = v]
        PROVE  bruns' \in Seq(Row) /\ Len(bruns') = Len(bruns) /\ \A k \in Ids : bruns'[k].st = bruns[k].st
    <2>1. PICK r : r = [bruns[i] EXCEPT !.report = v] /\ bruns' = [bruns EXCEPT ![i] = r]
      BY <1>0, <1>12
    <2>2. r \in Row /\ r.st = bruns[i].st
      BY <1>0, <2>1 DEF Row
    <2> QED
      BY <1>5, <2>1, <2>2
  <1>13. CASE BuildReport(i)
    <2>1. /\ bruns' = [bruns EXCEPT ![i].report = "full"] /\ EndAs(i, "COMPLETED")
          /\ UNCHANGED calls /\ workers[i].pc \notin Gone
      BY <1>13 DEF BuildReport, WorkAt, Gone
    <2>2. "COMPLETED" \in TERMINAL_STATUSES
      BY DEF TERMINAL_STATUSES
    <2> QED
      BY <1>7, <1>12, <2>1, <2>2
  <1>14. CASE TaskRaises(i)
    <2>1. EndAs(i, "FAILED") /\ UNCHANGED <<bruns, calls>> /\ workers[i].pc \notin Gone
      BY <1>14 DEF TaskRaises, Gone
    <2>2. "FAILED" \in TERMINAL_STATUSES
      BY DEF TERMINAL_STATUSES
    <2> QED
      BY <1>0, <1>7, <2>1, <2>2
  <1>15. CASE _terminal(i)
    <2>1. /\ bruns' = [bruns EXCEPT ![i].st = workers[i].st] /\ UNCHANGED calls
          /\ workers' = [workers EXCEPT ![i] = Stage("over", "", 0)] /\ workers[i].st \in Status
      BY <1>0, <1>15 DEF _terminal, WorkAt, Worker
    <2>2. PICK r : r = [bruns[i] EXCEPT !.st = workers[i].st] /\ bruns' = [bruns EXCEPT ![i] = r]
      BY <1>0, <2>1
    <2>3. r \in Row
      BY <1>0, <2>1, <2>2 DEF Row
    <2>4. /\ bruns' \in Seq(Row) /\ Len(bruns') = Len(bruns)
          /\ \A k \in Ids : k # i => bruns'[k].st = bruns[k].st
      BY <1>5, <2>2, <2>3
    <2>5. Stage("over", "", 0) \in Worker /\ Stage("over", "", 0).pc \in Gone
      <3>1. "over" \in WorkerPC \intersect Gone /\ "" \in Status \union {""} /\ 0 \in Int
        BY DEF WorkerPC, Gone
      <3>2. "over" = "save" => "" \in Status
        OBVIOUS
      <3> QED
        BY <3>1, <3>2, StageIs
    <2>6. /\ workers' \in Seq(Worker) /\ Len(workers') = Len(workers) /\ workers'[i].pc \in Gone
          /\ \A k \in Ids : k # i => workers'[k] = workers[k]
      BY <1>2, <2>1, <2>5
    <2> QED
      BY <2>1, <2>4, <2>6, WorkMoves
  <1>16. CASE WorkerDies(i)
    <2>1. UNCHANGED <<bruns, calls>> /\ workers' = [workers EXCEPT ![i] = Stage("dead", "", 0)]
      BY <1>16 DEF WorkerDies
    <2>2. Stage("dead", "", 0) \in Worker /\ Stage("dead", "", 0).pc \in Gone
      <3>1. "dead" \in WorkerPC \intersect Gone /\ "" \in Status \union {""} /\ 0 \in Int
        BY DEF WorkerPC, Gone
      <3>2. "dead" = "save" => "" \in Status
        OBVIOUS
      <3> QED
        BY <3>1, <3>2, StageIs
    <2>3. /\ workers' \in Seq(Worker) /\ Len(workers') = Len(workers) /\ workers'[i].pc \in Gone
          /\ \A k \in Ids : k # i => workers'[k] = workers[k]
      BY <1>2, <2>1, <2>2
    <2> QED
      BY <1>0, <2>1, <2>3, WorkMoves
  <1>17. CASE evict(i)
    <2>1. bruns' = [bruns EXCEPT ![i].report = "evicted"] /\ UNCHANGED <<calls, workers>>
      BY <1>17 DEF evict
    <2>2. bruns' \in Seq(Row) /\ Len(bruns') = Len(bruns) /\ \A k \in Ids : bruns'[k].st = bruns[k].st
      BY <1>12, <2>1
    <2> QED
      BY <1>0, <1>1, <2>1, <2>2, WorkMoves
  <1> QED
    BY <1>6, <1>8, <1>10, <1>11, <1>13, <1>14, <1>15, <1>16, <1>17 DEF Works

-----------------------------------------------------------------------------
LEMMA BackInitInv == BackInit => BackInv
  <1> SUFFICES ASSUME BackInit PROVE BackInv
    OBVIOUS
  <1>1. BackTypes
    BY DEF BackInit, BackTypes, Call
  <1>2. Ids = {} /\ Working = {} /\ Posting = {}
    BY DEF BackInit, Ids, Working, Posting
  <1>3. Cardinality(Clients) \in Nat /\ Cardinality(Clients) # 0 /\ Cap \in Nat
    BY BacktestsAssumption, FS_CardinalityType, FS_EmptySet
  <1>4. Cardinality(Working) = 0 /\ Cardinality(Posting) = 0
    BY <1>2, FS_EmptySet
  <1>5. Bound
    BY <1>3, <1>4 DEF Bound
  <1> QED
    BY <1>1, <1>2, <1>5 DEF BackInv, ActiveAtWork

LEMMA BackNextInv == BackInv /\ [BackNext]_backVars => BackInv'
  <1> SUFFICES ASSUME BackInv, [BackNext]_backVars PROVE BackInv'
    OBVIOUS
  <1>1. CASE BackNext
    BY <1>1, ClientStepInv, WorkStepInv DEF BackNext
  <1>2. CASE UNCHANGED backVars
    BY <1>2 DEF backVars, BackInv, BackTypes, ActiveAtWork, Bound, Working, Posting, Ids, is_active
  <1> QED
    BY <1>1, <1>2

LEMMA BackInvHolds == BackInv => CapHolds
  <1> SUFFICES ASSUME BackInv PROVE CapHolds
    OBVIOUS
  <1>1. {i \in Ids : is_active(i) /\ ~WorkAt(i, "over") /\ ~WorkAt(i, "dead")} = Working
    BY DEF BackInv, ActiveAtWork, Working, WorkAt, Gone
  <1>2. Cardinality(Working) \in Nat /\ Cardinality(Posting) \in Nat
    BY BackFinite DEF BackInv
  <1>3. Cardinality(Clients) \in Nat /\ Cap \in Nat
    BY BacktestsAssumption, FS_CardinalityType
  <1>4. Cardinality(Working) <= Cap + Cardinality(Clients) - 1
    BY <1>2, <1>3 DEF BackInv, Bound
  <1> QED
    BY <1>1, <1>4 DEF CapHolds

\* However many POSTs count the runs at once and whenever workers die or cancels
\* land: the runs that are active and worked on never pass the cap by more than
\* one for each further POST in flight (_active_count and create, backtest/views.py).
THEOREM CapIsKept == BackSpec => []CapHolds
  <1>1. BackInit => BackInv
    BY BackInitInv
  <1>2. BackInv /\ [BackNext]_backVars => BackInv'
    BY BackNextInv
  <1>3. BackInv => CapHolds
    BY BackInvHolds
  <1> QED
    BY <1>1, <1>2, <1>3, PTL DEF BackSpec

-----------------------------------------------------------------------------
(* Replay: every price, volume and length, every sequence of bars and signals.     *)

Ledgers == [cash : Int, pos : _Position, pending : Nat, leaving : BOOLEAN, pnl : Int]

\* What was paid and not yet booked is what the position cost; a position that
\* is not complete has paid no commission, an empty one has cost nothing, and
\* none is larger than what was wanted.
Balanced(s) ==
    /\ s.cash + s.pos.cost + s.pos.comm = s.pnl
    /\ s.pos.qty = 0 => s.pos.cost = 0 /\ ~s.pos.complete
    /\ ~s.pos.complete => s.pos.comm = 0
    /\ s.pos.qty <= s.pos.target

\* A signal waits for the next open: an entry when nothing is open, an exit when
\* the position is complete.
Waiting(s) ==
    /\ s.pending > 0 => ~Open(s.pos)
    /\ s.leaving => s.pos.complete

Sound(s) == s \in Ledgers /\ Balanced(s)

ReplayInv ==
    /\ bar \in Nat /\ Sound(State) /\ Waiting(State)
    /\ bar > Bars => pos.qty = 0 /\ pending = 0

-----------------------------------------------------------------------------
LEMMA NoPositionType == NoPosition \in _Position
  BY DEF NoPosition, _Position

LEMMA CommissionType == ASSUME NEW q \in Nat PROVE _commission(q) \in Nat
  BY ReplayAssumption DEF _commission

\* Closing books the pnl and leaves nothing held.
LEMMA CloseSound ==
  ASSUME NEW s, Sound(s), NEW price \in Int
  PROVE  /\ Sound(_close(s, price)) /\ _close(s, price).pos = NoPosition
         /\ _close(s, price).pending = s.pending /\ _close(s, price).leaving = s.leaving
  <1> DEFINE proceeds == s.pos.qty * price
             comm == _commission(s.pos.qty)
             after == _close(s, price)
  <1>1. s \in Ledgers /\ s.pos \in _Position
    BY DEF Sound, Ledgers
  <1>b. /\ s.cash \in Int /\ s.pnl \in Int /\ s.pos.cost \in Nat /\ s.pos.comm \in Nat
        /\ s.cash + s.pos.cost + s.pos.comm = s.pnl
    BY <1>1 DEF Sound, Balanced, Ledgers, _Position
  <1>2. comm \in Nat /\ proceeds \in Int
    BY <1>1, CommissionType DEF _Position
  <1>3. after = [s EXCEPT !.cash = s.cash + proceeds - comm,
                      !.pos = NoPosition,
                      !.pnl = s.pnl + proceeds - s.pos.cost - s.pos.comm - comm]
    BY <1>1 DEF _close, Ledgers
  <1> HIDE DEF proceeds, comm, after
  <1>4. PICK c \in Int, g \in Int :
          /\ c = s.cash + proceeds - comm
          /\ g = s.pnl + proceeds - s.pos.cost - s.pos.comm - comm
    BY <1>1, <1>2 DEF Ledgers, _Position
  <1>5. after = [s EXCEPT !.cash = c, !.pos = NoPosition, !.pnl = g]
    BY <1>3, <1>4
  <1>6. /\ after \in Ledgers /\ after.cash = c /\ after.pos = NoPosition /\ after.pnl = g
        /\ after.pending = s.pending /\ after.leaving = s.leaving
    BY <1>1, <1>5, NoPositionType DEF Ledgers
  <1>7. c = g
    BY <1>2, <1>4, <1>b
  <1>8. Balanced(after)
    BY <1>6, <1>7 DEF Balanced, NoPosition
  <1> QED
    BY <1>6, <1>8 DEF Sound, after

LEMMA ChargeSound ==
  ASSUME NEW s, Sound(s), ~s.pos.complete, s.pos.qty > 0
  PROVE  /\ Sound(Charged(s)) /\ Charged(s).pos.qty > 0 /\ Charged(s).pos.complete
         /\ Charged(s).pending = s.pending /\ Charged(s).leaving = s.leaving
  <1> DEFINE comm == _commission(s.pos.qty)
             after == Charged(s)
  <1>1. s \in Ledgers /\ s.pos \in _Position
    BY DEF Sound, Ledgers
  <1>b. /\ s.cash \in Int /\ s.pnl \in Int /\ s.pos.cost \in Nat /\ s.pos.comm \in Nat
        /\ s.cash + s.pos.cost + s.pos.comm = s.pnl
    BY <1>1 DEF Sound, Balanced, Ledgers, _Position
  <1>2. comm \in Nat
    BY <1>1, CommissionType DEF _Position
  <1>3. PICK p : p = [s.pos EXCEPT !.complete = TRUE, !.comm = comm]
    OBVIOUS
  <1>4. /\ p \in _Position /\ p.complete /\ p.comm = comm /\ p.qty = s.pos.qty
        /\ p.cost = s.pos.cost /\ p.target = s.pos.target
    BY <1>1, <1>2, <1>3 DEF _Position
  <1>5. after = [s EXCEPT !.cash = s.cash - comm, !.pos = p, !.pnl = s.pnl]
    BY <1>1, <1>3 DEF Charged, Ledgers, _Position
  <1> HIDE DEF comm, after
  <1>6. PICK c \in Int : c = s.cash - comm
    BY <1>2, <1>b
  <1>7. /\ after \in Ledgers /\ after.cash = s.cash - comm /\ after.pos = p /\ after.pnl = s.pnl
        /\ after.pending = s.pending /\ after.leaving = s.leaving
    BY <1>1, <1>4, <1>5, <1>6 DEF Ledgers
  <1>8. Balanced(after)
    <2>1. after.cash + after.pos.cost + after.pos.comm = after.pnl
      <3>1. s.pos.comm = 0
        BY DEF Sound, Balanced
      <3> QED
        BY <1>2, <1>4, <1>7, <1>b, <3>1
    <2> QED
      BY <1>1, <1>4, <1>7, <2>1 DEF Sound, Balanced, _Position
  <1> QED
    BY <1>4, <1>7, <1>8 DEF Sound, after

\* A fill moves its price from the cash to the cost.
LEMMA FillSound ==
  ASSUME NEW s, Sound(s), NEW b \in Bar, Open(s.pos), ~s.pos.complete
  PROVE  /\ Sound(Filled(s, b)) /\ Open(Filled(s, b).pos) /\ ~Filled(s, b).pos.complete
         /\ Filled(s, b).pending = s.pending /\ Filled(s, b).leaving = s.leaving
  <1> DEFINE fill == Lesser(s.pos.target - s.pos.qty, b.room)
             paid == fill * (b.open + Slip)
             after == Filled(s, b)
  <1>1. s \in Ledgers /\ s.pos \in _Position
    BY DEF Sound, Ledgers
  <1>b. /\ s.cash \in Int /\ s.pnl \in Int /\ s.pos.cost \in Nat /\ s.pos.comm \in Nat
        /\ s.cash + s.pos.cost + s.pos.comm = s.pnl
    BY <1>1 DEF Sound, Balanced, Ledgers, _Position
  <1>2. fill \in Nat /\ fill <= s.pos.target - s.pos.qty
    <2>1. b.room \in Nat
      BY ReplayAssumption DEF Bar
    <2> QED
      BY <1>1, <2>1 DEF Sound, Balanced, _Position, Lesser
  <1>3. b.open + Slip \in Nat
    <2>1. b.open \in Nat
      BY ReplayAssumption DEF Bar
    <2>2. Slip \in Nat
      BY ReplayAssumption
    <2> QED
      BY <2>1, <2>2
  <1>4. paid \in Nat /\ (fill = 0 => paid = 0)
    BY <1>2, <1>3
  <1>5. PICK p : p = [s.pos EXCEPT !.qty = s.pos.qty + fill, !.cost = s.pos.cost + paid,
                                   !.filling = s.pos.filling + 1]
    OBVIOUS
  <1>6. after = [s EXCEPT !.cash = s.cash - paid, !.pos = p, !.pnl = s.pnl]
    BY <1>1, <1>5 DEF Filled, Ledgers, _Position
  <1> HIDE DEF fill, paid, after
  <1>7. /\ p \in _Position /\ p.qty = s.pos.qty + fill /\ p.cost = s.pos.cost + paid
        /\ p.target = s.pos.target /\ p.comm = s.pos.comm /\ ~p.complete
    <2>1. PICK q \in Nat, c \in Nat, n \in Nat :
            q = s.pos.qty + fill /\ c = s.pos.cost + paid /\ n = s.pos.filling + 1
      BY <1>1, <1>2, <1>4 DEF _Position
    <2>2. p = [s.pos EXCEPT !.qty = q, !.cost = c, !.filling = n]
      BY <1>5, <2>1
    <2> QED
      BY <1>1, <2>1, <2>2 DEF _Position
  <1>8. PICK c \in Int : c = s.cash - paid
    BY <1>4, <1>b
  <1>9. /\ after \in Ledgers /\ after.cash = s.cash - paid /\ after.pos = p /\ after.pnl = s.pnl
        /\ after.pending = s.pending /\ after.leaving = s.leaving
    BY <1>1, <1>6, <1>7, <1>8 DEF Ledgers
  <1>10. Balanced(after)
    <2>1. after.cash + after.pos.cost + after.pos.comm = after.pnl
      BY <1>4, <1>7, <1>9, <1>b
    <2>2. after.pos.qty = 0 => after.pos.cost = 0
      BY <1>1, <1>2, <1>4, <1>7, <1>9 DEF Sound, Balanced, _Position
    <2>3. after.pos.qty <= after.pos.target
      BY <1>1, <1>2, <1>7, <1>9 DEF _Position
    <2>4. after.pos.comm = 0
      BY <1>7, <1>9 DEF Sound, Balanced
    <2> QED
      BY <1>7, <1>9, <2>1, <2>2, <2>3, <2>4 DEF Balanced
  <1>11. Open(after.pos)
    BY <1>7, <1>9 DEF Open
  <1> QED
    BY <1>7, <1>9, <1>10, <1>11 DEF Sound, after

-----------------------------------------------------------------------------
(* The steps of one bar, in the order of the loop.                              *)

LEMMA ExitAtOpenSound ==
  ASSUME NEW s, Sound(s), Waiting(s), NEW b \in Bar
  PROVE  /\ Sound(ExitAtOpen(s, b)) /\ ~ExitAtOpen(s, b).leaving
         /\ ExitAtOpen(s, b).pending > 0 => ~Open(ExitAtOpen(s, b).pos)
  <1>1. s \in Ledgers /\ s.pos \in _Position
    BY DEF Sound, Ledgers
  <1>2. CASE ~s.leaving
    BY <1>2 DEF ExitAtOpen, Waiting
  <1>3. CASE s.leaving
    <2>1. s.pos.complete /\ s.pos.qty > 0
      BY <1>1, <1>3 DEF Waiting, Sound, Balanced, _Position
    <2>2. b.open - Slip \in Int
      <3>1. b.open \in Nat
        BY ReplayAssumption DEF Bar
      <3>2. Slip \in Int
        BY ReplayAssumption
      <3> QED
        BY <3>1, <3>2
    <2> DEFINE u == _close(s, b.open - Slip)
    <2>3. ExitAtOpen(s, b) = [u EXCEPT !.leaving = FALSE]
      BY <1>3, <2>1 DEF ExitAtOpen
    <2>4. Sound(u) /\ u.pos = NoPosition
      BY <2>2, CloseSound
    <2> HIDE DEF u
    <2>5. PICK after : after = [u EXCEPT !.leaving = FALSE]
      OBVIOUS
    <2>6. after \in Ledgers /\ ~after.leaving /\ after.pos = u.pos /\ after.cash = u.cash /\ after.pnl = u.pnl
      BY <2>4, <2>5 DEF Sound, Ledgers
    <2>7. Balanced(after)
      BY <2>4, <2>6 DEF Sound, Balanced
    <2>8. ~Open(after.pos)
      BY <2>4, <2>6 DEF Open, NoPosition
    <2> QED
      BY <2>3, <2>5, <2>6, <2>7, <2>8 DEF Sound
  <1> QED
    BY <1>2, <1>3

LEMMA BegunSound ==
  ASSUME NEW s, Sound(s), ~s.leaving, s.pending > 0 => ~Open(s.pos)
  PROVE  Sound(Begun(s)) /\ ~Begun(s).leaving /\ Begun(s).pending = 0
  <1>1. s \in Ledgers /\ s.pos \in _Position /\ s.pending \in Nat
    BY DEF Sound, Ledgers
  <1>2. CASE s.pending = 0
    BY <1>1, <1>2 DEF Begun
  <1>3. CASE s.pending > 0
    <2>1. PICK p : p = [NoPosition EXCEPT !.target = s.pending]
      OBVIOUS
    <2>2. p \in _Position /\ p.cost = 0 /\ p.comm = 0 /\ p.qty = 0 /\ ~p.complete /\ p.target = s.pending
      BY <1>1, <2>1 DEF NoPosition, _Position
    <2>3. PICK after : after = [s EXCEPT !.pos = p, !.pending = 0]
      OBVIOUS
    <2>4. Begun(s) = after
      BY <1>3, <2>1, <2>3 DEF Begun
    <2>5. /\ after \in Ledgers /\ after.pos = p /\ after.pending = 0 /\ after.leaving = s.leaving
          /\ after.cash = s.cash /\ after.pnl = s.pnl
      BY <1>1, <2>2, <2>3 DEF Ledgers
    <2>6. s.pos.qty = 0
      BY <1>1, <1>3 DEF Sound, Balanced, Open, _Position
    <2>7. s.pos.cost = 0 /\ s.pos.comm = 0
      BY <2>6 DEF Sound, Balanced
    <2>8. s.cash \in Int /\ s.cash + s.pos.cost + s.pos.comm = s.pnl
      BY <1>1 DEF Sound, Balanced, Ledgers
    <2>9. after.cash + p.cost + p.comm = after.pnl
      BY <2>2, <2>5, <2>7, <2>8
    <2>10. p.qty <= p.target
      BY <1>1, <2>2
    <2>11. Balanced(after)
      BY <2>2, <2>5, <2>9, <2>10 DEF Balanced
    <2> QED
      BY <2>4, <2>5, <2>11 DEF Sound
  <1> QED
    BY <1>1, <1>2, <1>3

LEMMA CompletedSound ==
  ASSUME NEW s, Sound(s), ~s.pos.complete
  PROVE  /\ Sound(Completed(s))
         /\ Completed(s).pending = s.pending /\ Completed(s).leaving = s.leaving
  <1>1. s \in Ledgers /\ s.pos \in _Position
    BY DEF Sound, Ledgers
  <1>2. CASE s.pos.qty < s.pos.target /\ s.pos.filling < MaxFillBars
    BY <1>2 DEF Completed
  <1>3. CASE ~(s.pos.qty < s.pos.target /\ s.pos.filling < MaxFillBars) /\ s.pos.qty = 0
    <2>1. PICK after : after = [s EXCEPT !.pos = NoPosition]
      OBVIOUS
    <2>2. Completed(s) = after
      BY <1>3, <2>1 DEF Completed
    <2>3. /\ after \in Ledgers /\ after.pos = NoPosition /\ after.pending = s.pending /\ after.leaving = s.leaving
          /\ after.cash = s.cash /\ after.pnl = s.pnl
      BY <1>1, <2>1, NoPositionType DEF Ledgers
    <2>4. s.pos.cost = 0 /\ s.pos.comm = 0
      BY <1>3 DEF Sound, Balanced
    <2>5. s.cash \in Int /\ s.cash + s.pos.cost + s.pos.comm = s.pnl
      BY <1>1 DEF Sound, Balanced, Ledgers
    <2>6. Balanced(after)
      BY <2>3, <2>4, <2>5 DEF Balanced, NoPosition
    <2> QED
      BY <2>2, <2>3, <2>6 DEF Sound
  <1>4. CASE ~(s.pos.qty < s.pos.target /\ s.pos.filling < MaxFillBars) /\ s.pos.qty # 0
    <2>1. s.pos.qty > 0
      BY <1>1, <1>4 DEF _Position
    <2>2. Completed(s) = Charged(s)
      BY <1>4 DEF Completed
    <2> QED
      BY <2>1, <2>2, ChargeSound
  <1> QED
    BY <1>2, <1>3, <1>4

LEMMA EnterAtOpenSound ==
  ASSUME NEW s, Sound(s), ~s.leaving, s.pending > 0 => ~Open(s.pos), NEW b \in Bar
  PROVE  Sound(EnterAtOpen(s, b)) /\ ~EnterAtOpen(s, b).leaving /\ EnterAtOpen(s, b).pending = 0
  <1> DEFINE after == Begun(s)
  <1>1. Sound(after) /\ ~after.leaving /\ after.pending = 0
    BY BegunSound
  <1>2. EnterAtOpen(s, b) = IF Open(after.pos) /\ ~after.pos.complete THEN Completed(Filled(after, b)) ELSE after
    BY DEF EnterAtOpen
  <1> HIDE DEF after
  <1>3. CASE Open(after.pos) /\ ~after.pos.complete
    <2>1. /\ Sound(Filled(after, b)) /\ ~Filled(after, b).pos.complete
          /\ Filled(after, b).pending = after.pending /\ Filled(after, b).leaving = after.leaving
      BY <1>1, <1>3, FillSound
    <2> QED
      BY <1>1, <1>2, <1>3, <2>1, CompletedSound
  <1>4. CASE ~(Open(after.pos) /\ ~after.pos.complete)
    BY <1>1, <1>2, <1>4
  <1> QED
    BY <1>3, <1>4

LEMMA ExitInBarSound ==
  ASSUME NEW s, Sound(s), ~s.leaving, s.pending = 0, NEW b \in Bar
  PROVE  Sound(ExitInBar(s, b)) /\ ~ExitInBar(s, b).leaving /\ ExitInBar(s, b).pending = 0
  <1>1. _check_exit(b) - Slip \in Int
    <2>1. b.open \in Nat /\ b.level \in Nat
      BY ReplayAssumption DEF Bar
    <2>2. Slip \in Int
      BY ReplayAssumption
    <2>3. _check_exit(b) \in Int
      BY <2>1 DEF _check_exit, Lesser
    <2> QED
      BY <2>2, <2>3
  <1> QED
    BY <1>1, CloseSound DEF ExitInBar

LEMMA ForceCloseSound ==
  ASSUME NEW s, Sound(s), ~s.leaving, s.pending = 0, NEW b \in Bar
  PROVE  /\ Sound(ForceClose(s, b)) /\ ~ForceClose(s, b).leaving /\ ForceClose(s, b).pending = 0
         /\ bar = Bars => ForceClose(s, b).pos.qty = 0
  <1>1. s.pos.qty \in Nat
    BY DEF Sound, Ledgers, _Position
  <1>2. CASE ~(bar = Bars /\ s.pos.qty > 0)
    BY <1>1, <1>2 DEF ForceClose
  <1>3. CASE bar = Bars /\ s.pos.qty > 0
    <2> DEFINE u == IF s.pos.complete THEN s ELSE Charged(s)
               price == b.close - Slip
    <2>1. Sound(u) /\ u.pending = s.pending /\ u.leaving = s.leaving
      BY <1>3, ChargeSound
    <2>2. price \in Int
      <3>1. b.close \in Nat
        BY ReplayAssumption DEF Bar
      <3>2. Slip \in Int
        BY ReplayAssumption
      <3> QED
        BY <3>1, <3>2
    <2>3. ForceClose(s, b) = _close(u, price)
      BY <1>3 DEF ForceClose
    <2> HIDE DEF u, price
    <2>4. NoPosition.qty = 0
      BY DEF NoPosition
    <2> QED
      BY <2>1, <2>2, <2>3, <2>4, CloseSound
  <1> QED
    BY <1>2, <1>3

LEMMA SignalsSound ==
  ASSUME NEW s, Sound(s), ~s.leaving, s.pending = 0, NEW b \in Bar, NEW qty \in Nat
  PROVE  /\ Sound(Signals(s, b, qty)) /\ Waiting(Signals(s, b, qty))
         /\ Signals(s, b, qty).pos = s.pos
         /\ bar < Bars \/ Signals(s, b, qty).pending = 0
  <1>1. s \in Ledgers
    BY DEF Sound
  <1>2. CASE Signals(s, b, qty) = s
    BY <1>2 DEF Waiting
  <1>3. CASE Signals(s, b, qty) = [s EXCEPT !.pending = qty] /\ ~Open(s.pos) /\ bar < Bars
    <2>1. PICK after : after = [s EXCEPT !.pending = qty]
      OBVIOUS
    <2>2. after \in Ledgers /\ after.pos = s.pos /\ after.cash = s.cash /\ after.pnl = s.pnl /\ after.leaving = s.leaving
      BY <1>1, <2>1 DEF Ledgers
    <2> QED
      BY <1>3, <2>1, <2>2 DEF Sound, Balanced, Waiting
  <1>4. CASE Signals(s, b, qty) = [s EXCEPT !.leaving = TRUE] /\ s.pos.complete
    <2>1. PICK after : after = [s EXCEPT !.leaving = TRUE]
      OBVIOUS
    <2>2. after \in Ledgers /\ after.pos = s.pos /\ after.cash = s.cash /\ after.pnl = s.pnl /\ after.pending = s.pending
      BY <1>1, <2>1 DEF Ledgers
    <2>3. ~(after.pending > 0)
      BY <2>2
    <2> QED
      BY <1>4, <2>1, <2>2, <2>3 DEF Sound, Balanced, Waiting
  <1> QED
    BY <1>2, <1>3, <1>4 DEF Signals

-----------------------------------------------------------------------------
LEMMA ReplayInitInv == ReplayInit => ReplayInv
  <1> SUFFICES ASSUME ReplayInit PROVE ReplayInv
    OBVIOUS
  <1>0. State = [cash |-> 0, pos |-> NoPosition, pending |-> 0, leaving |-> FALSE, pnl |-> 0]
    BY DEF ReplayInit, State
  <1>1. /\ State \in Ledgers /\ State.pos = NoPosition /\ State.cash = 0 /\ State.pnl = 0
        /\ State.pending = 0 /\ ~State.leaving
    BY <1>0, NoPositionType DEF Ledgers
  <1>2. Balanced(State) /\ Waiting(State)
    BY <1>1 DEF Balanced, Waiting, NoPosition
  <1> QED
    BY <1>1, <1>2 DEF ReplayInit, ReplayInv, Sound, NoPosition

LEMMA ReplayNextInv == ReplayInv /\ [ReplayNext]_replayVars => ReplayInv'
  <1> SUFFICES ASSUME ReplayInv, [ReplayNext]_replayVars PROVE ReplayInv'
    OBVIOUS
  <1>1. CASE UNCHANGED replayVars
    BY <1>1 DEF ReplayInv, replayVars, State
  <1>2. ASSUME NEW b \in Bar, NEW qty \in Wanted, ReplayBar(b, qty) PROVE ReplayInv'
    <2> DEFINE s1 == ExitAtOpen(State, b)
               s2 == EnterAtOpen(s1, b)
               s3 == ExitInBar(s2, b)
               s4 == ForceClose(s3, b)
               after  == Signals(s4, b, qty)
    <2>0. bar \in Nat /\ Bars \in Nat /\ qty \in Nat
      BY ReplayAssumption DEF ReplayInv
    <2>1. /\ bar <= Bars /\ bar' = bar + 1
          /\ cash' = after.cash /\ pos' = after.pos /\ pending' = after.pending
          /\ leaving' = after.leaving /\ pnl' = after.pnl
      BY <1>2 DEF ReplayBar
    <2> HIDE DEF after
    <2>2. Sound(s1) /\ ~s1.leaving /\ (s1.pending > 0 => ~Open(s1.pos))
      BY ExitAtOpenSound DEF ReplayInv
    <2> HIDE DEF s1
    <2>3. Sound(s2) /\ ~s2.leaving /\ s2.pending = 0
      BY <2>2, EnterAtOpenSound
    <2> HIDE DEF s2
    <2>4. Sound(s3) /\ ~s3.leaving /\ s3.pending = 0
      BY <2>3, ExitInBarSound
    <2> HIDE DEF s3
    <2>5. Sound(s4) /\ ~s4.leaving /\ s4.pending = 0 /\ (bar = Bars => s4.pos.qty = 0)
      BY <2>4, ForceCloseSound
    <2> HIDE DEF s4
    <2>6. Sound(after) /\ Waiting(after) /\ after.pos = s4.pos /\ (bar < Bars \/ after.pending = 0)
      BY <2>0, <2>5, SignalsSound DEF after
    <2>7. State' = after
      <3>1. State' = [cash |-> after.cash, pos |-> after.pos, pending |-> after.pending,
                      leaving |-> after.leaving, pnl |-> after.pnl]
        BY <2>1 DEF State
      <3>2. after \in Ledgers
        BY <2>6 DEF Sound
      <3> QED
        BY <3>1, <3>2 DEF Ledgers
    <2>8. Sound(State)' /\ Waiting(State)'
      BY <2>6, <2>7 DEF Sound, Balanced, Waiting, Open
    <2>9. bar' \in Nat /\ (bar' > Bars => bar = Bars)
      BY <2>0, <2>1
    <2>10. bar' > Bars => pos'.qty = 0 /\ pending' = 0
      BY <2>0, <2>1, <2>5, <2>6, <2>9
    <2> QED
      BY <2>8, <2>9, <2>10 DEF ReplayInv
  <1> QED
    BY <1>1, <1>2 DEF ReplayNext

\* The books of every replay balance and are closed (replay_engine.py:169-345):
\* what the cash made is the sum of the trades' pnl, and nothing is held after
\* the last bar.
THEOREM BooksAlwaysClose == ReplaySpec => []BooksClose
  <1>1. ReplayInv => BooksClose
    <2> SUFFICES ASSUME ReplayInv PROVE BooksClose
      OBVIOUS
    <2>1. /\ State.cash = cash /\ State.pos = pos /\ State.pending = pending
          /\ State.leaving = leaving /\ State.pnl = pnl
      BY DEF State
    <2>2. pos \in _Position /\ pending \in Nat /\ cash \in Int /\ pnl \in Int
      BY <2>1 DEF ReplayInv, Sound, Ledgers
    <2>3. pos.qty = 0 => cash = pnl
      <3>1. pos.qty = 0 => pos.cost = 0 /\ pos.comm = 0
        BY <2>1 DEF ReplayInv, Sound, Balanced
      <3>2. cash + pos.cost + pos.comm = pnl
        BY <2>1 DEF ReplayInv, Sound, Balanced
      <3> QED
        BY <2>2, <3>1, <3>2
    <2>4. leaving => pos.complete /\ pos.qty > 0
      BY <2>1, <2>2 DEF ReplayInv, Sound, Balanced, Waiting, _Position
    <2> QED
      BY <2>2, <2>3, <2>4 DEF BooksClose, ReplayTypeOK, BooksBalance, ClosedOut, ReplayInv
  <1> QED
    BY <1>1, ReplayInitInv, ReplayNextInv, PTL DEF ReplaySpec
-----------------------------------------------------------------------------
(* What is finished is whole: every backtest has its segments and its report, every *)
(* screen has accounted for its candidates.                                         *)

\* Where a worker is with a run, and what the run's row has of it by then.
Whole(r, w) ==
    /\ r.segments \in 0..Checks
    /\ w.pc \in {"queued", "read"} => r.segments = 0
    /\ w.pc \in {"check", "segment"} => w.left = Checks - r.segments /\ w.left >= 1
    /\ w.pc = "report" => r.segments = Checks
    /\ w.pc = "save" /\ w.st = "COMPLETED" => r.segments = Checks /\ r.report # "none"
    /\ r.st = "COMPLETED" => r.segments = Checks /\ r.report # "none"

WholeInv == \A i \in Ids : Whole(bruns[i], workers[i])

\* A cancel that is saved late, a new run: the other rows stay, or are cancelled.
LEMMA ClientStepWhole ==
  ASSUME BackInv, WholeInv, NEW c \in Clients,
         CountActive(c) \/ CreateRun(c) \/ CancelSave(c) \/ \E i \in Ids : CancelRead(c, i)
  PROVE  WholeInv'
  <1>0. /\ bruns \in Seq(Row) /\ workers \in Seq(Worker) /\ Len(workers) = Len(bruns)
        /\ Len(bruns) \in Nat /\ Ids = 1..Len(bruns) /\ Checks \in Nat \ {0}
    BY BacktestsAssumption DEF BackInv, BackTypes, Ids
  <1>1. CASE UNCHANGED <<bruns, workers>>
    BY <1>1 DEF WholeInv, Ids
  <1>2. CASE CreateRun(c)
    <2> DEFINE r == [st |-> "QUEUED", segments |-> 0, report |-> "none"]
               w == Stage("queued", "", Checks)
               n == Len(bruns) + 1
    <2>1. bruns' = Append(bruns, r) /\ workers' = Append(workers, w)
      BY <1>2 DEF CreateRun
    <2>2. Whole(r, w)
      BY <1>0 DEF Whole, Stage
    <2> HIDE DEF r, w
    <2>3. /\ Ids' = Ids \union {n} /\ bruns'[n] = r /\ workers'[n] = w
          /\ \A i \in Ids : bruns'[i] = bruns[i] /\ workers'[i] = workers[i]
      BY <1>0, <2>1 DEF Ids
    <2> QED
      BY <2>2, <2>3 DEF WholeInv
  <1>3. CASE CancelSave(c)
    <2>1. PICK j : j = calls[c].ref
      OBVIOUS
    <2>2. bruns' = [bruns EXCEPT ![j].st = "CANCELLING"] /\ UNCHANGED workers
      BY <1>3, <2>1 DEF CancelSave
    <2>3. Ids' = Ids
      BY <1>0, <2>2 DEF Ids
    <2>4. ASSUME NEW i \in Ids PROVE Whole(bruns'[i], workers[i])
      <3>1. CASE i = j
        <4>1. bruns'[i] = [bruns[i] EXCEPT !.st = "CANCELLING"] /\ bruns[i] \in Row
          BY <1>0, <2>2, <3>1
        <4>2. /\ bruns'[i].segments = bruns[i].segments /\ bruns'[i].report = bruns[i].report
              /\ bruns'[i].st # "COMPLETED"
          BY <4>1 DEF Row
        <4> QED
          BY <4>2 DEF WholeInv, Whole
      <3>2. CASE i # j
        BY <1>0, <2>2, <3>2 DEF WholeInv
      <3> QED
        BY <3>1, <3>2
    <2> QED
      BY <2>2, <2>3, <2>4 DEF WholeInv
  <1> QED
    BY <1>1, <1>2, <1>3 DEF CountActive, CancelRead

LEMMA WorkStepWhole ==
  ASSUME BackInv, WholeInv, NEW i \in Ids, Works(i) \/ TaskRaises(i) \/ WorkerDies(i) \/ evict(i)
  PROVE  WholeInv'
  <1>0. /\ bruns \in Seq(Row) /\ workers \in Seq(Worker) /\ Len(workers) = Len(bruns)
        /\ Len(bruns) \in Nat /\ Ids = 1..Len(bruns) /\ Checks \in Nat \ {0}
        /\ bruns[i] \in Row /\ workers[i] \in Worker /\ Whole(bruns[i], workers[i])
    BY BacktestsAssumption DEF BackInv, BackTypes, Ids, WholeInv
  <1>1. ASSUME NEW r, NEW w, Whole(r, w), bruns' = [bruns EXCEPT ![i] = r],
               workers' = [workers EXCEPT ![i] = w]
        PROVE  WholeInv'
    <2>1. /\ Ids' = Ids /\ bruns'[i] = r /\ workers'[i] = w
          /\ \A k \in Ids : k # i => bruns'[k] = bruns[k] /\ workers'[k] = workers[k]
      BY <1>0, <1>1 DEF Ids
    <2> QED
      BY <1>1, <2>1 DEF WholeInv
  <1>2. /\ UNCHANGED bruns => bruns' = [bruns EXCEPT ![i] = bruns[i]]
        /\ UNCHANGED workers => workers' = [workers EXCEPT ![i] = workers[i]]
    BY <1>0
  <1>3. ASSUME NEW st \in {"FAILED", "CANCELLED"}, EndAs(i, st), UNCHANGED bruns PROVE WholeInv'
    <2>1. Whole(bruns[i], Stage("save", st, 0))
      BY <1>0 DEF Whole, Stage
    <2> QED
      BY <1>1, <1>2, <1>3, <2>1 DEF EndAs
  <1>4. CASE TaskReadsRun(i)
    <2>1. Whole(bruns[i], Stage("read", bruns[i].st, Checks))
      BY <1>0, <1>4 DEF TaskReadsRun, WorkAt, Whole, Stage
    <2> QED
      BY <1>1, <1>2, <1>4, <2>1 DEF TaskReadsRun
  <1>5. ASSUME NEW enabled \in BOOLEAN, TaskStarts(i, enabled) PROVE WholeInv'
    <2>1. CASE /\ bruns' = [bruns EXCEPT ![i].st = "RUNNING"]
               /\ workers' = [workers EXCEPT ![i] = Stage("check", "", Checks)]
      <3>1. PICK r : r = [bruns[i] EXCEPT !.st = "RUNNING"] /\ bruns' = [bruns EXCEPT ![i] = r]
        BY <1>0, <2>1
      <3>2. r.segments = 0 /\ r.st = "RUNNING" /\ r.report = bruns[i].report
        BY <1>0, <1>5, <3>1 DEF TaskStarts, WorkAt, Whole, Row
      <3>3. Whole(r, Stage("check", "", Checks))
        BY <1>0, <3>2 DEF Whole, Stage
      <3> QED
        BY <1>1, <2>1, <3>1, <3>3
    <2> QED
      BY <1>3, <1>5, <2>1 DEF TaskStarts
  <1>6. CASE should_cancel(i)
    <2>1. CASE WorkTo(i, "segment") /\ UNCHANGED bruns
      <3>1. PICK w : w = [workers[i] EXCEPT !.pc = "segment"] /\ workers' = [workers EXCEPT ![i] = w]
        BY <1>0, <2>1 DEF WorkTo
      <3>2. w.pc = "segment" /\ w.left = workers[i].left /\ w.st = workers[i].st
        BY <1>0, <3>1 DEF Worker
      <3>3. Whole(bruns[i], w)
        BY <1>0, <1>6, <3>2 DEF should_cancel, WorkAt, Whole
      <3> QED
        BY <1>1, <1>2, <2>1, <3>1, <3>3
    <2> QED
      BY <1>3, <1>6, <2>1 DEF should_cancel
  <1>7. CASE _persist_segments(i)
    <2>1. workers[i].left = Checks - bruns[i].segments /\ workers[i].left >= 1 /\ bruns[i].segments \in 0..Checks
      BY <1>0, <1>7 DEF _persist_segments, WorkAt, Whole
    <2>2. PICK w : /\ w = [workers[i] EXCEPT !.left = @ - 1,
                                             !.pc = IF workers[i].left = 1 THEN "report" ELSE "check"]
                   /\ workers' = [workers EXCEPT ![i] = w]
      BY <1>0, <1>7 DEF _persist_segments
    <2>3. PICK r : r = [bruns[i] EXCEPT !.segments = @ + 1] /\ bruns' = [bruns EXCEPT ![i] = r]
      BY <1>0, <1>7 DEF _persist_segments
    <2>4. /\ w.left = workers[i].left - 1
          /\ w.pc = IF workers[i].left = 1 THEN "report" ELSE "check"
      BY <1>0, <2>2 DEF Worker
    <2>5. r.segments = bruns[i].segments + 1 /\ r.st = bruns[i].st /\ r.report = bruns[i].report
      BY <1>0, <2>3 DEF Row
    <2>6. r.st # "COMPLETED"
      BY <1>0, <2>1, <2>5 DEF Whole
    <2>7. Whole(r, w)
      BY <1>0, <2>1, <2>4, <2>5, <2>6 DEF Whole
    <2> QED
      BY <1>1, <2>2, <2>3, <2>7
  <1>8. ASSUME NEW v \in {"full", "evicted"}, bruns' = [bruns EXCEPT ![i].report = v]
        PROVE  \E r : /\ bruns' = [bruns EXCEPT ![i] = r] /\ r.report = v
                      /\ r.segments = bruns[i].segments /\ r.st = bruns[i].st
    <2>1. PICK r : r = [bruns[i] EXCEPT !.report = v] /\ bruns' = [bruns EXCEPT ![i] = r]
      BY <1>0, <1>8
    <2>2. r.report = v /\ r.segments = bruns[i].segments /\ r.st = bruns[i].st
      BY <1>0, <2>1 DEF Row
    <2> QED
      BY <2>1, <2>2
  <1>9. CASE BuildReport(i)
    <2>1. PICK r : /\ bruns' = [bruns EXCEPT ![i] = r] /\ r.report = "full"
                   /\ r.segments = bruns[i].segments /\ r.st = bruns[i].st
      BY <1>8, <1>9 DEF BuildReport
    <2>2. Whole(r, Stage("save", "COMPLETED", 0))
      BY <1>0, <1>9, <2>1 DEF BuildReport, WorkAt, Whole, Stage
    <2> QED
      BY <1>1, <1>9, <2>1, <2>2 DEF BuildReport, EndAs
  <1>10. CASE TaskRaises(i)
    BY <1>3, <1>10 DEF TaskRaises
  <1>11. CASE _terminal(i)
    <2>1. PICK r : r = [bruns[i] EXCEPT !.st = workers[i].st] /\ bruns' = [bruns EXCEPT ![i] = r]
      BY <1>0, <1>11 DEF _terminal
    <2>2. r.segments = bruns[i].segments /\ r.report = bruns[i].report /\ r.st = workers[i].st
      BY <1>0, <2>1 DEF Row
    <2>3. Whole(r, Stage("over", "", 0))
      BY <1>0, <1>11, <2>2 DEF _terminal, WorkAt, Whole, Stage
    <2> QED
      BY <1>1, <1>11, <2>1, <2>3 DEF _terminal
  <1>12. CASE WorkerDies(i)
    <2>1. Whole(bruns[i], Stage("dead", "", 0))
      BY <1>0 DEF Whole, Stage
    <2> QED
      BY <1>1, <1>2, <1>12, <2>1 DEF WorkerDies
  <1>13. CASE evict(i)
    <2>1. PICK r : /\ bruns' = [bruns EXCEPT ![i] = r] /\ r.report = "evicted"
                   /\ r.segments = bruns[i].segments /\ r.st = bruns[i].st
      BY <1>8, <1>13 DEF evict
    <2>2. Whole(r, workers[i])
      BY <1>0, <2>1 DEF Whole
    <2> QED
      BY <1>1, <1>2, <1>13, <2>1, <2>2 DEF evict
  <1> QED
    BY <1>4, <1>5, <1>6, <1>7, <1>9, <1>10, <1>11, <1>12, <1>13 DEF Works

LEMMA BackWholeInv == BackInv /\ WholeInv /\ [BackNext]_backVars => WholeInv'
  <1> SUFFICES ASSUME BackInv, WholeInv, [BackNext]_backVars PROVE WholeInv'
    OBVIOUS
  <1>1. CASE BackNext
    BY <1>1, ClientStepWhole, WorkStepWhole DEF BackNext
  <1>2. CASE UNCHANGED backVars
    BY <1>2 DEF backVars, WholeInv, Ids
  <1> QED
    BY <1>1, <1>2

-----------------------------------------------------------------------------
\* A task counts every candidate it is done with once, and is degraded exactly when it
\* left one out.
Counts == [enriched : Nat, insufficient_history : Nat, skipped_rate_limited : Nat, skipped_unavailable : Nat]
TaskPC == {"queued", "vendor", "enrich", "finish", "fail", "prune", "over"}
CountedTask ==
    {tk \in [pc : TaskPC, derived : BOOLEAN, of : Nat, at : Nat, counts : Counts, degraded : BOOLEAN] :
        /\ tk.degraded <=> tk.counts.skipped_rate_limited + tk.counts.skipped_unavailable > 0
        /\ tk.pc \in {"queued", "vendor", "enrich"} => Total(tk.counts) = tk.at /\ tk.at <= tk.of
        /\ tk.pc \in {"queued", "vendor"} => tk.at = 0
        /\ tk.pc = "finish" /\ tk.derived => Total(tk.counts) = tk.of}

TasksCount ==
    /\ VendorTypeOK /\ aged \in 0..Len(screens)
    /\ tasks \in Seq(CountedTask) /\ Len(tasks) = Len(screens)

LEMMA StepCounts ==
  ASSUME NEW pc \in TaskPC \ {"finish"}, NEW isDerived \in BOOLEAN
  PROVE  Step(pc, isDerived) \in CountedTask
  <1>1. _empty_counts \in Counts
    BY DEF _empty_counts, Counts
  <1> QED
    BY <1>1 DEF Step, CountedTask, Total, _empty_counts

LEMMA IsASeq ==
  ASSUME NEW S, NEW n \in Nat, NEW f \in [1..n -> S]
  PROVE  f \in Seq(S) /\ Len(f) = n
  OBVIOUS

LEMMA TaskSet ==
  ASSUME TasksCount, screens \in Seq(ScreenRun), NEW i \in Runs, NEW tk \in CountedTask,
         tasks' = [tasks EXCEPT ![i] = tk], DOMAIN screens' = DOMAIN screens, screens' \in Seq(ScreenRun),
         UNCHANGED aged, VendorTypeOK'
  PROVE  TasksCount'
  <1>0. tasks \in Seq(CountedTask) /\ i \in 1..Len(tasks) /\ Len(tasks) \in Nat
    BY DEF TasksCount, Runs
  <1>1. tasks' \in Seq(CountedTask) /\ Len(tasks') = Len(tasks)
    <2>0. DOMAIN tasks = 1..Len(tasks)
      BY <1>0
    <2>1. tasks' = [k \in 1..Len(tasks) |-> IF k = i THEN tk ELSE tasks[k]]
      BY <2>0
    <2>2. \A k \in 1..Len(tasks) : tasks[k] \in CountedTask
      BY <1>0
    <2>3. tasks' \in [1..Len(tasks) -> CountedTask]
      BY <2>1, <2>2
    <2> QED
      BY <1>0, <2>3, IsASeq
  <1>2. Len(screens') = Len(screens)
    OBVIOUS
  <1> QED
    BY <1>1, <1>2 DEF TasksCount

LEMMA VendorTyped ==
  ASSUME VendorTypeOK, VendorStep \/ UNCHANGED vendorVars \/ \E o \in Possible : VendorGet(o)
  PROVE  VendorTypeOK'
  <1>1. CASE UNCHANGED vendorVars
    BY <1>1 DEF vendorVars, VendorTypeOK
  <1>2. CASE VendorStep
    <2>1. CASE KeyDelete
      <3>1. keys' = [keys EXCEPT !.stored = FALSE]
        BY <2>1 DEF KeyDelete
      <3> QED
        BY <2>1, <3>1 DEF KeyDelete, VendorTypeOK, DataProviderKey
    <2>2. CASE CooldownPasses
      <3>1. breaker' = [fails |-> 0, open |-> FALSE] /\ 0 \in 0..Trip
        BY <2>2, VendorAssumption DEF CooldownPasses
      <3> QED
        BY <2>2, <3>1 DEF CooldownPasses, VendorTypeOK
    <2>3. ASSUME NEW a \in DOMAIN KeyVerdicts, KeyPut(a) PROVE VendorTypeOK'
      <3>1. keys' = [keys EXCEPT !.stored = TRUE]
        BY <2>3 DEF KeyPut
      <3> QED
        BY <2>3, <3>1 DEF KeyPut, VendorTypeOK, DataProviderKey
    <2> QED
      BY <1>2, <2>1, <2>2, <2>3 DEF VendorStep
  <1>3. ASSUME NEW o \in Possible, VendorGet(o) PROVE VendorTypeOK'
    <2>1. Counted \in [fails : 0..Trip, open : BOOLEAN] /\ 0 \in 0..Trip
      BY VendorAssumption DEF Counted, VendorTypeOK
    <2>2. [breaker EXCEPT !.fails = 0] \in [fails : 0..Trip, open : BOOLEAN]
      BY <2>1 DEF VendorTypeOK
    <2> QED
      BY <1>3, <2>1, <2>2 DEF VendorGet, VendorTypeOK
  <1> QED
    BY <1>1, <1>2, <1>3

LEMMA PostStepCounts ==
  ASSUME ScreensInv, ScreensInv', TasksCount, PostStep
  PROVE  TasksCount'
  <1>0. screens \in Seq(ScreenRun) /\ screens' \in Seq(ScreenRun) /\ Runs = 1..Len(screens) /\ aged \in Nat
        /\ Len(screens) \in Nat
    BY DEF ScreensInv, TasksCount, Runs
  <1>1. VendorTypeOK' /\ UNCHANGED aged
    BY VendorTyped DEF PostStep, _reap_stale_runs, LookForActive, InsertRun, TasksCount
  <1>2. CASE UNCHANGED tasks /\ DOMAIN screens' = DOMAIN screens
    BY <1>0, <1>1, <1>2 DEF TasksCount
  <1>3. ASSUME NEW isDerived \in BOOLEAN, NewRun(isDerived) PROVE TasksCount'
    <2>1. "queued" \in TaskPC \ {"finish"}
      BY DEF TaskPC
    <2>2. Step("queued", isDerived) \in CountedTask
      BY <2>1, StepCounts
    <2>3. /\ tasks' = Append(tasks, Step("queued", isDerived)) /\ screens' = Append(screens, "QUEUED")
      BY <1>3 DEF NewRun
    <2>4. tasks' \in Seq(CountedTask) /\ Len(tasks') = Len(tasks) + 1
      BY <2>2, <2>3 DEF TasksCount
    <2>5. Len(screens') = Len(screens) + 1
      BY <1>0, <2>3
    <2> QED
      BY <1>0, <1>1, <2>4, <2>5 DEF TasksCount
  <1>4. ASSUME NEW c \in Callers, _reap_stale_runs(c) \/ LookForActive(c) PROVE TasksCount'
    <2>1. UNCHANGED tasks /\ DOMAIN screens' = DOMAIN screens
      BY <1>4 DEF _reap_stale_runs, LookForActive, Runs
    <2> QED
      BY <1>2, <2>1
  <1>5. ASSUME NEW c \in Callers, InsertRun(c) PROVE TasksCount'
    BY <1>2, <1>3, <1>5 DEF InsertRun
  <1> QED
    BY <1>4, <1>5 DEF PostStep

LEMMA EnrichCounts ==
  ASSUME NEW i, NEW tk, tasks[i] \in CountedTask, TaskAt(i, "enrich"), Left(i) > 0,
         NEW c \in DOMAIN _empty_counts, NEW n \in {1, Left(i)}, NEW pc \in {"enrich", "finish"},
         NEW bad \in BOOLEAN, bad <=> c \in {"skipped_rate_limited", "skipped_unavailable"},
         pc = "finish" => n = Left(i), pc = "enrich" => n = 1,
         tk = [tasks[i] EXCEPT !.counts[c] = @ + n, !.at = @ + 1, !.pc = pc, !.degraded = @ \/ bad]
  PROVE  tk \in CountedTask
  <1> DEFINE s == tasks[i]
  <1>1. /\ s \in [pc : TaskPC, derived : BOOLEAN, of : Nat, at : Nat, counts : Counts, degraded : BOOLEAN]
        /\ s.degraded <=> s.counts.skipped_rate_limited + s.counts.skipped_unavailable > 0
        /\ Total(s.counts) = s.at /\ s.at < s.of
    BY DEF CountedTask, TaskAt, Left
  <1>2. c \in {"enriched", "insufficient_history", "skipped_rate_limited", "skipped_unavailable"}
    BY DEF _empty_counts
  <1>3. PICK k : k = [s.counts EXCEPT ![c] = @ + n]
    OBVIOUS
  <1>4. n \in Nat /\ n > 0 /\ s.counts \in Counts /\ s.at \in Nat /\ s.of \in Nat /\ s.at + 1 \in Nat
    BY <1>1 DEF Left
  <1>5. k \in Counts /\ Total(k) = Total(s.counts) + n
    BY <1>2, <1>3, <1>4 DEF Counts, Total
  <1>6. k.skipped_rate_limited + k.skipped_unavailable > 0
          <=> (s.counts.skipped_rate_limited + s.counts.skipped_unavailable > 0 \/ bad)
    BY <1>2, <1>3, <1>4 DEF Counts
  <1>7. /\ tk.pc = pc /\ tk.derived = s.derived /\ tk.of = s.of /\ tk.at = s.at + 1 /\ tk.counts = k
        /\ tk.degraded = (s.degraded \/ bad)
    BY <1>1, <1>3
  <1>8. tk \in [pc : TaskPC, derived : BOOLEAN, of : Nat, at : Nat, counts : Counts, degraded : BOOLEAN]
    <2>1. pc \in TaskPC
      BY DEF TaskPC
    <2> QED
      BY <1>1, <1>3, <1>4, <1>5, <2>1
  <1>9. Total(k) = IF pc = "enrich" THEN s.at + 1 ELSE s.of
    BY <1>1, <1>4, <1>5 DEF Left
  <1>10. tk.degraded <=> tk.counts.skipped_rate_limited + tk.counts.skipped_unavailable > 0
    BY <1>1, <1>6, <1>7
  <1>11. tk.pc \in {"queued", "vendor", "enrich"} => Total(tk.counts) = tk.at /\ tk.at <= tk.of
    BY <1>1, <1>4, <1>7, <1>9
  <1>12. tk.pc \in {"queued", "vendor"} => tk.at = 0
    BY <1>7
  <1>13. tk.pc = "finish" /\ tk.derived => Total(tk.counts) = tk.of
    BY <1>7, <1>9
  <1> QED
    BY <1>8, <1>10, <1>11, <1>12, <1>13 DEF CountedTask

LEMMA TaskStepCounts ==
  ASSUME ScreensInv, ScreensInv', TasksCount, TaskStep
  PROVE  TasksCount'
  <1>0. screens \in Seq(ScreenRun) /\ screens' \in Seq(ScreenRun) /\ tasks \in Seq(CountedTask)
        /\ Len(tasks) = Len(screens) /\ DOMAIN tasks = Runs
    BY DEF ScreensInv, TasksCount, Runs
  <1>1. PICK i \in Runs :
          \/ run_screen(i) \/ Nameless(i) \/ Enriched(i) \/ _finish(i) \/ _fail(i) \/ _prune_history(i)
          \/ ScreenRaises(i) \/ ScreenDies(i)
          \/ \E o \in Possible, held \in BOOLEAN :
               _enrich_candidates(i, o, held) \/ VendorStage(i, o, held)
    BY DEF TaskStep
  <1>2. /\ tasks[i] \in CountedTask
        /\ UNCHANGED aged /\ DOMAIN screens' = DOMAIN screens
    <2>1. tasks[i] \in CountedTask
      BY <1>0
    <2>2. UNCHANGED aged
      BY <1>1 DEF run_screen, Nameless, Enriched, _finish, _fail, _prune_history, ScreenRaises, ScreenDies,
                  _enrich_candidates, VendorStage
    <2>3. DOMAIN screens' = DOMAIN screens
      BY <1>1 DEF run_screen, Nameless, Enriched, _finish, _fail, _prune_history, ScreenRaises, ScreenDies,
                  _enrich_candidates, VendorStage, Saved, Runs
    <2> QED
      BY <2>1, <2>2, <2>3
  <1>3. VendorTypeOK'
    <2>1. UNCHANGED vendorVars \/ \E o \in Possible : VendorGet(o)
      BY <1>1 DEF run_screen, Nameless, Enriched, _finish, _fail, _prune_history, ScreenRaises, ScreenDies,
                  _enrich_candidates, VendorStage
    <2> QED
      BY <2>1, VendorTyped DEF TasksCount
  <1>4. ASSUME NEW tk \in CountedTask, tasks' = [tasks EXCEPT ![i] = tk] PROVE TasksCount'
    BY <1>0, <1>2, <1>3, <1>4, TaskSet
  <1>5. ASSUME NEW pc \in {"fail", "prune", "over"}, TaskDone(i, pc) PROVE TasksCount'
    <2>1. pc \in TaskPC \ {"finish"}
      BY DEF TaskPC
    <2>2. Step(pc, FALSE) \in CountedTask
      BY <2>1, StepCounts
    <2> QED
      BY <1>4, <1>5, <2>2 DEF TaskDone
  <1>6. CASE run_screen(i)
    <2>1. CASE TaskTo(i, "vendor")
      <3>1. PICK tk : tk = [tasks[i] EXCEPT !.pc = "vendor"] /\ tasks' = [tasks EXCEPT ![i] = tk]
        BY <1>0, <2>1 DEF TaskTo
      <3>2. tasks[i].pc = "queued"
        BY <1>6 DEF run_screen, TaskAt
      <3>3. tk \in CountedTask
        BY <1>2, <3>1, <3>2 DEF CountedTask, TaskPC
      <3> QED
        BY <1>4, <3>1, <3>3
    <2> QED
      BY <1>5, <1>6, <2>1 DEF run_screen
  <1>7. ASSUME NEW o \in Possible, NEW held \in BOOLEAN, VendorStage(i, o, held) PROVE TasksCount'
    <2>0. tasks[i].pc = "vendor"
      BY <1>7 DEF VendorStage, TaskAt
    <2>1. CASE ~tasks[i].derived /\ TaskTo(i, "finish")
      <3>1. PICK tk : tk = [tasks[i] EXCEPT !.pc = "finish"] /\ tasks' = [tasks EXCEPT ![i] = tk]
        BY <1>0, <2>1 DEF TaskTo
      <3>2. tk \in CountedTask
        BY <1>2, <2>0, <2>1, <3>1 DEF CountedTask, TaskPC
      <3> QED
        BY <1>4, <3>1, <3>2
    <2>2. ASSUME NEW n \in 0..Limit, tasks' = [tasks EXCEPT ![i].pc = "enrich", ![i].of = n]
          PROVE  TasksCount'
      <3>1. PICK tk : /\ tk = [tasks[i] EXCEPT !.pc = "enrich", !.of = n]
                      /\ tasks' = [tasks EXCEPT ![i] = tk]
        BY <1>0, <2>2
      <3>2. n \in Nat
        BY ScreensAssumption
      <3>3. /\ tk \in [pc : TaskPC, derived : BOOLEAN, of : Nat, at : Nat, counts : Counts, degraded : BOOLEAN]
            /\ tk.pc = "enrich" /\ tk.of = n /\ tk.at = tasks[i].at /\ tk.counts = tasks[i].counts
            /\ tk.degraded = tasks[i].degraded
        BY <1>2, <3>1, <3>2 DEF CountedTask, TaskPC
      <3>4. tk.at = 0 /\ Total(tk.counts) = tk.at /\ tk.at <= tk.of
        BY <1>2, <2>0, <3>2, <3>3 DEF CountedTask
      <3>5. tk.degraded <=> tk.counts.skipped_rate_limited + tk.counts.skipped_unavailable > 0
        BY <1>2, <3>3 DEF CountedTask
      <3>6. tk \in CountedTask
        BY <3>3, <3>4, <3>5 DEF CountedTask
      <3> QED
        BY <1>4, <3>1, <3>6
    <2> QED
      BY <1>5, <1>7, <2>1, <2>2 DEF VendorStage
  <1>8. ASSUME TaskAt(i, "enrich"), Left(i) > 0, NEW c \in DOMAIN _empty_counts, NEW n \in {1, Left(i)},
               NEW pc \in {"enrich", "finish"}, NEW bad \in BOOLEAN,
               bad <=> c \in {"skipped_rate_limited", "skipped_unavailable"},
               pc = "finish" => n = Left(i), pc = "enrich" => n = 1, Counting(i, c, n, pc, bad)
        PROVE  TasksCount'
    <2>1. PICK tk : /\ tk = [tasks[i] EXCEPT !.counts[c] = @ + n, !.at = @ + 1, !.pc = pc, !.degraded = @ \/ bad]
                    /\ tasks' = [tasks EXCEPT ![i] = tk]
      BY <1>0, <1>8 DEF Counting
    <2>2. tk \in CountedTask
      BY <1>2, <1>8, <2>1, EnrichCounts
    <2> QED
      BY <1>4, <2>1, <2>2
  <1>9. DOMAIN _empty_counts = {"enriched", "insufficient_history", "skipped_rate_limited", "skipped_unavailable"}
    BY DEF _empty_counts
  <1>10. ASSUME NEW o \in Possible, NEW held \in BOOLEAN, _enrich_candidates(i, o, held) PROVE TasksCount'
    <2>1. TaskAt(i, "enrich") /\ Left(i) > 0
      BY <1>10 DEF _enrich_candidates
    <2>2. \/ \E c \in {"enriched", "insufficient_history"} : Counting(i, c, 1, "enrich", FALSE)
          \/ Counting(i, "skipped_rate_limited", Left(i), "finish", TRUE)
          \/ Counting(i, "skipped_unavailable", Left(i), "finish", TRUE)
          \/ Counting(i, "skipped_unavailable", 1, "enrich", TRUE)
      BY <1>10 DEF _enrich_candidates
    <2>3. ASSUME NEW c \in {"enriched", "insufficient_history"}, Counting(i, c, 1, "enrich", FALSE)
          PROVE  TasksCount'
      BY <1>8, <1>9, <2>1, <2>3
    <2>4. CASE Counting(i, "skipped_rate_limited", Left(i), "finish", TRUE)
      BY <1>8, <1>9, <2>1, <2>4
    <2>5. CASE Counting(i, "skipped_unavailable", Left(i), "finish", TRUE)
      BY <1>8, <1>9, <2>1, <2>5
    <2>6. CASE Counting(i, "skipped_unavailable", 1, "enrich", TRUE)
      BY <1>8, <1>9, <2>1, <2>6
    <2> QED
      BY <2>2, <2>3, <2>4, <2>5, <2>6
  <1>11. CASE Nameless(i)
    <2>1. TaskAt(i, "enrich") /\ Left(i) > 0 /\ Counting(i, "skipped_unavailable", 1, "enrich", TRUE)
      BY <1>11 DEF Nameless
    <2> QED
      BY <1>8, <1>9, <2>1
  <1>12. CASE Enriched(i)
    <2>1. PICK tk : tk = [tasks[i] EXCEPT !.pc = "finish"] /\ tasks' = [tasks EXCEPT ![i] = tk]
      BY <1>0, <1>12 DEF Enriched, TaskTo
    <2>2. tasks[i].pc = "enrich" /\ tasks[i].of - tasks[i].at = 0
      BY <1>12 DEF Enriched, TaskAt, Left
    <2>3. tk \in CountedTask
      BY <1>2, <2>1, <2>2 DEF CountedTask, TaskPC
    <2> QED
      BY <1>4, <2>1, <2>3
  <1>13. CASE _finish(i) \/ _fail(i) \/ _prune_history(i) \/ ScreenRaises(i) \/ ScreenDies(i)
    BY <1>5, <1>13 DEF _finish, _fail, _prune_history, ScreenRaises, ScreenDies
  <1> QED
    BY <1>1, <1>6, <1>7, <1>10, <1>11, <1>12, <1>13

LEMMA ScreensStep ==
  ASSUME ScreensInv, TasksCount, [ScreensNext]_<<vendorVars, screenVars>>
  PROVE  ScreensInv' /\ TasksCount'
  <1>0. screens \in Seq(ScreenRun) /\ aged \in 0..Len(screens) /\ Len(screens) \in Nat
    BY DEF ScreensInv, TasksCount
  <1>1. CASE UNCHANGED screens /\ UNCHANGED tasks /\ VendorTypeOK' /\ aged' \in 0..Len(screens)
    BY <1>1 DEF ScreensInv, TasksCount, Alone, Active, Runs
  <1>2. CASE PostStep
    BY <1>2, PostStepAlone, PostStepCounts
  <1>3. CASE TaskStep
    BY <1>3, TaskStepAlone, TaskStepCounts
  <1>4. CASE RunAges
    <2>1. VendorTypeOK'
      BY <1>4, VendorTyped DEF RunAges, TasksCount
    <2>2. aged' \in 0..Len(screens)
      BY <1>0, <1>4 DEF RunAges
    <2> QED
      BY <1>1, <1>4, <2>1, <2>2 DEF RunAges
  <1>5. CASE UNCHANGED screenVars /\ (VendorStep \/ UNCHANGED vendorVars)
    BY <1>0, <1>1, <1>5, VendorTyped DEF screenVars, TasksCount
  <1> QED
    BY <1>2, <1>3, <1>4, <1>5 DEF ScreensNext

-----------------------------------------------------------------------------
\* Whatever the workers, the vendor and the requests do: a completed backtest has all
\* its segments and its report, a derived screen that finishes has counted every
\* candidate once and says whether one was left out (screener/services.py,
\* backtest/tasks.py).
THEOREM NothingIsHalfDone == ResearchSpec => []FinishedIsWhole
  <1> DEFINE I == ScreensInv /\ TasksCount /\ BackInv /\ WholeInv
  <1>1. ResearchInit => I
    <2> SUFFICES ASSUME ResearchInit PROVE I
      OBVIOUS
    <2>1. VendorInit /\ screens = <<>> /\ tasks = <<>> /\ aged = 0 /\ BackInit
      BY DEF ResearchInit, ScreensInit
    <2>2. VendorTypeOK
      BY <2>1, VendorAssumption DEF VendorInit, VendorTypeOK, DataProviderKey
    <2>3. ScreensInv /\ TasksCount
      BY <2>1, <2>2 DEF ScreensInv, TasksCount, Alone, Runs
    <2>4. BackInv
      BY <2>1, BackInitInv
    <2>5. WholeInv
      BY <2>1 DEF BackInit, WholeInv, Ids
    <2> QED
      BY <2>3, <2>4, <2>5
  <1>2. I /\ [ResearchNext]_researchVars => I'
    <2> SUFFICES ASSUME I, [ResearchNext]_researchVars PROVE I'
      OBVIOUS
    <2>1. [ScreensNext]_<<vendorVars, screenVars>>
      BY DEF ResearchNext, researchVars, Still
    <2>2. [BackNext]_backVars
      BY DEF ResearchNext, researchVars, restVars, Still
    <2> QED
      BY <2>1, <2>2, ScreensStep, BackNextInv, BackWholeInv
  <1>3. I => FinishedIsWhole
    <2> SUFFICES ASSUME I PROVE FinishedIsWhole
      OBVIOUS
    <2>1. ScreensTypeOK
      BY DEF ScreensTypeOK, ScreensInv, TasksCount, Runs
    <2>2. BackTypeOK
      <3>1. \A i \in Ids : bruns[i] \in Row /\ bruns[i].segments \in 0..Checks
        BY DEF BackInv, BackTypes, WholeInv, Whole, Ids
      <3> QED
        BY <3>1 DEF BackTypeOK, BackInv, BackTypes, BacktestRun, Row
    <2>3. CompletedIsWhole
      BY DEF CompletedIsWhole, WholeInv, Whole
    <2>4. CountsAddUp
      <3>1. \A i \in Runs : tasks[i] \in CountedTask
        BY DEF ScreensInv, TasksCount, Runs
      <3> QED
        BY <3>1 DEF CountsAddUp, CountedTask, TaskAt
    <2> QED
      BY <2>1, <2>2, <2>3, <2>4 DEF FinishedIsWhole
  <1> QED
    BY <1>1, <1>2, <1>3, PTL DEF ResearchSpec

-----------------------------------------------------------------------------
(* The [screen] block: any lines in any order. *)

\* What a line adds is about its key, one number at most for each part of it.
LEMMA FactsOf ==
  ASSUME NEW l
  PROVE  /\ \A f \in _apply(l) : f = <<l.key, f[2], f[3]>> /\ f[1] = l.key
         /\ \A f, g \in _apply(l) : f[2] = g[2] => f = g
         /\ l.key \in _REPEATABLE => \A f, g \in _apply(l) : f = g
  <1> DEFINE Is(S) == {<<l.key, "is", n>> : n \in IF l.op = "bare" THEN _parse_number(l.a) \intersect S ELSE {}}
             Bound_(half, tok) == {<<l.key, half, n>> : n \in _parse_number(tok)}
             One(S) == /\ \A f \in S : f = <<l.key, f[2], f[3]>> /\ f[1] = l.key
                       /\ \A f, g \in S : f[2] = g[2] => f = g
  <1>1. ASSUME NEW tok, NEW x \in _parse_number(tok) PROVE x = tok
    BY DEF _parse_number
  <1>2. ASSUME NEW S PROVE One(Is(S)) /\ \A f, g \in Is(S) : f = g
    BY <1>1
  <1>3. ASSUME NEW half, NEW tok PROVE One(Bound_(half, tok)) /\ \A f \in Bound_(half, tok) : f[2] = half
    BY <1>1
  <1>4. One({})
    OBVIOUS
  <1>5. One(_parse_range(l.key, l))
    <2>1. One(Bound_("gte", l.a) \union Bound_("lte", l.b))
      <3> HIDE DEF Bound_
      <3> QED
        BY <1>3
    <2>2. \/ _parse_range(l.key, l) = {}
          \/ _parse_range(l.key, l) = Bound_("gte", l.a)
          \/ _parse_range(l.key, l) = Bound_("lte", l.a)
          \/ _parse_range(l.key, l) = Bound_("gte", l.a) \union Bound_("lte", l.b)
      BY DEF _parse_range
    <2>3. One(Bound_("gte", l.a)) /\ One(Bound_("lte", l.a))
      BY <1>3
    <2> HIDE DEF Bound_, One
    <2> QED
      BY <1>4, <2>1, <2>2, <2>3
  <1>6. One({<<f[1], f[2], Clamp(f[3])>> : f \in Is(Nat)})
    <2> HIDE DEF Is
    <2> QED
      BY <1>2
  <1>7. \/ l.key \in _RANGE_KEYS /\ _apply(l) = _parse_range(l.key, l)
        \/ _apply(l) = Is({0, 1}) \/ _apply(l) = Is(SmaWindows) \/ _apply(l) = Is(1..PctMax)
        \/ _apply(l) = Is(1..HistoryMax) \/ _apply(l) = Is(Nat)
        \/ l.key = "limit" /\ _apply(l) = {<<f[1], f[2], Clamp(f[3])>> : f \in Is(Nat)}
    BY DEF _apply
  <1>8. l.key \in _REPEATABLE => l.key \notin _RANGE_KEYS /\ l.key # "limit"
    BY DEF _REPEATABLE, _RANGE_KEYS
  <1> HIDE DEF Is
  <1>9. One(_apply(l)) /\ (l.key \in _REPEATABLE => \A f, g \in _apply(l) : f = g)
    <2> HIDE DEF One
    <2> QED
      BY <1>2, <1>5, <1>6, <1>7, <1>8
  <1> QED
    BY <1>9

Stated(l) == l.key \in ALL_KEYS /\ l.op # "empty"
Facts(s) == UNION {_apply(s[i]) : i \in {k \in DOMAIN s : Stated(s[k])}}

\* What the parser has collected after the lines read.
BlockInv ==
    /\ read \in Seq(Lines)
    /\ parser = [criteria |-> parser.criteria, seen |-> parser.seen, errors |-> parser.errors]
    /\ parser.errors = {i \in DOMAIN read : Faulty(i) \/ Repeats(i)}
    /\ parser.seen = {read[i].key : i \in {k \in DOMAIN read : Stated(read[k])}} \ _REPEATABLE
    /\ parser.criteria \subseteq Facts(read) /\ (parser.errors = {} => parser.criteria = Facts(read))
    /\ \A i \in DOMAIN read :
          Stated(read[i]) /\ read[i].key \in _REPEATABLE => _apply(read[i]) \subseteq parser.criteria
    /\ \A f, g \in parser.criteria : f[1] = g[1] /\ f[2] = g[2] /\ f[1] \notin _REPEATABLE => f = g

LEMMA BlockInitInv == BlockInit => BlockInv
  BY DEF BlockInit, BlockInv, Facts

\* The line that is read next: an error or not, said before or not.
LEMMA NextLine ==
  ASSUME BlockInv, NEW l \in Lines, ParseLine(l)
  PROVE  BlockInv'
  <1>0. PICK n : n = Len(read) + 1
    OBVIOUS
  <1> DEFINE faulty == l.key # "comment" /\ (~Stated(l) \/ _apply(l) = {})
             repeats == \E j \in DOMAIN read : /\ Stated(l) /\ Stated(read[j]) /\ l.key = read[j].key
                                               /\ l.key \in _REPEATABLE => _apply(l) = _apply(read[j])
  <1>1. read' = Append(read, l) /\ parser' = _parse_body(parser, l) /\ read \in Seq(Lines)
    BY DEF ParseLine, BlockInv
  <1>2. /\ Len(read) \in Nat /\ DOMAIN read = 1..Len(read)
        /\ read' \in Seq(Lines) /\ DOMAIN read' = DOMAIN read \union {n} /\ n \notin DOMAIN read
        /\ read'[n] = l /\ \A i \in DOMAIN read : read'[i] = read[i]
        /\ \A i \in DOMAIN read : i < n /\ 1..(i - 1) \subseteq DOMAIN read
        /\ 1..(n - 1) = DOMAIN read
    <2>1. Len(read) \in Nat /\ DOMAIN read = 1..Len(read)
      BY <1>1
    <2>2. /\ read' \in Seq(Lines) /\ DOMAIN read' = 1..n /\ n = Len(read) + 1
          /\ read'[n] = l /\ \A i \in DOMAIN read : read'[i] = read[i]
      BY <1>0, <1>1, <2>1
    <2> QED
      BY <2>1, <2>2
  <1>3. \A i \in DOMAIN read : (Faulty(i) \/ Repeats(i))' <=> Faulty(i) \/ Repeats(i)
    <2>1. ASSUME NEW i \in DOMAIN read PROVE Faulty(i)' <=> Faulty(i)
      BY <1>2 DEF Faulty, Given
    <2>2. ASSUME NEW i \in DOMAIN read PROVE Repeats(i)' <=> Repeats(i)
      BY <1>2 DEF Repeats, Given
    <2> QED
      BY <2>1, <2>2
  <1>4. (Faulty(n) \/ Repeats(n))' <=> faulty \/ repeats
    <2>1. Faulty(n)' <=> faulty
      BY <1>2 DEF Faulty, Given, Stated
    <2>2. Repeats(n)' <=> repeats
      BY <1>2 DEF Repeats, Given, Stated
    <2> QED
      BY <2>1, <2>2
  <1>5. {i \in DOMAIN read' : (Faulty(i) \/ Repeats(i))'} = parser.errors \union IF faulty \/ repeats THEN {n} ELSE {}
    BY <1>2, <1>3, <1>4 DEF BlockInv
  <1>6. Facts(read') = Facts(read) \union IF Stated(l) THEN _apply(l) ELSE {}
    BY <1>2 DEF Facts
  <1>7. {read'[i].key : i \in {k \in DOMAIN read' : Stated(read'[k])}}
          = {read[i].key : i \in {k \in DOMAIN read : Stated(read[k])}} \union IF Stated(l) THEN {l.key} ELSE {}
    BY <1>2
  <1>8. Stated(l) /\ l.key \in parser.seen => repeats
    BY DEF BlockInv, Stated
  <1>9. Stated(l) /\ l.key \notin _REPEATABLE /\ l.key \notin parser.seen => ~repeats
    BY DEF BlockInv
  <1>10. Stated(l) /\ l.key \in _REPEATABLE /\ _apply(l) # {} => (repeats <=> _apply(l) \subseteq parser.criteria)
    <2> SUFFICES ASSUME Stated(l), l.key \in _REPEATABLE, NEW f \in _apply(l)
                 PROVE  repeats <=> _apply(l) \subseteq parser.criteria
      OBVIOUS
    <2>1. ASSUME _apply(l) \subseteq parser.criteria PROVE repeats
      <3>1. PICK j \in DOMAIN read : Stated(read[j]) /\ f \in _apply(read[j])
        BY <2>1 DEF BlockInv, Facts
      <3>2. f[1] = l.key /\ f[1] = read[j].key
        BY <3>1, FactsOf
      <3>3. _apply(l) = {f} /\ _apply(read[j]) = {f}
        BY <3>1, <3>2, FactsOf
      <3> QED
        BY <3>1, <3>2, <3>3
    <2>2. ASSUME repeats PROVE _apply(l) \subseteq parser.criteria
      BY <2>2 DEF BlockInv
    <2> QED
      BY <2>1, <2>2
  <1>11. "comment" \notin ALL_KEYS
    BY DEF ALL_KEYS, _RANGE_KEYS, _STRING_KEYS, _DERIVED_KEYS
  <1>12. /\ parser'.errors = parser.errors \union IF faulty \/ repeats THEN {n} ELSE {}
         /\ parser'.seen = IF Stated(l) /\ l.key \notin _REPEATABLE THEN parser.seen \union {l.key} ELSE parser.seen
         /\ parser'.criteria = IF Stated(l) /\ ~faulty /\ ~repeats THEN parser.criteria \union _apply(l) ELSE parser.criteria
         /\ parser' = [criteria |-> parser'.criteria, seen |-> parser'.seen, errors |-> parser'.errors]
    <2> DEFINE p == parser
    <2>1. p = [criteria |-> p.criteria, seen |-> p.seen, errors |-> p.errors] /\ parser' = _parse_body(p, l)
      BY <1>1 DEF BlockInv
    <2> HIDE DEF p
    <2>2. /\ Wrong(p) = [criteria |-> p.criteria, seen |-> p.seen, errors |-> p.errors \union {n}]
          /\ Seen(p, l) = [criteria |-> p.criteria, errors |-> p.errors,
                           seen |-> IF l.key \in _REPEATABLE THEN p.seen ELSE p.seen \union {l.key}]
          /\ Wrong(Seen(p, l)) = [criteria |-> p.criteria, errors |-> p.errors \union {n},
                           seen |-> IF l.key \in _REPEATABLE THEN p.seen ELSE p.seen \union {l.key}]
          /\ Took(Seen(p, l), l) = [criteria |-> p.criteria \union _apply(l), errors |-> p.errors,
                           seen |-> IF l.key \in _REPEATABLE THEN p.seen ELSE p.seen \union {l.key}]
      <3>1. PICK cr, se, er : p = [criteria |-> cr, seen |-> se, errors |-> er]
        BY <2>1
      <3>2. Wrong(p) = [criteria |-> cr, seen |-> se, errors |-> er \union {n}]
        <4>1. Wrong(p) = [p EXCEPT !.errors = @ \union {n}]
          BY <1>0 DEF Wrong
        <4> QED
          BY <3>1, <4>1
      <3>3. Seen(p, l) = [criteria |-> cr, errors |-> er, seen |-> IF l.key \in _REPEATABLE THEN se ELSE se \union {l.key}]
        BY <3>1 DEF Seen
      <3>4. /\ Wrong(Seen(p, l)) = [criteria |-> cr, errors |-> er \union {n},
                           seen |-> IF l.key \in _REPEATABLE THEN se ELSE se \union {l.key}]
            /\ Took(Seen(p, l), l) = [criteria |-> cr \union _apply(l), errors |-> er,
                           seen |-> IF l.key \in _REPEATABLE THEN se ELSE se \union {l.key}]
        <4>1. Wrong(Seen(p, l)) = [Seen(p, l) EXCEPT !.errors = @ \union {n}]
          BY <1>0 DEF Wrong
        <4>2. Took(Seen(p, l), l) = [Seen(p, l) EXCEPT !.criteria = @ \union _apply(l)]
          BY DEF Took
        <4>3. PICK q, sn : /\ q = Seen(p, l) /\ q = [criteria |-> cr, errors |-> er, seen |-> sn]
                           /\ sn = IF l.key \in _REPEATABLE THEN se ELSE se \union {l.key}
          BY <3>3
        <4>4. /\ [q EXCEPT !.errors = @ \union {n}] = [criteria |-> cr, errors |-> er \union {n}, seen |-> sn]
              /\ [q EXCEPT !.criteria = @ \union _apply(l)] = [criteria |-> cr \union _apply(l), errors |-> er, seen |-> sn]
          <5> DEFINE more == _apply(l)
          <5> HIDE DEF more
          <5>1. [q EXCEPT !.errors = @ \union {n}] = [criteria |-> cr, errors |-> er \union {n}, seen |-> sn]
            BY <4>3
          <5>2. [q EXCEPT !.criteria = @ \union more] = [criteria |-> cr \union more, errors |-> er, seen |-> sn]
            BY <4>3
          <5> QED
            BY <5>1, <5>2 DEF more
        <4> QED
          BY <4>1, <4>2, <4>3, <4>4
      <3>5. p.criteria = cr /\ p.seen = se /\ p.errors = er
        BY <3>1
      <3> QED
        BY <3>2, <3>3, <3>4, <3>5
    <2>3. CASE l.key = "comment"
      <3>1. ~Stated(l) /\ ~faulty /\ ~repeats /\ parser' = p
        BY <1>11, <2>1, <2>3 DEF Stated, _parse_body
      <3> QED
        BY <2>1, <3>1 DEF p
    <2>4. CASE l.key # "comment" /\ ~Stated(l)
      <3>1. parser' = Wrong(p) /\ faulty
        BY <2>1, <2>4 DEF Stated, _parse_body
      <3> QED
        BY <2>2, <2>4, <3>1 DEF p
    <2>5. CASE Stated(l) /\ l.key \in p.seen
      <3>1. parser' = Wrong(p) /\ repeats
        BY <1>8, <1>11, <2>1, <2>5 DEF Stated, _parse_body, p
      <3> QED
        BY <2>2, <2>5, <3>1 DEF p
    <2>6. CASE Stated(l) /\ l.key \notin p.seen
      <3>1. parser' = IF _apply(l) = {} \/ (l.key \in _REPEATABLE /\ _apply(l) \subseteq p.criteria)
                      THEN Wrong(Seen(p, l)) ELSE Took(Seen(p, l), l)
        <4>1. Seen(p, l).criteria = p.criteria
          BY <2>2
        <4> QED
          BY <1>11, <2>1, <2>6, <4>1 DEF Stated, _parse_body
      <3>2. faulty \/ repeats <=> _apply(l) = {} \/ (l.key \in _REPEATABLE /\ _apply(l) \subseteq p.criteria)
        BY <1>9, <1>10, <1>11, <2>6 DEF Stated, p
      <3> HIDE DEF faulty, repeats
      <3>3. CASE faulty \/ repeats
        <4>1. parser' = Wrong(Seen(p, l))
          BY <3>1, <3>2, <3>3
        <4> QED
          BY <2>2, <2>6, <3>3, <4>1 DEF p
      <3>4. CASE ~faulty /\ ~repeats
        <4>1. parser' = Took(Seen(p, l), l)
          BY <3>1, <3>2, <3>4
        <4> QED
          BY <2>2, <2>6, <3>4, <4>1 DEF p
      <3> QED
        BY <3>3, <3>4
    <2> QED
      BY <2>3, <2>4, <2>5, <2>6
  <1>13. parser'.errors = {i \in DOMAIN read' : (Faulty(i) \/ Repeats(i))'}
    BY <1>5, <1>12
  <1>14. parser'.seen = {read'[i].key : i \in {k \in DOMAIN read' : Stated(read'[k])}} \ _REPEATABLE
    <2> HIDE DEF faulty, repeats
    <2> QED
      BY <1>7, <1>12 DEF BlockInv
  <1>15. parser'.criteria \subseteq Facts(read') /\ (parser'.errors = {} => parser'.criteria = Facts(read'))
    <2>1. parser'.criteria \subseteq Facts(read')
      BY <1>6, <1>12 DEF BlockInv
    <2>2. ASSUME parser'.errors = {} PROVE parser'.criteria = Facts(read')
      <3>1. parser.errors = {} /\ ~faulty /\ ~repeats
        BY <1>12, <2>2
      <3> HIDE DEF faulty, repeats
      <3> QED
        BY <1>6, <1>12, <3>1 DEF BlockInv
    <2> QED
      BY <2>1, <2>2
  <1>16. ASSUME NEW i \in DOMAIN read', Stated(read'[i]), read'[i].key \in _REPEATABLE
         PROVE  _apply(read'[i]) \subseteq parser'.criteria
    <2>1. parser.criteria \subseteq parser'.criteria
      BY <1>12
    <2>2. CASE i \in DOMAIN read
      BY <1>2, <1>16, <2>1, <2>2 DEF BlockInv
    <2>3. CASE i = n
      <3>1. read'[i] = l
        BY <1>2, <2>3
      <3>2. CASE faulty
        BY <1>16, <3>1, <3>2
      <3>3. CASE ~faulty /\ repeats
        BY <1>10, <1>16, <2>1, <3>1, <3>3
      <3>4. CASE ~faulty /\ ~repeats
        BY <1>12, <1>16, <3>1, <3>4
      <3> QED
        BY <3>2, <3>3, <3>4
    <2> QED
      BY <1>2, <2>2, <2>3
  <1>17. ASSUME NEW f \in parser'.criteria, NEW g \in parser'.criteria, f[1] = g[1], f[2] = g[2], f[1] \notin _REPEATABLE
         PROVE  f = g
    <2>1. ASSUME NEW h \in parser.criteria, h[1] \notin _REPEATABLE PROVE h[1] \in parser.seen
      <3>1. PICK j \in DOMAIN read : Stated(read[j]) /\ h \in _apply(read[j])
        BY DEF BlockInv, Facts
      <3>2. h[1] = read[j].key
        BY <3>1, FactsOf
      <3> QED
        BY <2>1, <3>1, <3>2 DEF BlockInv
    <2>2. CASE parser'.criteria = parser.criteria
      BY <1>17, <2>2 DEF BlockInv
    <2>3. CASE parser'.criteria # parser.criteria
      <3>1. Stated(l) /\ ~faulty /\ ~repeats /\ parser'.criteria = parser.criteria \union _apply(l)
        BY <1>12, <2>3
      <3>2. l.key \notin parser.seen
        BY <1>8, <3>1
      <3>3. \A h \in _apply(l) : h[1] = l.key
        BY FactsOf
      <3>4. CASE f \in _apply(l) /\ g \in _apply(l)
        BY <1>17, <3>4, FactsOf
      <3>5. CASE f \in parser.criteria /\ g \in parser.criteria
        BY <1>17, <3>5 DEF BlockInv
      <3> QED
        BY <1>17, <2>1, <3>1, <3>2, <3>3, <3>4, <3>5
    <2> QED
      BY <2>2, <2>3
  <1> QED
    BY <1>2, <1>12, <1>13, <1>14, <1>15, <1>16, <1>17 DEF BlockInv

LEMMA BlockNextInv == BlockInv /\ [BlockNext]_blockVars => BlockInv'
  <1> SUFFICES ASSUME BlockInv, [BlockNext]_blockVars PROVE BlockInv'
    OBVIOUS
  <1>1. CASE UNCHANGED <<read, parser>>
    BY <1>1 DEF BlockInv, Faulty, Repeats, Given
  <1>2. ASSUME NEW l \in Lines, ParseLine(l) PROVE BlockInv'
    BY <1>2, NextLine
  <1> QED
    BY <1>1, <1>2 DEF BlockNext, Parsed, blockVars

\* What reaches the vendor and the local checks.
LEMMA BlockSaysIt == BlockInv => BlockMeansItsLines
  <1> SUFFICES ASSUME BlockInv PROVE BlockMeansItsLines
    OBVIOUS
  <1> DEFINE c == parser.criteria
             limits == IF Only(c, {"limit"}) = {} THEN {<<"limit", "is", LimitMax>>} ELSE Only(c, {"limit"})
             etfs == IF Only(c, {"etf"}) = {} THEN {<<"etf", "is", 0>>} ELSE Only(c, {"etf"})
             local == Only(c, _DERIVED_KEYS)
             out == _build(c)
             default == {<<"limit", "is", LimitMax>>, <<"etf", "is", 0>>, <<"min_history", "is", HistoryMax>>}
  <1>1. \A f \in c : f[1] \in ALL_KEYS
    <2> SUFFICES ASSUME NEW f \in c PROVE f[1] \in ALL_KEYS
      OBVIOUS
    <2>1. PICK j \in DOMAIN read : Stated(read[j]) /\ f \in _apply(read[j])
      BY DEF BlockInv, Facts
    <2>2. f[1] = read[j].key
      BY <2>1, FactsOf
    <2> QED
      BY <2>1, <2>2 DEF Stated
  <1>2. /\ out.vendor = Only(c, _RANGE_KEYS \union _STRING_KEYS) \union etfs \union limits
        /\ out.derived = IF local = {} \/ Only(local, {"min_history"}) # {} THEN local
                         ELSE local \union {<<"min_history", "is", HistoryMax>>}
    BY DEF _build
  <1> HIDE DEF out
  <1>3. c \subseteq out.vendor \union out.derived
    BY <1>1, <1>2 DEF Only, ALL_KEYS
  <1>4. \A f \in out.vendor \union out.derived :
           \/ f \in c
           \/ f \in default /\ \A g \in c : g[1] # f[1]
    BY <1>2 DEF Only, _DERIVED_KEYS
  <1>5. \A f, g \in default : f[1] = g[1] => f = g
    OBVIOUS
  <1>6. UNION {_apply(read[i]) : i \in {k \in DOMAIN read : Given(k)}} = Facts(read)
    BY DEF Facts, Given, Stated
  <1>7. parser.errors = {i \in DOMAIN read : Faulty(i) \/ Repeats(i)}
    BY DEF BlockInv
  <1>8. ASSUME parser.errors = {}
        PROVE  Facts(read) \subseteq out.vendor \union out.derived /\ (out.vendor \union out.derived) \ Facts(read) \subseteq default
    <2>1. c = Facts(read)
      BY <1>8 DEF BlockInv
    <2> HIDE DEF default
    <2> QED
      BY <1>3, <1>4, <2>1
  <1>9. ASSUME NEW f \in out.vendor \union out.derived, NEW g \in out.vendor \union out.derived,
               f[1] = g[1], f[2] = g[2], f[1] \notin _REPEATABLE
        PROVE  f = g
    <2> HIDE DEF default
    <2>1. CASE f \in c /\ g \in c
      BY <1>9, <2>1 DEF BlockInv
    <2>2. CASE f \in default /\ g \in default
      BY <1>5, <1>9, <2>2
    <2> QED
      BY <1>4, <1>9, <2>1, <2>2
  <1> QED
    BY <1>6, <1>7, <1>8, <1>9 DEF BlockMeansItsLines, out

-----------------------------------------------------------------------------
\* The errors of a block are the lines that are wrong and those that say again what an
\* earlier one said; without one it asks for all its lines say and at most the defaults
\* besides, and for one value of one thing, whatever the lines and their order
\* (_parse_body and _build in screener/criteria.py).
THEOREM BlocksMeanTheirLines == ResearchSpec => []BlockMeansItsLines
  <1>1. ResearchInit => BlockInv
    BY BlockInitInv DEF ResearchInit
  <1>2. BlockInv /\ [ResearchNext]_researchVars => BlockInv'
    <2>1. [ResearchNext]_researchVars => [BlockNext]_blockVars
      BY DEF ResearchNext, researchVars, restVars, Still
    <2> QED
      BY <2>1, BlockNextInv
  <1> QED
    BY <1>1, <1>2, BlockSaysIt, PTL DEF ResearchSpec

-----------------------------------------------------------------------------
(* The walk-forward windows, the coverage scan and the grid. *)

LEMMA Product == ASSUME NEW x \in Int, NEW y \in Int PROVE x * y \in Int
  OBVIOUS

LEMMA ProductGrows ==
  ASSUME NEW x \in Int, NEW y \in Int, NEW z \in Nat, x <= y
  PROVE  x * z <= y * z
  <1>1. (y - x) * z = y * z - x * z
    OBVIOUS
  <1>2. 0 <= (y - x) * z
    OBVIOUS
  <1> QED
    BY <1>1, <1>2

LEMMA NextProduct ==
  ASSUME NEW x \in Int, NEW z \in Int
  PROVE  (x + 1) * z = x * z + z /\ (x - 1) * z = x * z - z
  OBVIOUS

\* The quotient is the number that fits.
LEMMA QuotientIs ==
  ASSUME NEW a \in Nat, NEW b \in Nat \ {0}, NEW q \in Nat, q * b <= a, a < (q + 1) * b
  PROVE  a \div b = q
  <1> DEFINE d == a \div b
             r == a % b
  <1>1. d \in Nat /\ r \in 0..(b - 1) /\ a = b * d + r
    OBVIOUS
  <1> HIDE DEF d, r
  <1>2. b * d = d * b /\ (d + 1) * b = d * b + b
    BY <1>1
  <1>3. d * b <= a /\ a < (d + 1) * b
    BY <1>1, <1>2
  <1>4. CASE d < q
    <2>1. (d + 1) * b <= q * b
      BY <1>1, <1>4, ProductGrows
    <2> QED
      BY <1>1, <1>3, <2>1, Product
  <1>5. CASE q < d
    <2>1. (q + 1) * b <= d * b
      BY <1>1, <1>5, ProductGrows
    <2> QED
      BY <1>1, <1>3, <2>1, Product
  <1>6. d = q
    BY <1>1, <1>4, <1>5
  <1> QED
    BY <1>6 DEF d

\* n is as many as fit into the room, and it is between 2 and max if the room is.
LEMMA Fits ==
  ASSUME NEW n \in Nat, NEW c \in Nat \ {0}, NEW room \in Int, NEW max \in Nat,
         room < (n + 1) * c, n > 0 => n * c <= room
  PROVE  /\ n = IF room < c THEN 0 ELSE room \div c
         /\ n \in 2..max <=> 2 * c <= room /\ room < (max + 1) * c
  <1>1. (n + 1) * c = n * c + c /\ n * c \in Int /\ 2 * c \in Int /\ (n + 1) * c \in Int /\ (max + 1) * c \in Int
    OBVIOUS
  <1>2. n > 0 => c <= n * c
    BY ProductGrows
  <1>3. n = IF room < c THEN 0 ELSE room \div c
    <2>1. CASE n = 0
      <3>1. (n + 1) * c = c
        BY <2>1
      <3> QED
        BY <2>1, <3>1
    <2>2. CASE n > 0
      <3>1. ~(room < c) /\ room \in Nat
        BY <1>1, <1>2, <2>2
      <3>2. room \div c = n
        BY <2>2, <3>1, QuotientIs
      <3> QED
        BY <3>1, <3>2
    <2> QED
      BY <2>1, <2>2
  <1>4. n >= 2 => 2 * c <= n * c
    BY ProductGrows
  <1>5. n < 2 => (n + 1) * c <= 2 * c
    BY ProductGrows
  <1>6. n < max + 1 => (n + 1) * c <= (max + 1) * c
    BY ProductGrows
  <1>7. n >= max + 1 => (max + 1) * c <= n * c
    BY ProductGrows
  <1>8. n >= 2 <=> 2 * c <= room
    <2> DEFINE a == n * c
               b == 2 * c
               d == (n + 1) * c
    <2>1. a \in Int /\ b \in Int /\ d \in Int /\ room < d /\ (n > 0 => a <= room) /\ (n >= 2 => b <= a) /\ (n < 2 => d <= b)
      BY <1>1, <1>4, <1>5
    <2> HIDE DEF a, b, d
    <2>2. n >= 2 <=> b <= room
      BY <2>1
    <2> QED
      BY <2>2 DEF b
  <1>9. n < max + 1 <=> room < (max + 1) * c
    <2> DEFINE a == n * c
               b == (max + 1) * c
               d == (n + 1) * c
    <2>1. /\ a \in Int /\ b \in Int /\ d \in Int /\ room < d /\ (n > 0 => a <= room)
          /\ (n < max + 1 => d <= b) /\ (n >= max + 1 => b <= a)
      BY <1>1, <1>6, <1>7
    <2> HIDE DEF a, b, d
    <2>2. n < max + 1 <=> room < b
      BY <2>1
    <2> QED
      BY <2>2 DEF b
  <1>10. n \in 2..max <=> n >= 2 /\ n < max + 1
    OBVIOUS
  <1> QED
    BY <1>3, <1>8, <1>9, <1>10

Config == [start : Nat, end : Nat, train : Nat \ {0}, test : Nat \ {0}, anchored : BOOLEAN]
_Window == [train_start : Nat, train_end : Nat, test_start : Nat, test_end : Nat]

\* Every window starts where the last one stopped, and t is where the next one would.
WindowsInv ==
    /\ wf \in Config /\ t \in Nat /\ windows \in Seq(_Window)
    /\ t = wf.start + Len(windows) * wf.test
    /\ \A i \in DOMAIN windows :
         LET w == windows[i]
         IN  /\ w.train_start >= wf.start /\ w.test_end <= wf.end
             /\ w.train_end = w.test_start /\ w.test_end - w.test_start = wf.test
             /\ w.train_start = (IF wf.anchored THEN wf.start ELSE w.train_end - wf.train)
             /\ w.test_start = (IF i = 1 THEN wf.start + wf.train ELSE windows[i - 1].test_end)
    /\ Len(windows) > 0 => windows[Len(windows)].test_end = t + wf.train

LEMMA WindowsStep == ASSUME WindowsInv, compute_windows PROVE WindowsInv'
  <1> DEFINE n == Len(windows)
             w == [train_start |-> IF wf.anchored THEN wf.start ELSE t, train_end |-> t + wf.train,
                   test_start  |-> t + wf.train, test_end |-> t + wf.train + wf.test]
  <1>1. /\ windows' = Append(windows, w) /\ t' = t + wf.test /\ wf' = wf
        /\ t + wf.train + wf.test <= wf.end
    BY DEF compute_windows
  <1>2. /\ wf.start \in Nat /\ wf.end \in Nat /\ wf.train \in Nat /\ wf.test \in Nat /\ wf \in Config
        /\ wf.train > 0 /\ wf.test > 0
        /\ t \in Nat /\ windows \in Seq(_Window) /\ t = wf.start + n * wf.test
    <2>1. wf \in Config /\ t \in Nat /\ windows \in Seq(_Window) /\ t = wf.start + n * wf.test
      BY DEF WindowsInv
    <2>2. \A c \in Config : /\ c.start \in Nat /\ c.end \in Nat /\ c.train \in Nat /\ c.test \in Nat
                            /\ c.train > 0 /\ c.test > 0
      BY DEF Config
    <2> HIDE DEF n
    <2> QED
      BY <2>1, <2>2
  <1>3. n \in Nat /\ n * wf.test \in Nat /\ (n + 1) * wf.test = n * wf.test + wf.test
    <2>1. n \in Nat
      BY <1>2
    <2> HIDE DEF n
    <2> QED
      BY <1>2, <2>1
  <1>4. w \in _Window
    BY <1>2 DEF _Window
  <1>5. /\ windows' \in Seq(_Window) /\ Len(windows') = n + 1 /\ DOMAIN windows = 1..n /\ DOMAIN windows' = 1..(n + 1)
        /\ windows'[n + 1] = w /\ \A i \in 1..n : windows'[i] = windows[i]
    <2> HIDE DEF w
    <2> QED
      BY <1>1, <1>2, <1>4
  <1>6. t' = wf.start + (n + 1) * wf.test /\ t' \in Nat
    <2> DEFINE k == n * wf.test
               k1 == (n + 1) * wf.test
    <2>1. k \in Nat /\ k1 = k + wf.test /\ t = wf.start + k
      BY <1>2, <1>3
    <2>2. t' = t + wf.test /\ wf.start \in Nat /\ wf.test \in Nat
      BY <1>1, <1>2
    <2> HIDE DEF k, k1, n, w
    <2>3. t' = wf.start + k1 /\ t' \in Nat
      BY <2>1, <2>2
    <2> QED
      BY <2>3 DEF k1
  <1>7. ASSUME NEW i \in 1..n
        PROVE  LET v == windows'[i]
               IN  /\ v.train_start >= wf.start /\ v.test_end <= wf.end
                   /\ v.train_end = v.test_start /\ v.test_end - v.test_start = wf.test
                   /\ v.train_start = (IF wf.anchored THEN wf.start ELSE v.train_end - wf.train)
                   /\ v.test_start = (IF i = 1 THEN wf.start + wf.train ELSE windows'[i - 1].test_end)
    <2>1. windows'[i] = windows[i] /\ (i # 1 => windows'[i - 1] = windows[i - 1]) /\ i \in DOMAIN windows
      BY <1>3, <1>5
    <2> QED
      BY <2>1 DEF WindowsInv
  <1>8. w.test_start = (IF n + 1 = 1 THEN wf.start + wf.train ELSE windows'[n].test_end)
    <2>1. CASE n = 0
      <3>1. n * wf.test = 0
        BY <1>2, <2>1
      <3>2. t = wf.start
        BY <1>2, <3>1
      <3> QED
        BY <1>2, <2>1, <3>2
    <2>2. CASE n # 0
      <3>1. windows[n].test_end = t + wf.train /\ n \in 1..n /\ n + 1 # 1
        BY <1>3, <2>2 DEF WindowsInv
      <3> QED
        BY <1>5, <3>1
    <2> QED
      BY <2>1, <2>2
  <1>9. /\ w.train_start >= wf.start /\ w.test_end <= wf.end
        /\ w.train_end = w.test_start /\ w.test_end - w.test_start = wf.test
        /\ w.train_start = (IF wf.anchored THEN wf.start ELSE w.train_end - wf.train)
        /\ w.test_end = t' + wf.train
    <2>1. t >= wf.start
      <3> HIDE DEF n
      <3> QED
        BY <1>2, <1>3
    <2> HIDE DEF n
    <2> QED
      BY <1>1, <1>2, <2>1
  <1>10. \A i \in DOMAIN windows' :
           LET v == windows'[i]
           IN  /\ v.train_start >= wf.start /\ v.test_end <= wf.end
               /\ v.train_end = v.test_start /\ v.test_end - v.test_start = wf.test
               /\ v.train_start = (IF wf.anchored THEN wf.start ELSE v.train_end - wf.train)
               /\ v.test_start = (IF i = 1 THEN wf.start + wf.train ELSE windows'[i - 1].test_end)
    <2>1. \A i \in DOMAIN windows' : i \in 1..n \/ i = n + 1
      BY <1>3, <1>5
    <2>2. (n + 1) - 1 = n
      BY <1>3
    <2> HIDE DEF w, n
    <2> QED
      BY <1>5, <1>7, <1>8, <1>9, <2>1, <2>2
  <1>11. windows'[Len(windows')].test_end = t' + wf.train
    BY <1>5, <1>9
  <1> HIDE DEF w, n
  <1> QED
    BY <1>1, <1>2, <1>5, <1>6, <1>10, <1>11 DEF WindowsInv

LEMMA WindowsHold == WindowsInv => WindowsTile
  <1> SUFFICES ASSUME WindowsInv PROVE WindowsTile
    OBVIOUS
  <1> DEFINE n == Len(windows)
             room == wf.end - wf.start - wf.train
  <1>1. wf \in Config /\ t \in Nat /\ windows \in Seq(_Window) /\ t = wf.start + n * wf.test
    BY DEF WindowsInv
  <1>2. wf.start \in Nat /\ wf.end \in Nat /\ wf.train \in Nat /\ wf.test \in Nat \ {0} /\ room \in Int
    BY <1>1 DEF Config
  <1>3. n \in Nat /\ DOMAIN windows = 1..n /\ \A i \in DOMAIN windows : windows[i] \in _Window
    BY <1>1
  <1>4. MaxWindows \in Nat
    BY WalkAssumption
  <1>5. \A i \in DOMAIN windows :
         LET w == windows[i]
         IN  /\ w.train_start >= wf.start /\ w.test_end <= wf.end
             /\ w.train_end = w.test_start /\ w.test_end - w.test_start = wf.test
             /\ w.train_start = (IF wf.anchored THEN wf.start ELSE w.train_end - wf.train)
             /\ i > 1 => w.test_start = windows[i - 1].test_end
    <2>1. ASSUME NEW i \in DOMAIN windows, i > 1 PROVE i # 1
      BY <1>3, <2>1
    <2> QED
      BY <2>1 DEF WindowsInv
  <1>6. n > 0 => t + wf.train <= wf.end
    <2> SUFFICES ASSUME n > 0 PROVE t + wf.train <= wf.end
      OBVIOUS
    <2>1. n \in DOMAIN windows /\ windows[n].test_end = t + wf.train
      BY <1>3 DEF WindowsInv
    <2> QED
      BY <1>5, <2>1
  <1> HIDE DEF n
  <1>7. n * wf.test \in Nat /\ (n + 1) * wf.test = n * wf.test + wf.test
    <2>1. \A c \in Nat : n * c \in Nat /\ (n + 1) * c = n * c + c
      BY <1>3
    <2> QED
      BY <1>2, <2>1
  <1>8. n > 0 => n * wf.test <= room
    <2> DEFINE k == n * wf.test
    <2>1. k \in Nat /\ t = wf.start + k
      BY <1>1, <1>7
    <2> HIDE DEF k
    <2>2. n > 0 => k <= room
      BY <1>2, <1>6, <2>1
    <2> QED
      BY <2>2 DEF k
  <1>9. ASSUME AllWindows PROVE room < (n + 1) * wf.test
    <2> DEFINE k == n * wf.test
               k1 == (n + 1) * wf.test
    <2>1. k \in Nat /\ t = wf.start + k /\ k1 = k + wf.test /\ t + wf.train + wf.test > wf.end
      BY <1>1, <1>7, <1>9 DEF AllWindows
    <2> HIDE DEF k, k1
    <2>2. room < k1
      BY <1>2, <2>1
    <2> QED
      BY <2>2 DEF k1
  <1>10. ASSUME AllWindows
         PROVE  /\ n = IF room < wf.test THEN 0 ELSE room \div wf.test
                /\ n \in 2..MaxWindows <=> 2 * wf.test <= room /\ room < (MaxWindows + 1) * wf.test
    <2> HIDE DEF room
    <2>1. room < (n + 1) * wf.test
      BY <1>9, <1>10
    <2>2. n \in Nat /\ wf.test \in Nat \ {0} /\ room \in Int /\ MaxWindows \in Nat
      BY <1>2, <1>3, <1>4
    <2>3. n > 0 => n * wf.test <= room
      BY <1>8
    <2> QED
      BY <2>1, <2>2, <2>3, Fits, Zenon
  <1>11. ASSUME NEW x \in Int
         PROVE  /\ x <= room <=> wf.end - wf.start >= wf.train + x
                /\ room < x <=> wf.end - wf.start < wf.train + x
    BY <1>2
  <1>12. 2 * wf.test \in Int /\ (MaxWindows + 1) * wf.test \in Int
    <2>1. \A c \in Nat, m \in Nat : 2 * c \in Int /\ (m + 1) * c \in Int
      OBVIOUS
    <2> QED
      BY <1>2, <1>4, <2>1
  <1>13. /\ 2 * wf.test <= room <=> wf.end - wf.start >= wf.train + 2 * wf.test
         /\ room < (MaxWindows + 1) * wf.test <=> wf.end - wf.start < wf.train + (MaxWindows + 1) * wf.test
    BY <1>11, <1>12
  <1> HIDE DEF room
  <1>14. _check_windows <=> AllWindows /\ wf.end - wf.start >= wf.train + 2 * wf.test
                         /\ wf.end - wf.start < wf.train + (MaxWindows + 1) * wf.test
    BY <1>10, <1>13 DEF _check_windows, n
  <1>15. AllWindows => n = IF room < wf.test THEN 0 ELSE room \div wf.test
    BY <1>10
  <1> QED
    BY <1>5, <1>14, <1>15 DEF WindowsTile, n, room

-----------------------------------------------------------------------------
(* The coverage scan.  W are the weekdays so far, H those with a bar. *)

Gap(W, H, a, b) ==
    /\ a \in W \ H /\ b \in W \ H /\ a <= b
    /\ \A w \in W : a <= w /\ w <= b => w \notin H
    /\ \A x \in W \ H : x < a => \E h \in H : x <= h /\ h <= b
    /\ \A y \in W \ H : y > b => \E h \in H : a <= h /\ h <= y

LEMMA BarComes ==
  ASSUME NEW W \in SUBSET Nat, NEW H \in SUBSET W, NEW d \in Nat, \A w \in W : w < d, NEW a, NEW b
  PROVE  Gap(W \union {d}, H \union {d}, a, b) <=> Gap(W, H, a, b)
  <1>1. (W \union {d}) \ (H \union {d}) = W \ H
    OBVIOUS
  <1>2. ASSUME Gap(W, H, a, b) PROVE Gap(W \union {d}, H \union {d}, a, b)
    BY <1>1, <1>2 DEF Gap
  <1>3. ASSUME Gap(W \union {d}, H \union {d}, a, b) PROVE Gap(W, H, a, b)
    <2>1. a \in W \ H /\ b \in W \ H /\ a <= b /\ a \in Nat /\ b \in Nat /\ b < d
      BY <1>1, <1>3 DEF Gap
    <2>2. \A w \in W : a <= w /\ w <= b => w \notin H
      BY <1>3 DEF Gap
    <2>3. ASSUME NEW x \in W \ H, x < a PROVE \E h \in H : x <= h /\ h <= b
      BY <1>1, <1>3, <2>1, <2>3 DEF Gap
    <2>4. ASSUME NEW y \in W \ H, y > b PROVE \E h \in H : a <= h /\ h <= y
      BY <1>1, <1>3, <2>1, <2>4 DEF Gap
    <2> QED
      BY <2>1, <2>2, <2>3, <2>4 DEF Gap
  <1> QED
    BY <1>2, <1>3

\* A day without a bar opens a gap where none reaches up to it ...
LEMMA GapOpens ==
  ASSUME NEW W \in SUBSET Nat, NEW H \in SUBSET W, NEW d \in Nat, \A w \in W : w < d, NEW a, NEW b,
         \A x \in W \ H : \E h \in H : x < h
  PROVE  Gap(W \union {d}, H, a, b) <=> Gap(W, H, a, b) \/ (a = d /\ b = d)
  <1>0. (W \union {d}) \ H = (W \ H) \union {d} /\ d \notin W
    OBVIOUS
  <1>1. ASSUME Gap(W, H, a, b) PROVE Gap(W \union {d}, H, a, b)
    <2>1. a \in W \ H /\ b \in W \ H /\ a <= b /\ a \in Nat /\ b \in Nat /\ b < d
      BY <1>1 DEF Gap
    <2>2. PICK h \in H : b < h /\ h < d /\ h \in Nat
      BY <2>1
    <2>3. a <= h /\ h <= d
      BY <2>1, <2>2
    <2> QED
      BY <1>0, <1>1, <2>1, <2>3 DEF Gap
  <1>2. Gap(W \union {d}, H, d, d)
    <2>1. ASSUME NEW x \in W \ H PROVE \E h \in H : x <= h /\ h <= d
      <3>1. PICK h \in H : x < h /\ h < d /\ h \in Nat /\ x \in Nat
        OBVIOUS
      <3> QED
        BY <3>1
    <2> QED
      BY <1>0, <2>1 DEF Gap
  <1>3. ASSUME Gap(W \union {d}, H, a, b) PROVE Gap(W, H, a, b) \/ (a = d /\ b = d)
    <2>1. CASE b = d
      <3>1. ASSUME a # d PROVE FALSE
        <4>1. a \in W \ H
          BY <1>0, <1>3, <3>1 DEF Gap
        <4>2. PICK h \in H : a < h
          BY <4>1
        <4>3. h \in W /\ h < d /\ a \in Nat /\ h \in Nat
          BY <4>1, <4>2
        <4> QED
          BY <1>3, <2>1, <4>2, <4>3 DEF Gap
      <3> QED
        BY <2>1, <3>1
    <2>2. CASE b # d
      <3>1. b \in W \ H /\ a \in W \ H /\ a <= b
        <4>1. b \in W \ H /\ a <= b /\ a \in (W \ H) \union {d}
          BY <1>0, <1>3, <2>2 DEF Gap
        <4>2. b < d /\ b \in Nat /\ a \in Nat
          BY <4>1
        <4>3. a # d
          BY <4>1, <4>2
        <4> QED
          BY <4>1, <4>3
      <3> QED
        BY <1>0, <1>3, <3>1 DEF Gap
    <2> QED
      BY <2>1, <2>2
  <1> QED
    BY <1>1, <1>2, <1>3

Passed(H, b) == \E h \in H : b < h
AllUpTo(W, n) == \A w \in W : w <= n

\* ... and makes the one that does longer.
LEMMA GapGrows ==
  ASSUME NEW W \in SUBSET Nat, NEW H \in SUBSET W, NEW d \in Nat, AllUpTo(W, d), d \notin W, NEW a, NEW b,
         NEW a0, NEW b0, Gap(W, H, a0, b0), AllUpTo(W, b0),
         Gap(W, H, a, b) /\ ~(a = a0 /\ b = b0) => Passed(H, b)
  PROVE  Gap(W \union {d}, H, a, b) <=> (Gap(W, H, a, b) /\ ~(a = a0 /\ b = b0)) \/ (a = a0 /\ b = d)
  <1> /\ \A w \in W : w < d
      /\ \A w \in W : w <= b0
      /\ Gap(W, H, a, b) /\ ~(a = a0 /\ b = b0) => \E h \in H : b < h
    BY DEF AllUpTo, Passed
  <1>0. (W \union {d}) \ H = (W \ H) \union {d} /\ d \notin W
    OBVIOUS
  <1>1. a0 \in W \ H /\ b0 \in W \ H /\ a0 <= b0 /\ a0 \in Nat /\ b0 \in Nat /\ b0 < d
    BY DEF Gap
  <1>2. \A h \in H : h <= b0 /\ h < d /\ h \in Nat /\ ~(a0 <= h)
    BY <1>1 DEF Gap
  <1>3. ASSUME Gap(W, H, a, b), ~(a = a0 /\ b = b0) PROVE Gap(W \union {d}, H, a, b)
    <2>1. a \in W \ H /\ b \in W \ H /\ a <= b /\ a \in Nat /\ b \in Nat /\ b < d
      BY <1>3 DEF Gap
    <2>2. PICK h \in H : b < h /\ h < d /\ h \in Nat
      BY <1>2, <1>3
    <2>3. a <= h /\ h <= d
      BY <2>1, <2>2
    <2> QED
      BY <1>0, <1>3, <2>1, <2>3 DEF Gap
  <1>4. Gap(W \union {d}, H, a0, d)
    <2>1. ASSUME NEW x \in W \ H, x < a0 PROVE \E h \in H : x <= h /\ h <= d
      <3>1. PICK h \in H : x <= h /\ h <= b0
        BY <2>1 DEF Gap
      <3> QED
        BY <1>2, <3>1
    <2>2. \A w \in W \union {d} : a0 <= w /\ w <= d => w \notin H
      BY <1>0, <1>2
    <2>3. ~(d < a0) /\ a0 <= d
      BY <1>1
    <2>4. \A y \in (W \ H) \union {d} : ~(y > d)
      OBVIOUS
    <2> QED
      BY <1>0, <1>1, <2>1, <2>2, <2>3, <2>4 DEF Gap
  <1>5. ASSUME Gap(W \union {d}, H, a, b) PROVE (Gap(W, H, a, b) /\ ~(a = a0 /\ b = b0)) \/ (a = a0 /\ b = d)
    <2>1. CASE b = d
      <3>1. a \in (W \ H) \union {d} /\ a \in Nat
        BY <1>0, <1>5 DEF Gap
      <3>2. ASSUME a < a0 PROVE FALSE
        <4>1. a \in W \ H
          BY <1>1, <3>1, <3>2
        <4>2. PICK h \in H : a <= h /\ h <= b0
          BY <3>2, <4>1 DEF Gap
        <4> QED
          BY <1>2, <1>5, <2>1, <4>2 DEF Gap
      <3>3. ASSUME a0 < a PROVE FALSE
        <4>1. PICK h \in H : a0 <= h
          BY <1>0, <1>1, <1>5, <3>3 DEF Gap
        <4> QED
          BY <1>2, <4>1
      <3> QED
        BY <1>1, <2>1, <3>1, <3>2, <3>3
    <2>2. CASE b # d
      <3>1. b \in W \ H /\ a \in W \ H /\ a <= b
        <4>1. b \in W \ H /\ a <= b /\ a \in (W \ H) \union {d}
          BY <1>0, <1>5, <2>2 DEF Gap
        <4>2. b < d /\ b \in Nat /\ a \in Nat
          BY <4>1
        <4>3. a # d
          BY <4>1, <4>2
        <4> QED
          BY <4>1, <4>3
      <3>2. Gap(W, H, a, b)
        BY <1>0, <1>5, <3>1 DEF Gap
      <3>3. ASSUME a = a0, b = b0 PROVE FALSE
        <4>1. PICK h \in H : a <= h
          BY <1>0, <1>1, <1>5, <3>3 DEF Gap
        <4> QED
          BY <1>2, <3>3, <4>1
      <3> QED
        BY <3>2, <3>3
    <2> QED
      BY <2>1, <2>2
  <1> QED
    BY <1>3, <1>4, <1>5


ScanInv ==
    LET W == _weekdays
        H == scan.have
    IN  /\ scan = [day |-> scan.day, have |-> H, run |-> scan.run, runs |-> scan.runs]
        /\ scan.day \in Nat /\ H \subseteq W
        /\ scan.runs \subseteq Nat \X Nat /\ (scan.run # <<>> => scan.run \in Nat \X Nat)
        /\ \A a, b \in Nat : <<a, b>> \in Gaps <=> Gap(W, H, a, b)
        /\ scan.run # <<>> => \A w \in W : w <= scan.run[2]
        /\ scan.run = <<>> => \A x \in W \ H : \E h \in H : x < h
        /\ \A gap \in scan.runs : \E h \in H : gap[2] < h
        /\ W \ H # {} => Gaps # {}

LEMMA ScanStep ==
  ASSUME ScanInv, NEW present \in BOOLEAN, _largest_gaps(present)
  PROVE  ScanInv'
  <1>0. PICK d, W, H, run, runs : /\ d = scan.day + 1 /\ W = _weekdays /\ H = scan.have /\ run = scan.run /\ runs = scan.runs
    OBVIOUS
  <1>1. /\ scan = [day |-> scan.day, have |-> H, run |-> run, runs |-> runs] /\ d \in Nat /\ scan.day \in Nat
        /\ H \in SUBSET W /\ W \in SUBSET Nat /\ \A w \in W : w < d /\ w \in Nat
        /\ runs \subseteq Nat \X Nat /\ (run # <<>> => run \in Nat \X Nat)
    <2>1. \A w \in W : w < d /\ w \in Nat
      BY <1>0 DEF ScanInv, _weekdays
    <2> QED
      BY <1>0, <2>1 DEF ScanInv
  <1> DEFINE before == runs \union IF run = <<>> THEN {} ELSE {run}
  <1>2. Gaps = before
    BY <1>0 DEF Gaps
  <1>3. \A a, b \in Nat : <<a, b>> \in before <=> Gap(W, H, a, b)
    BY <1>0, <1>2 DEF ScanInv
  <1>4. /\ run # <<>> => \A w \in W : w <= run[2]
        /\ run = <<>> => \A x \in W \ H : \E h \in H : x < h
        /\ \A gap \in runs : \E h \in H : gap[2] < h
        /\ W \ H # {} => before # {}
    BY <1>0, <1>2 DEF ScanInv
  <1>5. scan' = IF d \notin Weekdays THEN [scan EXCEPT !.day = d]
                ELSE IF ~present THEN [scan EXCEPT !.day = d, !.run = IF @ = <<>> THEN <<d, d>> ELSE <<@[1], d>>]
                ELSE [scan EXCEPT !.day = d, !.have = upsert_bars(@, d), !.run = <<>>,
                         !.runs = @ \union IF scan.run = <<>> THEN {} ELSE {scan.run}]
    BY <1>0 DEF _largest_gaps
  <1>6. scan'.day = d => _weekdays' = W \union IF d \in Weekdays THEN {d} ELSE {}
    <2> SUFFICES ASSUME scan'.day = d PROVE _weekdays' = W \union IF d \in Weekdays THEN {d} ELSE {}
      OBVIOUS
    <2>1. \A x : x \in 1..d <=> x \in 1..scan.day \/ x = d
      BY <1>0, <1>1
    <2> QED
      BY <1>0, <2>1 DEF _weekdays
  <1> HIDE DEF before
  <1>7. CASE d \notin Weekdays
    <2>1. scan' = [day |-> d, have |-> H, run |-> run, runs |-> runs]
      BY <1>1, <1>5, <1>7
    <2>2. /\ scan'.day = d /\ scan'.have = H /\ scan'.run = run /\ scan'.runs = runs /\ _weekdays' = W /\ Gaps' = before
      BY <1>6, <1>7, <2>1 DEF Gaps, before
    <2> QED
      BY <1>1, <1>3, <1>4, <2>1, <2>2 DEF ScanInv
  <1>8. CASE d \in Weekdays /\ present
    <2>1. scan' = [day |-> d, have |-> H \union {d}, run |-> <<>>, runs |-> before]
      BY <1>0, <1>1, <1>5, <1>8 DEF upsert_bars, before
    <2>2. /\ scan'.day = d /\ scan'.have = H \union {d} /\ scan'.run = <<>> /\ scan'.runs = before
          /\ _weekdays' = W \union {d} /\ Gaps' = before
      BY <1>6, <1>8, <2>1 DEF Gaps
    <2>3. (W \union {d}) \ (H \union {d}) \subseteq W \ H /\ H \union {d} \subseteq W \union {d}
      BY <1>1
    <2>4. \A a, b \in Nat : <<a, b>> \in before <=> Gap(W \union {d}, H \union {d}, a, b)
      BY <1>1, <1>3, BarComes
    <2>5. \A x \in W \ H : x < d
      BY <1>1
    <2>6. before \subseteq Nat \X Nat
      BY <1>1 DEF before
    <2>7. ASSUME NEW gap \in before PROVE gap[2] < d
      <3>1. gap = <<gap[1], gap[2]>> /\ gap[1] \in Nat /\ gap[2] \in Nat
        BY <2>6
      <3>2. Gap(W, H, gap[1], gap[2])
        BY <1>3, <3>1
      <3> QED
        BY <1>1, <3>2 DEF Gap
    <2>8. (W \union {d}) \ (H \union {d}) # {} => before # {}
      BY <1>4, <2>3
    <2> QED
      BY <1>1, <2>1, <2>2, <2>3, <2>4, <2>5, <2>6, <2>7, <2>8 DEF ScanInv
  <1>9. CASE d \in Weekdays /\ ~present
    <2> DEFINE longer == IF run = <<>> THEN <<d, d>> ELSE <<run[1], d>>
    <2>1. scan' = [day |-> d, have |-> H, run |-> longer, runs |-> runs]
      <3>1. scan' = [scan EXCEPT !.day = d, !.run = longer]
        BY <1>0, <1>5, <1>9
      <3>2. PICK e : scan = [day |-> e, have |-> H, run |-> run, runs |-> runs]
        BY <1>1
      <3> HIDE DEF longer
      <3> QED
        BY <3>1, <3>2
    <2>2. longer # <<>> /\ longer \in Nat \X Nat /\ longer[2] = d
      BY <1>1
    <2>3. /\ scan'.day = d /\ scan'.have = H /\ scan'.run = longer /\ scan'.runs = runs
          /\ _weekdays' = W \union {d} /\ Gaps' = runs \union {longer}
      BY <1>6, <1>9, <2>1, <2>2 DEF Gaps
    <2>4. ASSUME NEW a \in Nat, NEW b \in Nat PROVE <<a, b>> \in runs \union {longer} <=> Gap(W \union {d}, H, a, b)
      <3>1. CASE run = <<>>
        <4>1. before = runs /\ longer = <<d, d>>
          BY <3>1 DEF before
        <4>2. Gap(W \union {d}, H, a, b) <=> Gap(W, H, a, b) \/ (a = d /\ b = d)
          BY <1>1, <1>4, <3>1, GapOpens
        <4> QED
          BY <1>3, <4>1, <4>2
      <3>2. CASE run # <<>>
        <4>1. PICK a0 \in Nat, b0 \in Nat : run = <<a0, b0>>
          BY <1>1, <3>2
        <4>2. before = runs \union {<<a0, b0>>} /\ longer = <<a0, d>>
          BY <3>2, <4>1 DEF before
        <4>3. Gap(W, H, a0, b0) /\ \A w \in W : w <= b0
          BY <1>3, <1>4, <3>2, <4>1, <4>2
        <4>4. Gap(W, H, a, b) /\ ~(a = a0 /\ b = b0) => <<a, b>> \in runs
          BY <1>3, <4>2
        <4>5. <<a, b>> \in runs => \E h \in H : b < h
          BY <1>4
        <4>6. Gap(W \union {d}, H, a, b) <=> (Gap(W, H, a, b) /\ ~(a = a0 /\ b = b0)) \/ (a = a0 /\ b = d)
          <5>1. Gap(W, H, a, b) /\ ~(a = a0 /\ b = b0) => Passed(H, b)
            BY <4>4, <4>5 DEF Passed
          <5>2. AllUpTo(W, d) /\ d \notin W /\ AllUpTo(W, b0)
            BY <1>1, <4>3 DEF AllUpTo
          <5>3. W \in SUBSET Nat /\ H \in SUBSET W /\ d \in Nat /\ Gap(W, H, a0, b0)
            BY <1>1, <4>3
          <5> QED
            BY <5>1, <5>2, <5>3, GapGrows
        <4>7. ~(<<a0, b0>> \in runs)
          <5>1. \A h \in H : h <= b0
            BY <1>1, <4>3
          <5>2. ASSUME <<a0, b0>> \in runs PROVE FALSE
            <6>1. PICK h \in H : b0 < h
              BY <1>4, <5>2
            <6>2. h <= b0 /\ h \in Nat
              BY <1>1, <5>1
            <6> QED
              BY <6>1, <6>2
          <5> QED
            BY <5>2
        <4>8. <<a, b>> \in runs <=> Gap(W, H, a, b) /\ ~(a = a0 /\ b = b0)
          BY <1>3, <4>2, <4>7
        <4> QED
          BY <4>2, <4>6, <4>8
      <3> QED
        BY <3>1, <3>2
    <2>5. \A w \in W \union {d} : w <= longer[2]
      BY <1>1, <2>2
    <2> HIDE DEF longer
    <2>6. H \subseteq W \union {d}
      BY <1>1
    <2> QED
      BY <1>1, <1>4, <2>1, <2>2, <2>3, <2>4, <2>5, <2>6 DEF ScanInv
  <1> QED
    BY <1>7, <1>8, <1>9

LEMMA GapsHold == ScanInv => GapsAreMaximal
  <1> SUFFICES ASSUME ScanInv PROVE GapsAreMaximal
    OBVIOUS
  <1> DEFINE W == _weekdays
             H == scan.have
             Between(a, b) == W \intersect a..b
             maximal == {gap \in missing_bars \X missing_bars :
                      LET a == gap[1]  b == gap[2]
                      IN  /\ a <= b /\ Between(a, b) \subseteq missing_bars
                          /\ \A x \in missing_bars : x < a => ~(Between(x, b) \subseteq missing_bars)
                          /\ \A y \in missing_bars : y > b => ~(Between(a, y) \subseteq missing_bars)}
  <1>1. missing_bars = W \ H /\ W \subseteq Nat /\ H \subseteq W
    BY WalkAssumption DEF ScanInv, missing_bars, _weekdays
  <1>2. \A a, b \in Nat : Between(a, b) \subseteq missing_bars <=> \A w \in W : a <= w /\ w <= b => w \notin H
    BY <1>1
  <1>3. \A a, b \in Nat : ~(Between(a, b) \subseteq missing_bars) <=> \E h \in H : a <= h /\ h <= b
    BY <1>1, <1>2
  <1>4. ASSUME NEW a \in Nat, NEW b \in Nat PROVE <<a, b>> \in maximal <=> Gap(W, H, a, b)
    <2> DEFINE M == missing_bars
               B(c, d) == Between(c, d) \subseteq M
    <2>1. <<a, b>> \in maximal <=> /\ a \in M /\ b \in M /\ a <= b /\ B(a, b)
                                   /\ \A x \in M : x < a => ~B(x, b)
                                   /\ \A y \in M : y > b => ~B(a, y)
      <3>1. ASSUME a \in M, b \in M
            PROVE  <<a, b>> \in maximal <=> /\ a <= b /\ B(a, b)
                                            /\ \A x \in M : x < a => ~B(x, b)
                                            /\ \A y \in M : y > b => ~B(a, y)
        <4> DEFINE Meant(gap) == /\ gap[1] <= gap[2] /\ Between(gap[1], gap[2]) \subseteq M
                                 /\ \A x \in M : x < gap[1] => ~(Between(x, gap[2]) \subseteq M)
                                 /\ \A y \in M : y > gap[2] => ~(Between(gap[1], y) \subseteq M)
        <4>1. maximal = {gap \in M \X M : Meant(gap)}
          OBVIOUS
        <4>2. <<a, b>> \in M \X M
          BY <3>1
        <4>3. <<a, b>>[1] = a /\ <<a, b>>[2] = b
          OBVIOUS
        <4>4. Meant(<<a, b>>) <=> /\ a <= b /\ B(a, b)
                                  /\ \A x \in M : x < a => ~B(x, b)
                                  /\ \A y \in M : y > b => ~B(a, y)
          BY <4>3
        <4> HIDE DEF Meant, maximal, M, Between
        <4> QED
          BY <4>1, <4>2, <4>4
      <3>2. <<a, b>> \in M \X M <=> a \in M /\ b \in M
        OBVIOUS
      <3>3. <<a, b>> \in maximal => <<a, b>> \in M \X M
        OBVIOUS
      <3> HIDE DEF maximal, M, B
      <3> QED
        BY <3>1, <3>2, <3>3
    <2>2. M = W \ H /\ M \subseteq Nat
      BY <1>1
    <2>3. B(a, b) <=> \A w \in W : a <= w /\ w <= b => w \notin H
      BY <1>2
    <2>4. \A x \in Nat : ~B(x, b) <=> \E h \in H : x <= h /\ h <= b
      BY <1>3
    <2>5. \A y \in Nat : ~B(a, y) <=> \E h \in H : a <= h /\ h <= y
      BY <1>3
    <2> HIDE DEF maximal, W, H, M, B
    <2>6. (\A x \in M : x < a => ~B(x, b)) <=> \A x \in W \ H : x < a => \E h \in H : x <= h /\ h <= b
      BY <2>2, <2>4
    <2>7. (\A y \in M : y > b => ~B(a, y)) <=> \A y \in W \ H : y > b => \E h \in H : a <= h /\ h <= y
      BY <2>2, <2>5
    <2>8. a \in M /\ b \in M <=> a \in W \ H /\ b \in W \ H
      BY <2>2
    <2> QED
      <3>1. ASSUME <<a, b>> \in maximal PROVE Gap(W, H, a, b)
        <4>1. a \in W \ H /\ b \in W \ H /\ a <= b
          BY <2>1, <2>8, <3>1
        <4>2. \A w \in W : a <= w /\ w <= b => w \notin H
          BY <2>1, <2>3, <3>1
        <4>3. \A x \in W \ H : x < a => \E h \in H : x <= h /\ h <= b
          BY <2>1, <2>6, <3>1
        <4>4. \A y \in W \ H : y > b => \E h \in H : a <= h /\ h <= y
          BY <2>1, <2>7, <3>1
        <4> QED
          BY <4>1, <4>2, <4>3, <4>4 DEF Gap
      <3>2. Gap(W, H, a, b) => <<a, b>> \in maximal
        BY <2>1, <2>3, <2>6, <2>7, <2>8 DEF Gap
      <3> QED
        BY <3>1, <3>2
  <1>5. maximal \subseteq Nat \X Nat
    BY <1>1
  <1>6. Gaps \subseteq Nat \X Nat
    BY DEF ScanInv, Gaps
  <1> HIDE DEF maximal
  <1>7. Gaps = maximal
    <2>1. \A a, b \in Nat : <<a, b>> \in Gaps <=> <<a, b>> \in maximal
      BY <1>4 DEF ScanInv
    <2>2. \A x \in Nat \X Nat : x = <<x[1], x[2]>> /\ x[1] \in Nat /\ x[2] \in Nat
      OBVIOUS
    <2>3. \A x \in Nat \X Nat : x \in Gaps <=> x \in maximal
      BY <2>1, <2>2
    <2> QED
      BY <1>5, <1>6, <2>3
  <1>8. ~_validate_coverage /\ W # {} => Gaps # {}
    <2> SUFFICES ASSUME ~_validate_coverage, W # {}, W \ H = {} PROVE FALSE
      BY DEF ScanInv
    <2>1. H = W
      BY <1>1
    <2>2. Cardinality(W) \in Nat
      <3>1. IsFiniteSet(1..scan.day)
        <4>1. scan.day \in Nat
          BY DEF ScanInv
        <4> QED
          BY <4>1, FS_Interval
      <3>2. W \subseteq 1..scan.day
        BY DEF _weekdays
      <3> HIDE DEF W
      <3> QED
        BY <3>1, <3>2, FS_Subset, FS_CardinalityType
    <2>3. ~(Cardinality(H) * 100 >= 95 * Cardinality(W))
      BY DEF _validate_coverage
    <2> HIDE DEF W, H
    <2> QED
      BY <2>1, <2>2, <2>3
  <1> QED
    BY <1>7, <1>8 DEF GapsAreMaximal, maximal

-----------------------------------------------------------------------------
LEMMA GridsRefine == user_grid \in Refinements => GridRefines
  <1> SUFFICES ASSUME user_grid \in Refinements, NEW g \in _effective_grid
               PROVE  make_combos(g) \subseteq make_combos(Declared) /\ make_combos(g) # {}
    BY DEF GridRefines
  <1>1. /\ \A k \in DOMAIN user_grid : k \in DOMAIN Declared /\ user_grid[k] \subseteq Declared[k]
        /\ g = [k \in DOMAIN Declared |-> IF k \in DOMAIN user_grid THEN user_grid[k] ELSE Declared[k]]
    BY DEF _effective_grid
  <1>2. /\ DOMAIN g = DOMAIN Declared
        /\ \A k \in DOMAIN g : g[k] \subseteq Declared[k] /\ g[k] # {}
    BY <1>1, WalkAssumption
  <1>3. make_combos(g) \subseteq make_combos(Declared)
    BY <1>2 DEF make_combos
  <1>4. [k \in DOMAIN g |-> CHOOSE v \in g[k] : TRUE] \in make_combos(g)
    BY <1>2 DEF make_combos
  <1> QED
    BY <1>3, <1>4

WalkInv == user_grid \in Refinements /\ WindowsInv /\ ScanInv

LEMMA WalkInitInv == WalkInit => WalkInv
  <1> SUFFICES ASSUME WalkInit PROVE WalkInv
    OBVIOUS
  <1>1. wf \in Config /\ user_grid \in Refinements /\ t = wf.start /\ windows = <<>>
    BY WalkAssumption DEF WalkInit, Config
  <1>2. WindowsInv
    <2>1. Len(windows) = 0 /\ DOMAIN windows = {} /\ windows \in Seq(_Window) /\ wf.start \in Nat /\ wf.test \in Nat
      BY <1>1 DEF Config
    <2>2. Len(windows) * wf.test = 0
      BY <2>1
    <2> QED
      BY <1>1, <2>1, <2>2 DEF WindowsInv
  <1>3. ScanInv
    <2>1. scan = [day |-> 0, have |-> {}, run |-> <<>>, runs |-> {}]
      BY DEF WalkInit
    <2>2. _weekdays = {} /\ Gaps = {}
      BY <2>1 DEF _weekdays, Gaps
    <2> QED
      BY <2>1, <2>2 DEF ScanInv, Gap
  <1> QED
    BY <1>1, <1>2, <1>3 DEF WalkInv

LEMMA WalkNextInv ==
  ASSUME WalkInv, compute_windows \/ (\E p \in BOOLEAN : _largest_gaps(p)) \/ (\E c \in Closes : NextBar(c))
                  \/ UNCHANGED walkVars
  PROVE  WalkInv'
  <1>1. CASE compute_windows
    <2>1. UNCHANGED <<user_grid, scan>>
      BY <1>1 DEF compute_windows
    <2>2. ScanInv'
      BY <2>1 DEF WalkInv, ScanInv, _weekdays, Gaps, Gap
    <2> QED
      BY <1>1, <2>1, <2>2, WindowsStep DEF WalkInv
  <1>2. ASSUME NEW p \in BOOLEAN, _largest_gaps(p) PROVE WalkInv'
    BY <1>2, ScanStep DEF WalkInv, _largest_gaps, WindowsInv
  <1>3. CASE UNCHANGED <<wf, user_grid, t, windows, scan>>
    <2>1. WindowsInv'
      BY <1>3 DEF WalkInv, WindowsInv
    <2>2. ScanInv'
      BY <1>3 DEF WalkInv, ScanInv, _weekdays, Gaps, Gap
    <2> QED
      BY <1>3, <2>1, <2>2 DEF WalkInv
  <1> QED
    BY <1>1, <1>2, <1>3 DEF NextBar, walkVars

LEMMA WalkHolds == WalkInv => WalkIsSound
  BY WindowsHold, GapsHold, GridsRefine DEF WalkInv, WalkIsSound

-----------------------------------------------------------------------------
\* The windows of a backtest follow each other without overlap or gap and are as many
\* as fit, a refused coverage names the maximal runs of missing weekdays, and no value
\* outside the adapter's grid is tried, for any configuration, calendar and grid
\* (compute_windows in backtest/wf.py, _largest_gaps in data.py, _effective_grid in views.py).
THEOREM WalksAreSound == ResearchSpec => []WalkIsSound
  <1>1. ResearchInit => WalkInv
    BY WalkInitInv DEF ResearchInit
  <1>2. WalkInv /\ [ResearchNext]_researchVars => WalkInv'
    BY WalkNextInv DEF ResearchNext, researchVars, restVars, Still
  <1> QED
    BY <1>1, <1>2, WalkHolds, PTL DEF ResearchSpec

-----------------------------------------------------------------------------
(* The signals: what is signalled at a row depends on the window behind it. *)

\* The m bars up to row i of s are those up to row j of r.
Alike(s, i, r, j, m) == \A d \in 0..(m - 1) : s[i - d] = r[j - d]

\* Two series that are the same over the slow window behind a row and the row before it
\* are signalled the same there.
LEMMA WindowTells ==
  ASSUME NEW X, NEW s \in Seq(X), NEW r \in Seq(X), NEW i \in 1..Len(s), NEW j \in 1..Len(r),
         NEW m \in Nat \ {0}, m <= i, m <= j,
         Alike(s, i, r, j, m)
  PROVE  rolling(s, m, i) = rolling(r, m, j)
  <1> DEFINE u == SubSeq(s, i - m + 1, i)  v == SubSeq(r, j - m + 1, j)
  <1>1. u \in Seq(X) /\ Len(u) = m /\ \A k \in 1..m : u[k] = s[i - m + k]
    BY SMTT(30)
  <1>2. v \in Seq(X) /\ Len(v) = m /\ \A k \in 1..m : v[k] = r[j - m + k]
    BY SMTT(30)
  <1>3. \A k \in 1..m : u[k] = v[k]
    <2> SUFFICES ASSUME NEW k \in 1..m PROVE u[k] = v[k]
      OBVIOUS
    <2>1. m - k \in 0..(m - 1) /\ i - (m - k) = i - m + k /\ j - (m - k) = j - m + k
      OBVIOUS
    <2> HIDE DEF u, v
    <2> QED
      BY <1>1, <1>2, <2>1 DEF Alike
  <1>4. u = v
    <2> HIDE DEF u, v
    <2> QED
      BY <1>1, <1>2, <1>3
  <1>5. rolling(s, m, i) = {total(u)} /\ rolling(r, m, j) = {total(v)}
    BY DEF rolling
  <1> HIDE DEF u, v
  <1> QED
    BY <1>4, <1>5

\* One row of generate_signals.
SignalAt(s, i) ==
    LET valid == rolling(s, Fast, i) # {} /\ rolling(s, Slow, i) # {}
        prev  == i > 1 /\ above(s, i - 1)
    IN  [entry |-> valid /\ above(s, i) /\ ~prev, exit |-> valid /\ ~above(s, i) /\ prev]

LEMMA SignalRows ==
  ASSUME NEW s
  PROVE  generate_signals(s) = [i \in DOMAIN s |-> SignalAt(s, i)]
  BY DEF generate_signals, SignalAt

\* With the same means at a row and at the row before it, the same signals.
LEMMA SameSignal ==
  ASSUME NEW s, NEW r, NEW i, NEW j,
         rolling(s, Fast, i) = rolling(r, Fast, j), rolling(s, Slow, i) = rolling(r, Slow, j),
         (i > 1 /\ above(s, i - 1)) <=> (j > 1 /\ above(r, j - 1))
  PROVE  SignalAt(s, i) = SignalAt(r, j)
  <1>1. above(s, i) <=> above(r, j)
    BY DEF above
  <1> QED
    BY <1>1 DEF SignalAt

\* Before its window is full a mean is NaN, and nothing is above.
LEMMA TooShort ==
  ASSUME NEW s, NEW i \in Int, NEW m \in Nat, i < m PROVE rolling(s, m, i) = {}
  BY DEF rolling

LEMMA TooShortToBeAbove ==
  ASSUME NEW s, NEW i \in Int, i < Slow PROVE ~above(s, i)
  BY TooShort, WalkAssumption DEF above

\* What later bars add does not change a row.
LEMMA NoLookAhead ==
  ASSUME NEW X, NEW s \in Seq(X), NEW n \in 1..Len(s)
  PROVE  generate_signals(SubSeq(s, 1, n)) = SubSeq(generate_signals(s), 1, n)
  <1> DEFINE r == SubSeq(s, 1, n)
  <1>1. r \in Seq(X) /\ Len(r) = n /\ DOMAIN r = 1..n /\ \A i \in 1..n : r[i] = s[i]
    OBVIOUS
  <1> HIDE DEF r
  <1>2. ASSUME NEW i \in 0..n, NEW m \in Nat \ {0} PROVE rolling(r, m, i) = rolling(s, m, i)
    <2>1. CASE i < m
      <3>1. i \in Int /\ m \in Nat
        OBVIOUS
      <3> QED
        BY <2>1, <3>1 DEF rolling
    <2>2. CASE m <= i
      <3>1. i \in 1..Len(s) /\ i \in 1..Len(r)
        BY <1>1, <2>2
      <3>2. Alike(r, i, s, i, m)
        BY <1>1, <2>2, <3>1 DEF Alike
      <3> QED
        BY <1>1, <2>2, <3>1, <3>2, WindowTells
    <2> QED
      BY <2>1, <2>2
  <1>3. Fast \in Nat \ {0} /\ Slow \in Nat \ {0}
    BY WalkAssumption
  <1>4. ASSUME NEW i \in 1..n PROVE SignalAt(r, i) = SignalAt(s, i)
    <2>1. rolling(r, Fast, i) = rolling(s, Fast, i) /\ rolling(r, Slow, i) = rolling(s, Slow, i)
      BY <1>2, <1>3
    <2>2. rolling(r, Fast, i - 1) = rolling(s, Fast, i - 1) /\ rolling(r, Slow, i - 1) = rolling(s, Slow, i - 1)
      BY <1>2, <1>3
    <2>3. above(r, i - 1) <=> above(s, i - 1)
      BY <2>2 DEF above
    <2> QED
      BY <2>1, <2>3, SameSignal
  <1>5. generate_signals(r) = [i \in 1..n |-> SignalAt(r, i)]
    BY <1>1, SignalRows
  <1>6. generate_signals(s) = [i \in 1..Len(s) |-> SignalAt(s, i)]
    BY SignalRows
  <1>7. SubSeq(generate_signals(s), 1, n) = [i \in 1..n |-> SignalAt(s, i)]
    <2> DEFINE g == [i \in 1..Len(s) |-> SignalAt(s, i)]  T == {SignalAt(s, i) : i \in 1..Len(s)}
    <2>1. g \in [1..Len(s) -> T]
      OBVIOUS
    <2>2. g \in Seq(T) /\ Len(g) = Len(s)
      <3> HIDE DEF g, T
      <3> QED
        BY <2>1
    <2>3. SubSeq(g, 1, n) = [i \in 1..n |-> g[i]]
      <3> HIDE DEF g, T
      <3> QED
        BY <2>2
    <2>4. \A i \in 1..n : g[i] = SignalAt(s, i)
      OBVIOUS
    <2>5. [i \in 1..n |-> g[i]] = [i \in 1..n |-> SignalAt(s, i)]
      BY <2>4
    <2> HIDE DEF g
    <2> QED
      BY <1>6, <2>3, <2>5 DEF g
  <1> QED
    BY <1>4, <1>5, <1>7 DEF r

\* With a slow window behind a row, the bars before it do not matter.
LEMMA WarmupIsEnough ==
  ASSUME NEW X, NEW s \in Seq(X), NEW n \in 1..Len(s), NEW k \in 1..(n - warmup_bars)
  PROVE  generate_signals(SubSeq(s, k, Len(s)))[n - k + 1] = generate_signals(s)[n]
  <1> DEFINE r == SubSeq(s, k, Len(s))  j == n - k + 1
  <1>0. Slow \in Nat /\ Fast \in Nat \ {0} /\ Slow \in Nat \ {0} /\ Fast < Slow /\ warmup_bars = Slow
    BY WalkAssumption DEF warmup_bars
  <1>1. k \in Nat /\ 1 <= k /\ k + Slow <= n /\ n <= Len(s) /\ j \in Nat /\ 1 < j /\ Slow < j
    BY <1>0
  <1>2. r \in Seq(X) /\ Len(r) = Len(s) - k + 1 /\ \A i \in 1..(Len(s) - k + 1) : r[i] = s[k + i - 1]
    BY <1>1, SMTT(30)
  <1> HIDE DEF r
  <1>3. ASSUME NEW i \in {n - 1, n}, NEW m \in Nat \ {0}, m <= Slow
        PROVE  rolling(r, m, i - k + 1) = rolling(s, m, i)
    <2>1. i \in 1..Len(s) /\ i - k + 1 \in 1..Len(r) /\ m <= i /\ m <= i - k + 1
      BY <1>0, <1>1, <1>2, <1>3
    <2>2. PICK h \in 1..Len(r) : h = i - k + 1
      BY <2>1
    <2>3. ASSUME NEW d \in 0..(m - 1) PROVE r[h - d] = s[i - d]
      <3>1. h - d \in 1..(Len(s) - k + 1) /\ k + (h - d) - 1 = i - d
        BY <1>1, <1>2, <2>1, <2>2
      <3> QED
        BY <1>2, <3>1
    <2>4. Alike(r, h, s, i, m)
      BY <2>3 DEF Alike
    <2>5. rolling(r, m, h) = rolling(s, m, i)
      <3>1. m <= i /\ m <= h /\ i \in 1..Len(s)
        BY <2>1, <2>2
      <3> QED
        BY <1>2, <2>4, <3>1, WindowTells
    <2> QED
      BY <2>2, <2>5
  <1>4. rolling(r, Fast, j) = rolling(s, Fast, n) /\ rolling(r, Slow, j) = rolling(s, Slow, n)
    BY <1>0, <1>3
  <1>5. n - 1 - k + 1 = j - 1
    BY <1>1
  <1>6. rolling(r, Fast, j - 1) = rolling(s, Fast, n - 1) /\ rolling(r, Slow, j - 1) = rolling(s, Slow, n - 1)
    BY <1>0, <1>3, <1>5
  <1>7. above(r, j - 1) <=> above(s, n - 1)
    BY <1>6 DEF above
  <1>8. n > 1 /\ j > 1 /\ j \in DOMAIN r /\ n \in DOMAIN s
    BY <1>1, <1>2
  <1>9. SignalAt(r, j) = SignalAt(s, n)
    BY <1>4, <1>7, <1>8, SameSignal
  <1>10. generate_signals(r)[j] = SignalAt(r, j) /\ generate_signals(s)[n] = SignalAt(s, n)
    BY <1>8, SignalRows
  <1> QED
    BY <1>9, <1>10 DEF r

LEMMA SignalsHold == ASSUME NEW X, series \in Seq(X) PROVE SignalsStand
  BY NoLookAhead, WarmupIsEnough DEF SignalsStand

-----------------------------------------------------------------------------
\* A signal does not change when later bars come, and behind warmup_bars rows it does not
\* depend on how far back the bars go, for any closes and periods
\* (generate_signals and warmup_bars in backtest/strategies/sma_cross.py).
THEOREM NoLookAheadInSignals == ResearchSpec => []SignalsStand
  <1>1. ResearchInit => series \in Seq(Closes)
    BY DEF ResearchInit, WalkInit
  <1>2. series \in Seq(Closes) /\ [ResearchNext]_researchVars => (series \in Seq(Closes))'
    <2>1. ASSUME series \in Seq(Closes), NEW c \in Closes, NextBar(c) PROVE series' \in Seq(Closes)
      BY <2>1 DEF NextBar
    <2>2. ASSUME series \in Seq(Closes), compute_windows \/ (\E p \in BOOLEAN : _largest_gaps(p)) PROVE series' \in Seq(Closes)
      BY <2>2 DEF compute_windows, _largest_gaps
    <2> QED
      BY <2>1, <2>2 DEF ResearchNext, researchVars, restVars, walkVars, Still
  <1>3. series \in Seq(Closes) => SignalsStand
    BY SignalsHold
  <1> QED
    BY <1>1, <1>2, <1>3, PTL DEF ResearchSpec

-----------------------------------------------------------------------------
(* The screener's table: any candidates, whatever is asked of them. *)

ListRow == [symbol : Names, cap : Caps, bars : Histories]
Distinct(list) == \A i, j \in DOMAIN list : list[i].symbol = list[j].symbol => i = j

\* A column is one number or missing.
Column(p) == p \subseteq Int /\ \A x, y \in p : x = y

LEMMA OneHigh ==
  ASSUME NEW bars \in Seq([close : Nat, high : Nat])
  PROVE  /\ high_252(bars) \subseteq Nat /\ \A g, h \in high_252(bars) : g = h
         /\ high_252(bars) # {} => Close(bars) \in Nat
  <1>1. \A i \in DOMAIN bars : i \in 1..Len(bars) /\ bars[i].high \in Nat /\ bars[i].close \in Nat
    <2>1. ASSUME NEW B, NEW s \in Seq(B), NEW i \in DOMAIN s PROVE i \in 1..Len(s) /\ s[i] \in B
      OBVIOUS
    <2>2. \A i \in DOMAIN bars : i \in 1..Len(bars) /\ bars[i] \in [close : Nat, high : Nat]
      BY <2>1
    <2> QED
      BY <2>2
  <1>2. Highs(bars) \subseteq Nat
    BY <1>1 DEF Highs
  <1>3. high_252(bars) \subseteq Nat /\ \A g, h \in high_252(bars) : g = h
    <2>1. ASSUME NEW g \in high_252(bars), NEW h \in high_252(bars) PROVE g = h
      <3>1. g \in Nat /\ h \in Nat /\ g <= h /\ h <= g
        BY <1>2 DEF high_252
      <3> QED
        BY <3>1
    <2> QED
      BY <1>2, <2>1 DEF high_252
  <1>4. ASSUME high_252(bars) # {} PROVE Close(bars) \in Nat
    <2>1. PICK i : i \in DOMAIN bars
      BY <1>4 DEF high_252, Highs
    <2>2. Len(bars) \in DOMAIN bars
      BY <1>1, <2>1
    <2> QED
      BY <1>1, <2>2 DEF Close
  <1> QED
    BY <1>3, <1>4

LEMMA ColumnsAre == ASSUME NEW row \in ListRow, NEW crit PROVE Column(column(row, crit))
  <1>1. row.cap \in Nat /\ row.bars \in Seq([close : Nat, high : Nat])
    BY ShortlistAssumption DEF ListRow
  <1>2. Column({-c : c \in {row.cap} \ {0}})
    BY <1>1 DEF Column
  <1>3. Column(pct_from_52w_high(row.bars))
    <2>1. \A g, h \in high_252(row.bars) : g = h
      BY <1>1, OneHigh
    <2>2. ASSUME NEW h \in high_252(row.bars) \ {0}
          PROVE  ((h - Close(row.bars)) * 20000 + h) \div (2 * h) \in Int
      <3>1. h \in Nat /\ h > 0 /\ Close(row.bars) \in Nat
        BY <1>1, OneHigh
      <3>2. PICK x \in Int : x = (h - Close(row.bars)) * 20000 + h
        BY <3>1
      <3>3. PICK d \in Nat \ {0} : d = 2 * h
        BY <3>1
      <3>4. x \div d \in Int
        OBVIOUS
      <3> QED
        BY <3>2, <3>3, <3>4
    <2> QED
      BY <2>1, <2>2 DEF Column, pct_from_52w_high
  <1> QED
    BY <1>2, <1>3 DEF column

\* rank orders any rows whose symbols differ.
LEMMA LeadsOrders ==
  ASSUME NEW p, NEW q, NEW r, Column(p), Column(q), Column(r)
  PROVE  /\ ~(Leads(p, q) /\ Leads(q, p)) /\ ~Leads(p, p)
         /\ Leads(p, q) /\ Leads(q, r) => Leads(p, r)
         /\ p = q \/ Leads(p, q) \/ Leads(q, p)
  <1>1. ASSUME NEW s, Column(s) PROVE s = {} \/ \E x \in Int : s = {x}
    BY <1>1 DEF Column
  <1>2. /\ p = {} \/ \E x \in Int : p = {x}
        /\ q = {} \/ \E x \in Int : q = {x}
        /\ r = {} \/ \E x \in Int : r = {x}
    BY <1>1
  <1>0. ~Leads({}, {})
    BY DEF Leads
  <1>3. \A x, y \in Int : /\ Leads({x}, {y}) <=> x < y
                          /\ Leads({x}, {}) /\ ~Leads({}, {x})
    BY DEF Leads
  <1>4. ~(Leads(p, q) /\ Leads(q, p)) /\ ~Leads(p, p) /\ (p = q \/ Leads(p, q) \/ Leads(q, p))
    <2>0. CASE p = {} /\ q = {}
      BY <1>0, <2>0
    <2>1. ASSUME NEW x \in Int, p = {}, q = {x} PROVE ~Leads(p, q) /\ Leads(q, p) /\ ~Leads(p, p)
      BY <1>0, <1>3, <2>1
    <2>2. ASSUME NEW x \in Int, p = {x}, q = {} PROVE Leads(p, q) /\ ~Leads(q, p) /\ ~Leads(p, p)
      <3>1. ~(x < x)
        OBVIOUS
      <3> QED
        BY <1>3, <2>2, <3>1
    <2>3. ASSUME NEW x \in Int, NEW y \in Int, p = {x}, q = {y}
          PROVE  ~(Leads(p, q) /\ Leads(q, p)) /\ ~Leads(p, p) /\ (p = q \/ Leads(p, q) \/ Leads(q, p))
      <3>1. (Leads(p, q) <=> x < y) /\ (Leads(q, p) <=> y < x) /\ (Leads(p, p) <=> x < x)
        BY <1>3, <2>3
      <3>2. x < y \/ y < x \/ x = y
        OBVIOUS
      <3> QED
        BY <2>3, <3>1, <3>2
    <2> QED
      BY <1>2, <2>0, <2>1, <2>2, <2>3
  <1>6. Leads(p, q) /\ Leads(q, r) => Leads(p, r)
    <2>1. CASE p = {} \/ q = {}
      BY <1>2, <1>3, <2>1
    <2>2. CASE r = {}
      BY <1>2, <1>3, <2>2
    <2>3. ASSUME NEW x \in Int, NEW y \in Int, NEW z \in Int, p = {x}, q = {y}, r = {z}
          PROVE  Leads(p, q) /\ Leads(q, r) => Leads(p, r)
      <3>1. (Leads(p, q) <=> x < y) /\ (Leads(q, r) <=> y < z) /\ (Leads(p, r) <=> x < z)
        BY <1>3, <2>3
      <3> QED
        BY <3>1
    <2> QED
      BY <1>2, <2>1, <2>2, <2>3
  <1> QED
    BY <1>4, <1>6

LEMMA RankOrders ==
  ASSUME NEW a \in ListRow, NEW b \in ListRow, NEW c \in ListRow, NEW crit
  PROVE  /\ ~(rank(a, b, crit) /\ rank(b, a, crit)) /\ ~rank(a, a, crit)
         /\ rank(a, b, crit) /\ rank(b, c, crit) => rank(a, c, crit)
         /\ a.symbol # b.symbol => rank(a, b, crit) \/ rank(b, a, crit)
  <1>1. a.symbol \in Int /\ b.symbol \in Int /\ c.symbol \in Int
    BY ShortlistAssumption DEF ListRow
  <1>2. PICK p : p = column(a, crit) /\ Column(p)
    BY ColumnsAre
  <1>3. PICK q : q = column(b, crit) /\ Column(q)
    BY ColumnsAre
  <1>4. PICK r : r = column(c, crit) /\ Column(r)
    BY ColumnsAre
  <1>5. /\ ~(Leads(p, q) /\ Leads(q, p)) /\ ~Leads(p, p)
        /\ Leads(p, q) /\ Leads(q, r) => Leads(p, r)
        /\ p = q \/ Leads(p, q) \/ Leads(q, p)
    BY <1>2, <1>3, <1>4, LeadsOrders
  <1>6. /\ rank(a, b, crit) <=> Leads(p, q) \/ (p = q /\ a.symbol < b.symbol)
        /\ rank(b, a, crit) <=> Leads(q, p) \/ (q = p /\ b.symbol < a.symbol)
        /\ rank(b, c, crit) <=> Leads(q, r) \/ (q = r /\ b.symbol < c.symbol)
        /\ rank(a, c, crit) <=> Leads(p, r) \/ (p = r /\ a.symbol < c.symbol)
        /\ rank(a, a, crit) <=> Leads(p, p) \/ (p = p /\ a.symbol < a.symbol)
    BY <1>2, <1>3, <1>4 DEF rank
  <1> HIDE DEF Leads
  <1> QED
    BY <1>1, <1>5, <1>6

\* How many rows are ahead of each that passes, and how many pass.
Places(list, crit) == [i \in Kept(list, crit) |-> Cardinality(Ahead(list, i, crit))]
TableLen(list, crit) == Cardinality(Kept(list, crit))

\* The rows ahead of row i, when symbols differ.
LEMMA AheadIs ==
  ASSUME NEW crit, NEW list \in Seq(ListRow), Distinct(list), NEW i \in Kept(list, crit)
  PROVE  Ahead(list, i, crit) = {j \in Kept(list, crit) : rank(list[j], list[i], crit)}
  <1>1. DOMAIN list = 1..Len(list) /\ \A j \in DOMAIN list : list[j] \in ListRow
    OBVIOUS
  <1>2. ASSUME NEW j \in Kept(list, crit), j < i, ~rank(list[i], list[j], crit) PROVE rank(list[j], list[i], crit)
    <2>1. i \in DOMAIN list /\ j \in DOMAIN list /\ i \in Int /\ j \in Int
      BY <1>1 DEF Kept
    <2>2. list[i].symbol # list[j].symbol
      BY <1>2, <2>1 DEF Distinct
    <2> QED
      BY <1>1, <1>2, <2>1, <2>2, RankOrders
  <1> QED
    BY <1>2 DEF Ahead

\* Every row that passes has a place of its own, and every place has its row.
LEMMA OneForEachPlace ==
  ASSUME NEW crit, NEW list \in Seq(ListRow), Distinct(list)
  PROVE  /\ IsFiniteSet(Kept(list, crit)) /\ TableLen(list, crit) \in Nat
         /\ \A i, j \in Kept(list, crit) : Places(list, crit)[i] = Places(list, crit)[j] => i = j
         /\ \A k \in 1..TableLen(list, crit) : \E i \in Kept(list, crit) : Places(list, crit)[i] = k - 1
  <1> DEFINE K == Kept(list, crit)  n == TableLen(list, crit)  P == Places(list, crit)  T == 0..(n - 1)
  <1>1. DOMAIN list = 1..Len(list) /\ Len(list) \in Nat /\ \A j \in DOMAIN list : list[j] \in ListRow
    OBVIOUS
  <1>2. K \subseteq DOMAIN list
    BY DEF Kept
  <1>3. IsFiniteSet(K) /\ n \in Nat
    <2>1. IsFiniteSet(1..Len(list))
      BY <1>1, FS_Interval
    <2> QED
      BY <1>1, <1>2, <2>1, FS_Subset, FS_CardinalityType DEF TableLen
  <1>4. ASSUME NEW i \in K PROVE P[i] \in T /\ IsFiniteSet(Ahead(list, i, crit)) /\ i \notin Ahead(list, i, crit)
    <2>1. Ahead(list, i, crit) \subseteq K /\ i \notin Ahead(list, i, crit)
      BY <1>1, <1>2, AheadIs, RankOrders
    <2>2. IsFiniteSet(K \ {i}) /\ Cardinality(K \ {i}) = n - 1
      BY <1>3, FS_RemoveElement DEF TableLen
    <2>3. IsFiniteSet(Ahead(list, i, crit)) /\ Cardinality(Ahead(list, i, crit)) <= n - 1
      <3>1. Ahead(list, i, crit) \in SUBSET (K \ {i})
        BY <2>1
      <3> QED
        BY <2>2, <3>1, FS_Subset
    <2>4. Cardinality(Ahead(list, i, crit)) \in Nat
      BY <2>3, FS_CardinalityType
    <2> QED
      BY <1>3, <2>1, <2>3, <2>4 DEF Places
  <1>5. ASSUME NEW i \in K, NEW j \in K, rank(list[i], list[j], crit) PROVE P[i] # P[j]
    <2>1. Ahead(list, i, crit) \subseteq Ahead(list, j, crit)
      <3>1. ASSUME NEW h \in K, rank(list[h], list[i], crit) PROVE rank(list[h], list[j], crit)
        BY <1>1, <1>2, <1>5, <3>1, RankOrders
      <3> QED
        BY <3>1, AheadIs
    <2>2. i \in Ahead(list, j, crit) /\ i \notin Ahead(list, i, crit)
      BY <1>4, <1>5, AheadIs
    <2>3. Cardinality(Ahead(list, j, crit)) # Cardinality(Ahead(list, i, crit))
      BY <1>4, <2>1, <2>2, FS_Subset
    <2> QED
      BY <2>3 DEF Places
  <1>6. ASSUME NEW i \in K, NEW j \in K, P[i] = P[j] PROVE i = j
    <2>1. ~rank(list[i], list[j], crit) /\ ~rank(list[j], list[i], crit)
      BY <1>5, <1>6
    <2>2. list[i].symbol = list[j].symbol
      BY <1>1, <1>2, <2>1, RankOrders
    <2> QED
      BY <1>2, <2>2 DEF Distinct
  <1>7. P \in Surjection(K, T)
    <2>1. P \in [K -> T]
      BY <1>4 DEF Places
    <2>2. P \in Injection(K, T)
      BY <1>6, <2>1 DEF Injection, IsInjective
    <2>3. IsFiniteSet(T) /\ Cardinality(T) = n
      <3>1. 0 \in Int /\ n - 1 \in Int /\ (IF 0 > n - 1 THEN 0 ELSE n - 1 - 0 + 1) = n
        BY <1>3
      <3> QED
        BY <3>1, FS_Interval
    <2> QED
      BY <2>2, <2>3, FS_Injection DEF TableLen
  <1>8. ASSUME NEW k \in 1..n PROVE \E i \in K : P[i] = k - 1
    <2>1. k - 1 \in T
      BY <1>3
    <2> QED
      BY <1>7, <2>1 DEF Surjection
  <1> QED
    BY <1>3, <1>6, <1>8

\* The row at a place of the table.
LEMMA RowAt ==
  ASSUME NEW crit, NEW list \in Seq(ListRow), Distinct(list), NEW i \in Kept(list, crit), NEW k \in 1..TableLen(list, crit),
         Places(list, crit)[i] = k - 1
  PROVE  Ranked(list, crit)[k] = list[i]
  <1>1. \A j \in Kept(list, crit) : Places(list, crit)[j] = Cardinality(Ahead(list, j, crit))
    BY DEF Places
  <1>2. (CHOOSE j \in Kept(list, crit) : Cardinality(Ahead(list, j, crit)) = k - 1) = i
    <2>1. \A j \in Kept(list, crit) : Cardinality(Ahead(list, j, crit)) = k - 1 => j = i
      BY <1>1, OneForEachPlace
    <2> QED
      BY <1>1, <2>1
  <1> QED
    BY <1>2 DEF Ranked, TableLen

\* Another order of the same candidates.
LEMMA Reordered ==
  ASSUME NEW crit, NEW list \in Seq(ListRow), Distinct(list), NEW f \in [DOMAIN list -> DOMAIN list],
         \A i, j \in DOMAIN list : f[i] = f[j] => i = j
  PROVE  Ranked([i \in DOMAIN list |-> list[f[i]]], crit) = Ranked(list, crit)
  <1> DEFINE D == DOMAIN list  again == [i \in D |-> list[f[i]]]
             K == Kept(list, crit)  L == Kept(again, crit)
  <1>1. D = 1..Len(list) /\ Len(list) \in Nat /\ \A j \in D : list[j] \in ListRow
    OBVIOUS
  <1>2. again \in Seq(ListRow) /\ DOMAIN again = D /\ \A i \in D : again[i] = list[f[i]]
    <2>1. again \in [1..Len(list) -> ListRow]
      BY <1>1
    <2> HIDE DEF again
    <2>2. again \in Seq(ListRow)
      BY <1>1, <2>1
    <2> QED
      BY <2>2 DEF again
  <1>3. Distinct(again)
    BY <1>2 DEF Distinct
  <1>4. f \in Surjection(D, D)
    <2>1. IsFiniteSet(D)
      BY <1>1, FS_Interval
    <2>2. f \in Injection(D, D)
      BY DEF Injection, IsInjective
    <2> QED
      BY <2>1, <2>2, FS_Injection
  <1> HIDE DEF again
  <1>5. L = {i \in D : f[i] \in K} /\ L \subseteq D /\ K \subseteq D
    BY <1>2 DEF Kept
  <1>6. ASSUME NEW S \in SUBSET K, NEW R, R = {i \in L : f[i] \in S}, IsFiniteSet(R)
        PROVE  Cardinality(R) = Cardinality(S)
    <2> DEFINE g == [i \in R |-> f[i]]
    <2>1. g \in [R -> S] /\ \A i \in R : g[i] = f[i]
      BY <1>6
    <2>2. ASSUME NEW s \in S PROVE \E i \in R : g[i] = s
      <3>1. PICK i \in D : f[i] = s
        BY <1>4, <1>5 DEF Surjection
      <3> QED
        BY <1>5, <1>6, <2>1, <3>1
    <2>3. \A i, j \in R : g[i] = g[j] => i = j
      BY <1>5, <1>6, <2>1
    <2>4. g \in Bijection(R, S)
      <3> HIDE DEF g
      <3> QED
        BY <2>1, <2>2, <2>3 DEF Bijection, Injection, IsInjective, Surjection
    <2> QED
      BY <1>6, <2>4, FS_Bijection DEF ExistsBijection
  <1>7. /\ IsFiniteSet(L) /\ TableLen(again, crit) \in Nat
        /\ \A k \in 1..TableLen(again, crit) : \E i \in L : Places(again, crit)[i] = k - 1
    BY <1>2, <1>3, OneForEachPlace
  <1>8. TableLen(again, crit) = TableLen(list, crit)
    <2>1. L = {i \in L : f[i] \in K} /\ K \in SUBSET K
      BY <1>5
    <2> QED
      BY <1>6, <1>7, <2>1 DEF TableLen
  <1>9. ASSUME NEW i \in L PROVE f[i] \in K /\ Places(again, crit)[i] = Places(list, crit)[f[i]]
    <2>1. i \in D /\ f[i] \in K
      BY <1>5
    <2>2. Ahead(again, i, crit) = {j \in L : rank(again[j], again[i], crit)}
      BY <1>2, <1>3, AheadIs
    <2>3. Ahead(list, f[i], crit) = {j \in K : rank(list[j], list[f[i]], crit)}
      BY <2>1, AheadIs
    <2>4. Ahead(again, i, crit) = {j \in L : f[j] \in Ahead(list, f[i], crit)}
      BY <1>2, <1>5, <2>1, <2>2, <2>3
    <2>5. Ahead(list, f[i], crit) \in SUBSET K
      BY <2>3
    <2>6. IsFiniteSet(Ahead(again, i, crit))
      <3>1. Ahead(again, i, crit) \in SUBSET L
        BY <2>2
      <3> QED
        BY <1>7, <3>1, FS_Subset
    <2>7. Cardinality(Ahead(again, i, crit)) = Cardinality(Ahead(list, f[i], crit))
      BY <1>6, <2>4, <2>5, <2>6
    <2> QED
      BY <2>1, <2>7 DEF Places
  <1>10. ASSUME NEW k \in 1..TableLen(list, crit) PROVE Ranked(again, crit)[k] = Ranked(list, crit)[k]
    <2>1. PICK i \in L : Places(again, crit)[i] = k - 1
      BY <1>7, <1>8
    <2>2. Ranked(again, crit)[k] = again[i]
      BY <1>2, <1>3, <1>8, <2>1, RowAt
    <2>3. Ranked(list, crit)[k] = list[f[i]]
      BY <1>9, <2>1, RowAt
    <2> QED
      BY <1>2, <1>5, <2>2, <2>3
  <1>11. ASSUME NEW s PROVE DOMAIN Ranked(s, crit) = 1..TableLen(s, crit) /\ Ranked(s, crit) = [k \in 1..TableLen(s, crit) |-> Ranked(s, crit)[k]]
    BY DEF Ranked, TableLen
  <1>12. Ranked(again, crit) = [k \in 1..TableLen(list, crit) |-> Ranked(list, crit)[k]]
    BY <1>8, <1>10, <1>11
  <1> QED
    BY <1>11, <1>12 DEF again

\* The candidates that came, each once, and their table.
ListInv == derived \in Asked /\ came \in Seq(ListRow) /\ Distinct(came) /\ shown = Ranked(came, derived)

LEMMA ListInitInv == ListInit => ListInv
  <1>1. Kept(<<>>, derived) = {} /\ Cardinality({}) = 0
    BY FS_EmptySet DEF Kept
  <1>2. 1..Cardinality(Kept(<<>>, derived)) = {}
    <2>1. 1..0 = {}
      OBVIOUS
    <2> QED
      BY <1>1, <2>1
  <1>3. Ranked(<<>>, derived) = <<>>
    BY <1>2 DEF Ranked
  <1> QED
    BY <1>3 DEF ListInit, ListInv, Distinct

LEMMA ListNextInv == ListInv /\ [ListNext]_listVars => ListInv'
  <1>1. ASSUME ListInv, NEW row \in ListRow, Candidate(row) PROVE ListInv'
    <2>1. came' \in Seq(ListRow) /\ derived' \in Asked
      BY <1>1 DEF ListInv, Candidate
    <2>2. ASSUME NEW i \in DOMAIN came', NEW j \in DOMAIN came', came'[i].symbol = came'[j].symbol PROVE i = j
      <3>1. /\ DOMAIN came' = 1..(Len(came) + 1) /\ came'[Len(came) + 1] = row
            /\ DOMAIN came = 1..Len(came) /\ Len(came) \in Nat
            /\ \A k \in 1..Len(came) : came'[k] = came[k]
        BY <1>1 DEF ListInv, Candidate
      <3>2. \A k \in 1..Len(came) : came[k].symbol # row.symbol
        BY <1>1, <3>1 DEF Candidate
      <3>3. i \in 1..Len(came) \/ i = Len(came) + 1
        BY <3>1
      <3>4. j \in 1..Len(came) \/ j = Len(came) + 1
        BY <3>1
      <3>5. \A k, l \in 1..Len(came) : came[k].symbol = came[l].symbol => k = l
        BY <1>1, <3>1 DEF ListInv, Distinct
      <3> QED
        BY <2>2, <3>1, <3>2, <3>3, <3>4, <3>5
    <2>3. Distinct(came')
      BY <2>2 DEF Distinct
    <2>4. Distinct(came)'
      BY <2>3 DEF Distinct
    <2>5. shown' = Ranked(came, derived)'
      BY <1>1 DEF Candidate
    <2> QED
      BY <2>1, <2>4, <2>5 DEF ListInv, ListRow
  <1>2. ASSUME ListInv, UNCHANGED listVars PROVE ListInv'
    BY <1>2 DEF ListInv, listVars, Distinct
  <1>3. ASSUME ListInv, NEW s \in Names, NEW c \in Caps, NEW h \in Histories,
               Candidate([symbol |-> s, cap |-> c, bars |-> h])
        PROVE  ListInv'
    <2>1. [symbol |-> s, cap |-> c, bars |-> h] \in ListRow
      BY DEF ListRow
    <2> QED
      BY <1>1, <1>3, <2>1
  <1> QED
    BY <1>2, <1>3 DEF ListNext

\* A window that was asked for has as many bars as it needs.
LEMMA WindowsAreFull ==
  ASSUME NEW bars \in Seq([close : Nat, high : Nat]), NEW crit \in Asked, passes(bars, crit),
         NEW w \in crit.above \union crit.rising
  PROVE  Len(bars) >= w
  <1>1. w \in Nat /\ Len(bars) \in Nat
    <2>1. w \in Windows
      BY ShortlistAssumption
    <2>2. w \in Nat
      BY <2>1, ShortlistAssumption
    <2> QED
      BY <2>2
  <1>2. _sma(bars, w, 0) # {}
    BY DEF passes
  <1>3. ~(Len(bars) - 0 - w < 0)
    BY <1>2 DEF _sma
  <1> QED
    BY <1>1, <1>3

LEMMA ListHolds == ListInv => TableIsReproducible
  <1> SUFFICES ASSUME ListInv PROVE TableIsReproducible
    OBVIOUS
  <1>1. came \in Seq(ListRow) /\ Distinct(came) /\ shown = Ranked(came, derived) /\ derived \in Asked
    BY DEF ListInv
  <1>2. ASSUME NEW f \in Reorderings PROVE Ranked([i \in DOMAIN came |-> came[f[i]]], derived) = shown
    <2>1. f \in [DOMAIN came -> DOMAIN came] /\ \A i, j \in DOMAIN came : f[i] = f[j] => i = j
      BY DEF Reorderings
    <2> QED
      BY <1>1, <2>1, Reordered
  <1>3. ASSUME NEW k \in DOMAIN shown, NEW w \in derived.above \union derived.rising
        PROVE  Len(shown[k].bars) >= w
    <2>1. k \in 1..TableLen(came, derived)
      BY <1>1 DEF Ranked, TableLen
    <2>2. PICK i \in Kept(came, derived) : Places(came, derived)[i] = k - 1
      BY <1>1, <2>1, OneForEachPlace
    <2>3. shown[k] = came[i]
      BY <1>1, <2>1, <2>2, RowAt
    <2>4. came[i] \in ListRow /\ passes(came[i].bars, derived)
      BY <1>1 DEF Kept
    <2>5. came[i].bars \in Seq([close : Nat, high : Nat])
      BY <2>4, ShortlistAssumption DEF ListRow
    <2> QED
      BY <1>1, <2>3, <2>4, <2>5, WindowsAreFull
  <1> QED
    BY <1>2, <1>3 DEF TableIsReproducible

LEMMA ResearchListStep == ASSUME ListInv, [ResearchNext]_researchVars PROVE ListInv'
  <1>1. ListNext \/ UNCHANGED listVars
    BY DEF ResearchNext, researchVars, restVars, Still
  <1> QED
    BY <1>1, ListNextInv

\* The table of a screen is the same in whatever order the vendor lists its candidates,
\* and its rows have the bars their criteria need, for any histories, caps and criteria
\* (compute_metrics, passes and rank in screener/enrich.py).
THEOREM TablesAreReproducible == ResearchSpec => []TableIsReproducible
  <1>1. ResearchInit => ListInv
    BY ListInitInv DEF ResearchInit
  <1>2. ListInv /\ [ResearchNext]_researchVars => ListInv'
    BY ResearchListStep
  <1> QED
    BY <1>1, <1>2, ListHolds, PTL DEF ResearchSpec

\* What the research side computes: the parser, the table, the windows with their gaps and
\* grids, and the signals.
THEOREM ComputationsAlwaysAgree == ResearchSpec => []ComputationsAgree
  <1>1. BlockMeansItsLines /\ TableIsReproducible /\ WalkIsSound /\ SignalsStand => ComputationsAgree
    BY DEF ComputationsAgree
  <1> QED
    BY <1>1, BlocksMeanTheirLines, TablesAreReproducible, WalksAreSound, NoLookAheadInSignals, PTL
=============================================================================
