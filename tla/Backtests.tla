------------------------------ MODULE Backtests -----------------------------
(* apps/backtest: the walk-forward runs of one user from POST to report, the   *)
(* worker of the backtest queue, cancellation, and the nightly eviction.       *)
EXTENDS Integers, Sequences, FiniteSets

CONSTANTS
    Clients,      \* concurrent requests of the user
    Cap,          \* _MAX_CONCURRENT
    Checks,       \* symbols of a run; a cancel is looked for before each
    MaxRuns,      \* bound: runs created
    MaxCrashes    \* bound: workers killed and tasks that raise

ASSUME BacktestsAssumption ==
    /\ {Cap, MaxRuns, MaxCrashes} \subseteq Nat /\ Checks \in Nat \ {0}
    /\ IsFiniteSet(Clients) /\ Clients # {}

VARIABLES
    bruns,     \* rows of backtest_run with their segments and report
    calls,     \* [Clients -> the request's step and the run it read]
    workers,   \* per run: the task's step, the status it read or is about to save,
               \* and the symbols left
    crashes

backVars == <<bruns, calls, workers, crashes>>

TERMINAL_STATUSES == {"COMPLETED", "FAILED", "CANCELLED"}
Status == TERMINAL_STATUSES \union {"QUEUED", "RUNNING", "CANCELLING"}
BacktestRun == [st : Status, segments : 0..Checks, report : {"none", "full", "evicted"}]

is_active(i) == bruns[i].st \notin TERMINAL_STATUSES
Ids == DOMAIN bruns

BackInit ==
    /\ bruns = <<>> /\ workers = <<>> /\ crashes = 0
    /\ calls = [c \in Clients |-> [pc |-> "idle", ref |-> 0]]

Stage(pc, st, left) == [pc |-> pc, st |-> st, left |-> left]
CallAt(c, pc) == calls[c].pc = pc
CallTo(c, pc, i) == calls' = [calls EXCEPT ![c] = [pc |-> pc, ref |-> i]]

-----------------------------------------------------------------------------
(* The API *)

\* Mutant: a run being cancelled no longer counts against the cap.
CountLoose(c) ==
    /\ CallAt(c, "idle") /\ Len(bruns) < MaxRuns
    /\ Cardinality({i \in Ids : bruns[i].st \in {"QUEUED", "RUNNING"}}) < Cap
    /\ CallTo(c, "create", 0)
    /\ UNCHANGED <<bruns, workers, crashes>>

\* The active runs are counted against the cap ...
CountActive(c) ==
    /\ CallAt(c, "idle") /\ Len(bruns) < MaxRuns
    /\ Cardinality({i \in Ids : is_active(i)}) < Cap
    /\ CallTo(c, "create", 0)
    /\ UNCHANGED <<bruns, workers, crashes>>

\* ... and after the checks of the configuration the row is created and queued.
CreateRun(c) ==
    /\ CallAt(c, "create") /\ Len(bruns) < MaxRuns
    /\ bruns' = Append(bruns, [st |-> "QUEUED", segments |-> 0, report |-> "none"])
    /\ workers' = Append(workers, Stage("queued", "", Checks))
    /\ CallTo(c, "idle", 0)
    /\ UNCHANGED crashes

CancelRead(c, i) ==
    /\ CallAt(c, "idle") /\ is_active(i)
    /\ CallTo(c, "cancel", i)
    /\ UNCHANGED <<bruns, workers, crashes>>

CancelSave(c) ==
    /\ CallAt(c, "cancel")
    /\ bruns' = [bruns EXCEPT ![calls[c].ref].st = "CANCELLING"]
    /\ CallTo(c, "idle", 0)
    /\ UNCHANGED <<workers, crashes>>

-----------------------------------------------------------------------------
(* run_backtest *)

WorkAt(i, pc) == workers[i].pc = pc
WorkTo(i, pc) == workers' = [workers EXCEPT ![i].pc = pc]
EndAs(i, st)  == workers' = [workers EXCEPT ![i] = Stage("save", st, 0)]

TaskReadsRun(i) ==
    /\ WorkAt(i, "queued")
    /\ workers' = [workers EXCEPT ![i] = Stage("read", bruns[i].st, Checks)]
    /\ UNCHANGED <<bruns, calls, crashes>>

\* Judged by what was read: the flag, a cancel before pick-up, or RUNNING.
TaskStarts(i, enabled) ==
    /\ WorkAt(i, "read")
    /\ IF ~enabled THEN EndAs(i, "FAILED") /\ UNCHANGED bruns
       ELSE IF workers[i].st = "CANCELLING" THEN EndAs(i, "CANCELLED") /\ UNCHANGED bruns
       ELSE /\ bruns' = [bruns EXCEPT ![i].st = "RUNNING"]
            /\ workers' = [workers EXCEPT ![i] = Stage("check", "", Checks)]
    /\ UNCHANGED <<calls, crashes>>

\* should_cancel before a symbol's windows.
should_cancel(i) ==
    /\ WorkAt(i, "check")
    /\ IF bruns[i].st = "CANCELLING" THEN EndAs(i, "CANCELLED") ELSE WorkTo(i, "segment")
    /\ UNCHANGED <<bruns, calls, crashes>>

\* The symbol's windows are swept, replayed and upserted; progress saves only
\* stage and percentage.
_persist_segments(i) ==
    /\ WorkAt(i, "segment")
    /\ bruns' = [bruns EXCEPT ![i].segments = @ + 1]
    /\ workers' = [workers EXCEPT ![i].left = @ - 1,
                                  ![i].pc = IF workers[i].left = 1 THEN "report" ELSE "check"]
    /\ UNCHANGED <<calls, crashes>>

\* The artifacts are built and upserted, then the run is saved as completed.
BuildReport(i) ==
    /\ WorkAt(i, "report")
    /\ bruns' = [bruns EXCEPT ![i].report = "full"]
    /\ EndAs(i, "COMPLETED")
    /\ UNCHANGED <<calls, crashes>>

\* Missing data, no adapter, an artifact too large, the soft time limit, any bug.
TaskRaises(i) ==
    /\ workers[i].pc \in {"check", "segment", "report"} /\ crashes < MaxCrashes
    /\ crashes' = crashes + 1 /\ EndAs(i, "FAILED")
    /\ UNCHANGED <<bruns, calls>>

\* _terminal and _fail: run.save(), every column.
_terminal(i) ==
    /\ WorkAt(i, "save")
    /\ bruns' = [bruns EXCEPT ![i].st = workers[i].st]
    /\ workers' = [workers EXCEPT ![i] = Stage("over", "", 0)]
    /\ UNCHANGED <<calls, crashes>>

\* Killed at the hard limit, or lost with its worker: acknowledged, not rerun.
WorkerDies(i) ==
    /\ ~WorkAt(i, "over") /\ ~WorkAt(i, "dead") /\ crashes < MaxCrashes
    /\ crashes' = crashes + 1
    /\ workers' = [workers EXCEPT ![i] = Stage("dead", "", 0)]
    /\ UNCHANGED <<bruns, calls>>

\* Past retention only the artifacts go.
evict(i) ==
    /\ workers[i].pc \in {"over", "dead"} /\ bruns[i].report = "full"
    /\ bruns' = [bruns EXCEPT ![i].report = "evicted"]
    /\ UNCHANGED <<calls, workers, crashes>>

Works(i) ==
    \/ TaskReadsRun(i) \/ should_cancel(i) \/ _persist_segments(i) \/ BuildReport(i)
    \/ _terminal(i)
    \/ \E enabled \in BOOLEAN : TaskStarts(i, enabled)

BackNext ==
    \/ \E c \in Clients : \/ CountActive(c) \/ CreateRun(c) \/ CancelSave(c)
                          \/ \E i \in Ids : CancelRead(c, i)
    \/ \E i \in Ids : Works(i) \/ TaskRaises(i) \/ WorkerDies(i) \/ evict(i)

BackSpec == BackInit /\ [][BackNext]_backVars

-----------------------------------------------------------------------------
BackTypeOK ==
    /\ \A i \in Ids : bruns[i] \in BacktestRun
    /\ Len(workers) = Len(bruns)

\* A completed run has a segment for every symbol and its report, evicted at most.
CompletedIsWhole ==
    \A i \in Ids : bruns[i].st = "COMPLETED" =>
        bruns[i].segments = Checks /\ bruns[i].report # "none"

\* The cap is counted before the row is created, so POSTs in flight together can
\* pass it, but never by more than one each; cancelled runs still being worked
\* count too.
CapHolds ==
    Cardinality({i \in Ids : is_active(i) /\ ~WorkAt(i, "over") /\ ~WorkAt(i, "dead")})
        <= Cap + Cardinality(Clients) - 1

\* Runs end, with two exceptions: a run whose worker was killed, and one that a
\* cancel which had read it as active was saved over after its end.
BacktestEnds ==
    []<>(\A i \in Ids : is_active(i) =>
            WorkAt(i, "dead") \/ (WorkAt(i, "over") /\ bruns[i].st = "CANCELLING"))
=============================================================================
