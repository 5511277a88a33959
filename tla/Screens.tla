------------------------------- MODULE Screens ------------------------------
(* apps/screener: the runs of one (user, strategy), the POSTs that queue them, *)
(* the Celery task that works a run against the vendor, and the pruning of the *)
(* history.  A worker keeps its own copy of the row and saves all of it at the *)
(* end, whatever became of the row meanwhile.                                  *)
EXTENDS Vendor

CONSTANTS
    Callers,       \* concurrent POSTs
    Limit,         \* the enrichment limit of the [screen] block
    HistoryKeep,   \* HISTORY_KEEP
    MaxScreens,    \* bound: runs created
    MaxKills       \* bound: workers killed

ASSUME ScreensAssumption == {Limit, HistoryKeep, MaxScreens, MaxKills} \subseteq Nat \ {0}

VARIABLES
    screens,   \* status of the rows of screener_run in order of creation
    aged,      \* how many of the oldest rows are past STALE_AFTER
    posts,     \* [Callers -> the step its POST is at]
    tasks,     \* the Celery task of each run, with the worker's copy of it
    kills

screenVars == <<screens, aged, posts, tasks, kills>>

ScreenRun == {"QUEUED", "RUNNING", "DONE", "FAILED", "gone"}
_empty_counts == [enriched |-> 0, insufficient_history |-> 0,
                  skipped_rate_limited |-> 0, skipped_unavailable |-> 0]
Total(c) == c.enriched + c.insufficient_history + c.skipped_rate_limited + c.skipped_unavailable

Active(i) == screens[i] \in {"QUEUED", "RUNNING"}
Runs == DOMAIN screens
Saved(i, st) == screens' = [screens EXCEPT ![i] = st]

ScreensInit ==
    /\ VendorInit
    /\ screens = <<>> /\ tasks = <<>> /\ aged = 0 /\ kills = 0
    /\ posts = [c \in Callers |-> "idle"]

-----------------------------------------------------------------------------
(* POST .../screen/ *)

PostTo(c, pc) == posts' = [posts EXCEPT ![c] = pc]

\* Mutant: only rows no worker ever picked up are reaped.
ReapQueued(c) ==
    /\ posts[c] = "idle" /\ ResolvedKey
    /\ screens' = [i \in Runs |-> IF i <= aged /\ screens[i] = "QUEUED"
                                  THEN "FAILED" ELSE screens[i]]
    /\ PostTo(c, "look")
    /\ UNCHANGED <<vendorVars, aged, tasks, kills>>

\* A provider must be configured; then one UPDATE over the active rows older than
\* STALE_AFTER.
_reap_stale_runs(c) ==
    /\ posts[c] = "idle" /\ ResolvedKey
    /\ screens' = [i \in Runs |-> IF i <= aged /\ Active(i) THEN "FAILED" ELSE screens[i]]
    /\ PostTo(c, "look")
    /\ UNCHANGED <<vendorVars, aged, tasks, kills>>

LookForActive(c) ==
    /\ posts[c] = "look"
    /\ PostTo(c, IF \E i \in Runs : Active(i) THEN "idle" ELSE "insert")
    /\ UNCHANGED <<vendorVars, screens, aged, tasks, kills>>

Step(pc, derived) == [pc |-> pc, derived |-> derived, of |-> 0, at |-> 0,
                      counts |-> _empty_counts, degraded |-> FALSE]

NewRun(derived) ==
    /\ screens' = Append(screens, "QUEUED")
    /\ tasks' = Append(tasks, Step("queued", derived))

\* Mutant: without the partial unique index.
InsertUnchecked(c) ==
    /\ posts[c] = "insert"
    /\ PostTo(c, "idle")
    /\ IF Len(screens) = MaxScreens THEN UNCHANGED <<screens, tasks>>
       ELSE \E derived \in BOOLEAN : NewRun(derived)
    /\ UNCHANGED <<vendorVars, aged, kills>>

\* The partial unique index refuses a second active row: the same 409.
InsertRun(c) ==
    /\ posts[c] = "insert"
    /\ PostTo(c, "idle")
    /\ IF (\E i \in Runs : Active(i)) \/ Len(screens) = MaxScreens THEN UNCHANGED <<screens, tasks>>
       ELSE \E derived \in BOOLEAN : NewRun(derived)
    /\ UNCHANGED <<vendorVars, aged, kills>>

\* Ten minutes later; rows age in the order they were made.
RunAges ==
    /\ aged < Len(screens) /\ aged' = aged + 1
    /\ UNCHANGED <<vendorVars, screens, posts, tasks, kills>>

-----------------------------------------------------------------------------
(* run_screen *)

TaskAt(i, pc) == tasks[i].pc = pc
TaskTo(i, pc) == tasks' = [tasks EXCEPT ![i].pc = pc]
TaskDone(i, pc) == tasks' = [tasks EXCEPT ![i] = Step(pc, FALSE)]

\* No row, no run.  Saving RUNNING over a row that was reaped trips the unique
\* index when another run is active: the task raises and the row stays FAILED.
run_screen(i) ==
    /\ TaskAt(i, "queued")
    /\ IF screens[i] = "gone" \/ \E k \in Runs \ {i} : Active(k)
         THEN TaskDone(i, "over") /\ UNCHANGED screens
         ELSE TaskTo(i, "vendor") /\ Saved(i, "RUNNING")
    /\ UNCHANGED <<vendorVars, aged, posts, kills>>

\* The key is resolved again, then one screener call; a derived screen goes on with
\* the matches, as many as its limit lets through.
VendorStage(i, o, held) ==
    /\ TaskAt(i, "vendor")
    /\ IF ~ResolvedKey THEN TaskDone(i, "fail") /\ UNCHANGED vendorVars
       ELSE /\ VendorGet(o)
            /\ IF Answer(o, held) # "data" THEN TaskDone(i, "fail")
               ELSE IF ~tasks[i].derived THEN TaskTo(i, "finish")
               ELSE \E n \in 0..Limit :
                      tasks' = [tasks EXCEPT ![i].pc = "enrich", ![i].of = n]
    /\ UNCHANGED <<screens, aged, posts, kills>>

Left(i) == tasks[i].of - tasks[i].at
Counting(i, c, n, pc, bad) ==
    tasks' = [tasks EXCEPT ![i].counts[c] = @ + n, ![i].at = @ + 1, ![i].pc = pc,
                           ![i].degraded = @ \/ bad]

\* Mutant: the candidate that raised is forgotten, only the remainder counts.
EnrichForgets(i, o, held) ==
    LET answer == Answer(o, held)
    IN  /\ TaskAt(i, "enrich") /\ Left(i) > 0 /\ VendorGet(o)
        /\ \/ answer = "data" /\ \E c \in {"enriched", "insufficient_history"} :
                                   Counting(i, c, 1, "enrich", FALSE)
           \/ answer = "limited" /\ Counting(i, "skipped_rate_limited", Left(i) - 1, "finish", TRUE)
           \/ answer = "server"  /\ Counting(i, "skipped_unavailable", Left(i) - 1, "finish", TRUE)
           \/ answer = "client"  /\ Counting(i, "skipped_unavailable", 1, "enrich", TRUE)
        /\ UNCHANGED <<screens, aged, posts, kills>>

\* One candidate: a quota or an outage stops the loop and counts it with all that
\* are left, a bad ticker is skipped.  Bars too few or enough (they pass or not).
_enrich_candidates(i, o, held) ==
    LET answer == Answer(o, held)
    IN  /\ TaskAt(i, "enrich") /\ Left(i) > 0 /\ VendorGet(o)
        /\ \/ answer = "data" /\ \E c \in {"enriched", "insufficient_history"} :
                                   Counting(i, c, 1, "enrich", FALSE)
           \/ answer = "limited" /\ Counting(i, "skipped_rate_limited", Left(i), "finish", TRUE)
           \/ answer = "server"  /\ Counting(i, "skipped_unavailable", Left(i), "finish", TRUE)
           \/ answer = "client"  /\ Counting(i, "skipped_unavailable", 1, "enrich", TRUE)
        /\ UNCHANGED <<screens, aged, posts, kills>>

\* The vendor sent a candidate without a symbol; or there is none left.
Nameless(i) ==
    /\ TaskAt(i, "enrich") /\ Left(i) > 0
    /\ Counting(i, "skipped_unavailable", 1, "enrich", TRUE)
    /\ UNCHANGED <<vendorVars, screens, aged, posts, kills>>

Enriched(i) ==
    /\ TaskAt(i, "enrich") /\ Left(i) = 0
    /\ TaskTo(i, "finish")
    /\ UNCHANGED <<vendorVars, screens, aged, posts, kills>>

\* Soft time limit, or anything else that raises.
ScreenRaises(i) ==
    /\ tasks[i].pc \in {"vendor", "enrich"} /\ kills < MaxKills
    /\ kills' = kills + 1 /\ TaskDone(i, "fail")
    /\ UNCHANGED <<vendorVars, screens, aged, posts>>

\* The worker is killed: it was acknowledged, nobody runs it again.
ScreenDies(i) ==
    /\ tasks[i].pc \notin {"over"} /\ kills < MaxKills
    /\ kills' = kills + 1 /\ TaskDone(i, "over")
    /\ UNCHANGED <<vendorVars, screens, aged, posts>>

\* run.save() updates every column, or inserts the row again if it was pruned.
_finish(i) ==
    /\ TaskAt(i, "finish")
    /\ Saved(i, "DONE")
    /\ TaskDone(i, "prune")
    /\ UNCHANGED <<vendorVars, aged, posts, kills>>

_fail(i) ==
    /\ TaskAt(i, "fail")
    /\ Saved(i, "FAILED")
    /\ TaskDone(i, "prune")
    /\ UNCHANGED <<vendorVars, aged, posts, kills>>

Newer(i) == {k \in Runs : k > i /\ screens[k] # "gone"}
_prune_history(i) ==
    /\ TaskAt(i, "prune")
    /\ screens' = [k \in Runs |-> IF Cardinality(Newer(k)) >= HistoryKeep
                                  THEN "gone" ELSE screens[k]]
    /\ TaskDone(i, "over")
    /\ UNCHANGED <<vendorVars, aged, posts, kills>>

-----------------------------------------------------------------------------
PostStep == \E c \in Callers :
    _reap_stale_runs(c) \/ LookForActive(c) \/ InsertRun(c)

TaskStep == \E i \in Runs :
    \/ run_screen(i) \/ Nameless(i) \/ Enriched(i) \/ _finish(i) \/ _fail(i) \/ _prune_history(i)
    \/ ScreenRaises(i) \/ ScreenDies(i)
    \/ \E o \in Possible, held \in BOOLEAN :
         _enrich_candidates(i, o, held) \/ VendorStage(i, o, held)

ScreensNext ==
    \/ PostStep \/ RunAges \/ TaskStep
    \/ VendorStep /\ UNCHANGED screenVars

ScreensSpec == ScreensInit /\ [][ScreensNext]_<<vendorVars, screenVars>>

ScreensTypeOK ==
    /\ VendorTypeOK
    /\ \A i \in Runs : screens[i] \in ScreenRun
    /\ aged \in 0..Len(screens) /\ Len(tasks) = Len(screens)

\* One run in flight per (user, strategy), however POSTs, the reaper and a late
\* worker that picks up a reaped run interleave.
OneActiveScreen == Cardinality({i \in Runs : Active(i)}) <= 1

\* A derived screen that finishes accounts for every candidate exactly once: "no
\* silent truncation", whatever the vendor, the breaker and the cache did; and it
\* is marked degraded exactly when one was left out.
CountsAddUp ==
    \A i \in Runs : TaskAt(i, "finish") /\ tasks[i].derived =>
        LET c == tasks[i].counts
        IN  /\ Total(c) = tasks[i].of
            /\ tasks[i].degraded <=> c.skipped_rate_limited + c.skipped_unavailable > 0

\* A run whose message was lost or whose worker died does not hold the slot for
\* ever: as long as POSTs keep coming it is reaped, and the slot is free again.
ScreenSlotFreed == []<>(~ResolvedKey \/ \A i \in Runs : ~Active(i))
=============================================================================
