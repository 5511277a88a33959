------------------------------ MODULE LiveGate ------------------------------
(* apps/admin_portal/flags and apps/brokers/live_gate: a mutable feature flag, *)
(* its row, its value in Redis and in the memory of each process, and the gate *)
(* of live trading that rests on one.                                          *)
EXTENDS Naturals

CONSTANTS
    Procs,      \* web and worker processes
    MaxFlips,   \* bound: flips by the operator
    MaxFails    \* bound: calls to Redis or the database that fail

ASSUME LiveGateAssumption == {MaxFlips, MaxFails} \subseteq Nat

VARIABLES
    env,      \* the flag in the settings
    row,      \* the admin_feature_flag row: an override, or "none"
    redis,    \* flag:<name>: a cached override, or "absent"
    memory,   \* [Procs -> _local_cache]
    look,     \* [Procs -> the look-up or the flip under way]
    flips, fails

gateVars == <<env, row, redis, memory, look, flips, fails>>

Override == {"on", "off", "none"}
Cached == Override \union {"absent"}
NoLook == [pc |-> "idle", saw |-> "none"]

GateInit ==
    /\ env \in BOOLEAN /\ row = "none"
    /\ redis = "absent" /\ memory = [p \in Procs |-> "absent"]
    /\ look = [p \in Procs |-> NoLook]
    /\ flips = 0 /\ fails = 0

\* What a look-up in p that starts now and meets no failure comes to.
_resolve_override(p) ==
    CASE memory[p] # "absent" -> memory[p]
      [] memory[p] = "absent" /\ redis # "absent" -> redis
      [] OTHER -> row

EffectiveOf(o) == IF o = "none" THEN env ELSE o = "on"
is_enabled(p) == EffectiveOf(_resolve_override(p))

\* The settings arm it, the flag may only take permission away.
live_trading_permitted(p) == env /\ is_enabled(p)

-----------------------------------------------------------------------------
LookGoes(p, pc, saw) == look' = [look EXCEPT ![p] = [pc |-> pc, saw |-> saw]]
Remember(p, v) == memory' = [memory EXCEPT ![p] = v]
MayFail == fails < MaxFails /\ fails' = fails + 1

\* Memory had nothing: Redis answers, or has nothing, or fails.
AskRedis(p) ==
    /\ look[p].pc = "idle" /\ memory[p] = "absent"
    /\ \/ redis # "absent" /\ Remember(p, redis) /\ UNCHANGED <<look, fails>>
       \/ redis = "absent" /\ LookGoes(p, "load", "none") /\ UNCHANGED <<memory, fails>>
       \/ redis # "absent" /\ MayFail /\ LookGoes(p, "load", "none") /\ UNCHANGED memory
    /\ UNCHANGED <<env, row, redis, flips>>

\* The row; a missing table is not remembered, another failure is, as no override.
LoadRow(p) ==
    /\ look[p].pc = "load"
    /\ \/ LookGoes(p, "keep", row) /\ UNCHANGED <<memory, fails>>
       \/ /\ MayFail /\ LookGoes(p, "idle", "none")
          /\ \/ UNCHANGED memory
             \/ Remember(p, "none")
    /\ UNCHANGED <<env, row, redis, flips>>

\* Redis is written on a best-effort basis.
SetRedis(v) == \/ redis' = v /\ UNCHANGED fails
               \/ MayFail /\ UNCHANGED redis

KeepRow(p) ==
    /\ look[p].pc = "keep"
    /\ SetRedis(look[p].saw)
    /\ Remember(p, look[p].saw)
    /\ LookGoes(p, "idle", "none")
    /\ UNCHANGED <<env, row, flips>>

\* set_flag: the row, then Redis and the process's own memory.  The value before,
\* for the audit, is a look-up like any other.
FlipRow(p, v) ==
    /\ look[p].pc = "idle" /\ flips < MaxFlips
    /\ row' = v /\ flips' = flips + 1
    /\ LookGoes(p, "share", v)
    /\ UNCHANGED <<env, redis, memory, fails>>

ShareFlip(p) ==
    /\ look[p].pc = "share"
    /\ SetRedis(look[p].saw)
    /\ Remember(p, "absent")
    /\ LookGoes(p, "idle", "none")
    /\ UNCHANGED <<env, row, flips>>

\* LOCAL_CACHE_TTL and REDIS_TTL run out.
NeverExpires(p) == FALSE /\ UNCHANGED gateVars  \* mutant: memory is kept for good
MemoryExpires(p) ==
    /\ memory[p] # "absent" /\ Remember(p, "absent")
    /\ UNCHANGED <<env, row, redis, look, flips, fails>>
RedisExpires ==
    /\ redis # "absent" /\ redis' = "absent"
    /\ UNCHANGED <<env, row, memory, look, flips, fails>>

GateStep(p) == LoadRow(p) \/ KeepRow(p) \/ ShareFlip(p)
GateNext ==
    \/ \E p \in Procs : \/ AskRedis(p) \/ GateStep(p) \/ MemoryExpires(p)
                        \/ \E v \in {"on", "off"} : FlipRow(p, v)
    \/ RedisExpires

-----------------------------------------------------------------------------
GateTypeOK ==
    /\ env \in BOOLEAN /\ row \in Override /\ redis \in Cached
    /\ memory \in [Procs -> Cached]
    /\ look \in [Procs -> [pc : {"idle", "load", "keep", "share"}, saw : Override]]
    /\ flips \in 0..MaxFlips /\ fails \in 0..MaxFails

\* Once the operator stops flipping and the stores answer again, every process
\* comes to answer what the row says, and keeps to it: no copy of an older value
\* outlives its time, however look-ups and flips overlapped.
\* Live trading then goes on exactly where it is armed and the row does not revoke it.
FlagConverges ==
    <>[](\A p \in Procs : /\ _resolve_override(p) = row
                         /\ live_trading_permitted(p) <=> env /\ row # "off")

=============================================================================
