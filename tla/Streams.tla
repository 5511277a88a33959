------------------------------ MODULE Streams -------------------------------
(* apps/brokers/streams.py: the supervisor that keeps a stream thread for each *)
(* active account, and the heartbeats by which the accounts show as connected. *)
(*                                                                             *)
(* Of the accounts the supervisor sees load_active_accounts only: a connect or *)
(* a test that works adds one to it, a removal or a test that fails takes one  *)
(* away.  Threads, supervisor and requests interleave; a heartbeat is a value  *)
(* in the cache that anyone reads and sets, each on its own.                   *)
EXTENDS Naturals, SequencesExt

CONSTANTS
    MaxActive,  \* bound: accounts
    MaxTurns,   \* bound: changes of the active accounts, restarts included
    MaxMute     \* bound: heartbeat writes that fail

ASSUME StreamsAssumption == {MaxActive, MaxTurns, MaxMute} \subseteq Nat

VARIABLES
    active,   \* load_active_accounts: paper accounts at Alpaca whose status is not ERROR
    threads,  \* the stream threads that live or are registered
    hb,       \* broker:hb:<id>; STALE: a CONNECTED one older than its TTL
    sup,      \* the round of touch_heartbeat: accounts left, and the beat it has read
    late,     \* accounts whose beat was written back over one written in between
    turns,
    mute      \* heartbeat writes that failed

streamVars == <<active, threads, hb, sup, late, turns, mute>>
Streamed == 1..MaxActive
Resting == [left |-> {}, id |-> 0, beat |-> "NONE", over |-> FALSE]

StreamsInit ==
    /\ active = {} /\ threads = <<>> /\ hb = [n \in Streamed |-> "NONE"]
    /\ sup = Resting /\ late = {} /\ turns = 0 /\ mute = 0

Turning == turns < MaxTurns /\ turns' = turns + 1

\* The account is connected, removed, or tested: with success or not.
AccountChanges(n) ==
    /\ active' = IF n \in active THEN active \ {n} ELSE active \union {n}
    /\ Turning /\ UNCHANGED <<threads, hb, sup, late, mute>>

-----------------------------------------------------------------------------
Alive(t) == t.pc # "ended"
FreshThread(n) == [id |-> n, pc |-> "connecting", registered |-> TRUE, stop |-> FALSE]

\* A thread that has ended is forgotten once the supervisor has let go of it; the
\* order of the others has no meaning.
KeepThreads(ts) ==
    LET kept == SetToSeq({k \in DOMAIN ts : ts[k].registered \/ Alive(ts[k])})
    IN  [j \in DOMAIN kept |-> ts[kept[j]]]

\* The supervisor lets go of removed accounts and of dead threads, then starts
\* what is missing.
ReleaseSilently(t, stale) ==  \* mutant: the thread is not told to stop
    IF t.registered /\ stale THEN [t EXCEPT !.registered = FALSE] ELSE t
Release(t, stale) ==
    IF t.registered /\ stale THEN [t EXCEPT !.registered = FALSE, !.stop = TRUE] ELSE t
Stale(t) == t.id \notin active \/ ~Alive(t)
LetGo(t) == Release(t, Stale(t))

_reconcile_threads ==
    LET kept == [k \in DOMAIN threads |-> LetGo(threads[k])]
        has  == {kept[k].id : k \in {j \in DOMAIN kept : kept[j].registered}}
        new  == SetToSeq(active \ has)
    IN  /\ sup.left = {} /\ sup.id = 0
        /\ threads' = KeepThreads(kept) \o [k \in DOMAIN new |-> FreshThread(new[k])]
        /\ sup' = [Resting EXCEPT !.left = active]
        /\ UNCHANGED <<active, hb, late, turns, mute>>

\* touch_heartbeat: the beat of an account whose thread lives is read, if there is one...
TouchReads(n) ==
    /\ sup.id = 0 /\ n \in sup.left
    /\ LET lives == \E k \in DOMAIN threads : threads[k].id = n /\ threads[k].registered /\ Alive(threads[k])
       IN  sup' = IF lives /\ hb[n] # "NONE"
                  THEN [left |-> sup.left \ {n}, id |-> n, beat |-> hb[n], over |-> FALSE]
                  ELSE [sup EXCEPT !.left = @ \ {n}]
    /\ UNCHANGED <<active, threads, hb, late, turns, mute>>

\* ...and written back with a new time, whatever was written in between.
TouchWrites ==
    /\ sup.id # 0
    /\ hb' = [hb EXCEPT ![sup.id] = IF sup.beat = "STALE" THEN "CONNECTED" ELSE sup.beat]
    /\ late' = IF sup.over THEN late \union {sup.id} ELSE late
    /\ sup' = [Resting EXCEPT !.left = sup.left]
    /\ UNCHANGED <<active, threads, turns, mute>>

run_forever == _reconcile_threads \/ TouchWrites \/ \E n \in Streamed : TouchReads(n)

SupervisorRestarts ==
    /\ threads # <<>> /\ threads' = <<>> /\ sup' = Resting
    /\ Turning /\ UNCHANGED <<active, hb, late, mute>>

\* Time passes between two refreshes.
HeartbeatAges(n) ==
    /\ hb[n] # "NONE" /\ hb' = [hb EXCEPT ![n] = IF @ = "CONNECTED" THEN "STALE" ELSE "NONE"]
    /\ UNCHANGED <<active, threads, sup, late, turns, mute>>

ThreadGoes(k, pc) ==
    /\ threads' = KeepThreads([threads EXCEPT ![k].pc = pc])
    /\ UNCHANGED <<active, turns>>
Beats(n, state) ==
    /\ hb' = [hb EXCEPT ![n] = state] /\ late' = late \ {n}
    /\ sup' = [sup EXCEPT !.over = @ \/ sup.id = n] /\ UNCHANGED mute
NoBeat == UNCHANGED <<hb, sup, late>>

\* Catch-up and connection, or a failure of either.
ThreadConnects(k) ==
    threads[k].pc = "connecting" /\ ThreadGoes(k, "up") /\ Beats(threads[k].id, "CONNECTED")

\* on_event
ThreadHears(k) == threads[k].pc = "up" /\ ThreadGoes(k, "up") /\ Beats(threads[k].id, "CONNECTED")

\* The run ended, cleanly or not; or the write of the heartbeat raises, and with
\* it ends the thread.
ThreadDrops(k) ==
    /\ threads[k].pc \in {"connecting", "up"}
    /\ \/ /\ ThreadGoes(k, IF threads[k].stop THEN "ended" ELSE "down")
          /\ Beats(threads[k].id, "DEGRADED")
       \/ mute < MaxMute /\ mute' = mute + 1 /\ ThreadGoes(k, "ended") /\ NoBeat

\* The delay is over, or cut short by the stop.
ThreadRetries(k) ==
    /\ threads[k].pc = "down"
    /\ ThreadGoes(k, IF threads[k].stop THEN "ended" ELSE "connecting")
    /\ NoBeat /\ UNCHANGED mute

_run_account(k) == ThreadConnects(k) \/ ThreadHears(k) \/ ThreadDrops(k) \/ ThreadRetries(k)

\* What the account list shows.
get_stream_status(n) ==
    IF hb[n] = "NONE" THEN "DOWN" ELSE IF hb[n] = "STALE" THEN "DEGRADED" ELSE hb[n]

-----------------------------------------------------------------------------
StreamsNext ==
    \/ \E n \in Streamed : AccountChanges(n) \/ HeartbeatAges(n)
    \/ run_forever
    \/ SupervisorRestarts
    \/ \E k \in DOMAIN threads : _run_account(k)

-----------------------------------------------------------------------------
\* An account has one stream: a thread that was replaced, or whose account came
\* and went, has been told to stop, so it ends at its next disconnect.
OneStreamPerAccount ==
    \A j, k \in DOMAIN threads :
        (threads[j].id = threads[k].id /\ ~threads[j].stop /\ ~threads[k].stop
           /\ Alive(threads[j]) /\ Alive(threads[k])) => j = k

\* An account all of whose threads wait to reconnect is not shown as connected,
\* whichever of them wrote the heartbeat last, as long as heartbeats can be
\* written - but for touch_heartbeat: a beat the supervisor read before a thread
\* wrote, and wrote back after, stands until a thread of the account writes again.
DownIsShown ==
    \A n \in Streamed \ late :
        LET of == {k \in DOMAIN threads : threads[k].id = n}
        IN  (mute = 0 /\ of # {} /\ \A k \in of : threads[k].pc = "down")
              => get_stream_status(n) # "CONNECTED"

\* Once accounts stop changing and heartbeats can be written, every active
\* account has a live registered thread and no other account has one: what was
\* connected, tested back to health or lost to a dead thread is picked up.
FollowsAccounts ==
    <>[](active
           = {threads[k].id : k \in {j \in DOMAIN threads : threads[j].registered /\ Alive(threads[j])}})

=============================================================================
