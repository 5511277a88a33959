------------------------- MODULE KillSwitchProofs -------------------------
(***************************************************************************)
(* The safety of KillSwitch for any number of requests, workers, watchers, *)
(* halts, trading days and mishaps.                                        *)
(***************************************************************************)
EXTENDS KillSwitch, SequenceTheorems, TLAPS

\* A request that is about to release has picked a row; only trigger_halt has
\* a level in hand, and no request brings it L2.
CallerRight ==
  /\ \A c \in Callers : (pc[c] = "release" => row[c] # 0) /\ arg[c] # "L2"
  /\ \A p \in Procs : pc[p] \notin {"lookup", "create", "flatten"} => arg[p] = "L1"

\* A worker remembers active rows only, and none that a query of its gate has
\* already looked for.
GateRight ==
  \A w \in Workers : \A i \in standing[w] :
    /\ halts[i].active
    /\ pc[w] \in {"user", "strategy", "passed"} => halts[i].level # "L3"
    /\ pc[w] \in {"strategy", "passed"} => halts[i].level \notin UserLevels
    /\ pc[w] # "passed"

\* After a flatten that mopped up, the user is halted and nobody is past the
\* gate until the last halt of the user is released.
FlatRight == mopped => ~exposed /\ UserHalted /\ PastUserGate = {}

\* Past the query of the user's halts or the sweep, or with an L2 in hand, what
\* look-up finds is a breaker of this day.
SawNoOldBreaker(p) ==
  pc[p] \in {"strategy", "passed", "market", "check", "read", "count"} \/ arg[p] = "L2"
DayRight ==
  /\ TripLastsTheDay
  /\ \A p \in Procs : SawNoOldBreaker(p) => \A i \in Active({"L2"}) : halts[i].day = today

IInv == TypeOK /\ CallerRight /\ GateRight /\ FlatRight /\ DayRight

-----------------------------------------------------------------------------
(* What the two changes of the table do.                                   *)

\* A halt is added at the end, the others stay.
LEMMA AppendEffect ==
  ASSUME halts \in Seq(Row), NEW r \in Row, halts' = Append(halts, r)
  PROVE  /\ halts' \in Seq(Row)
         /\ DOMAIN halts' = DOMAIN halts \cup {Len(halts) + 1}
         /\ Len(halts) + 1 \notin DOMAIN halts
         /\ halts'[Len(halts) + 1] = r
         /\ \A i \in DOMAIN halts : halts'[i] = halts[i]
  OBVIOUS

\* A release takes one row out of force and leaves its level and its day.
LEMMA ReleaseEffect ==
  ASSUME halts \in Seq(Row), NEW i \in DOMAIN halts, halts' = [halts EXCEPT ![i].active = FALSE]
  PROVE  /\ halts' \in Seq(Row)
         /\ DOMAIN halts' = DOMAIN halts
         /\ ~halts'[i].active
         /\ halts'[i].level = halts[i].level /\ halts'[i].day = halts[i].day
         /\ \A j \in DOMAIN halts \ {i} : halts'[j] = halts[j]
  <1> DEFINE r == [halts[i] EXCEPT !.active = FALSE]
  <1>1. halts[i] \in Row
    OBVIOUS
  <1>2. r \in Row /\ ~r.active /\ r.level = halts[i].level /\ r.day = halts[i].day
    BY <1>1 DEF Row
  <1>3. halts' = [halts EXCEPT ![i] = r]
    OBVIOUS
  <1> HIDE DEF r
  <1>4. halts \in Seq(Row) /\ i \in 1..Len(halts)
    OBVIOUS
  <1>5. [halts EXCEPT ![i] = r] \in Seq(Row)
    BY ONLY <1>2, <1>4, ExceptSeq
  <1>6. halts' \in Seq(Row)
    BY ONLY <1>3, <1>5
  <1>7. DOMAIN halts' = DOMAIN halts
    BY ONLY <1>3
  <1>8. halts'[i] = r
    BY <1>3
  <1>9. \A j \in DOMAIN halts \ {i} : halts'[j] = halts[j]
    BY <1>3
  <1> QED
    BY <1>2, <1>6, <1>7, <1>8, <1>9

\* The initial state.
LEMMA InitIInv == Init => IInv
  <1> SUFFICES ASSUME Init PROVE IInv
    OBVIOUS
  <1>1. TypeOK
    <2>1. halts \in Seq(Row) /\ today \in 1..MaxDay /\ mishaps \in 0..MaxMishaps /\ count \in 0..2
      BY ConstantsAssumption DEF Init
    <2>2. /\ open \in BOOLEAN /\ loss \in BOOLEAN /\ exposed \in BOOLEAN /\ lock \in BOOLEAN
          /\ tripped \in BOOLEAN /\ mopped \in BOOLEAN
      BY DEF Init
    <2>3. /\ pc \in [Procs -> {"idle"}] /\ arg \in [Procs -> Levels]
          /\ row \in [Callers -> {0} \cup DOMAIN halts]
      BY DEF Init, Levels
    <2>4. /\ reading \in [Watchers -> {"none", "ok", "breach"}]
          /\ standing \in [Workers -> SUBSET DOMAIN halts] /\ second \in [Watchers -> BOOLEAN]
      BY DEF Init
    <2> QED
      BY <2>1, <2>2, <2>3, <2>4 DEF TypeOK
  <1>2. Active(Levels) = {} /\ Active({"L2"}) = {}
    BY DEF Init, Active
  <1> QED
    BY <1>1, <1>2 DEF Init, IInv, CallerRight, GateRight, FlatRight, DayRight, SawNoOldBreaker,
                      TripLastsTheDay, Procs

-----------------------------------------------------------------------------
(* Steps that leave the table alone.                                       *)

\* A request begins: it engages a level or picks a row.
LEMMA RequestIInv ==
  ASSUME IInv, NEW c \in Callers,
         (\E level \in CallerLevels : Engage(c, level)) \/ (\E i \in DOMAIN halts : PickRelease(c, i))
  PROVE  IInv'
  <1> USE DEF world, ghosts
  <1>0. /\ TypeOK /\ CallerRight /\ GateRight /\ FlatRight /\ DayRight
        /\ c \in Procs /\ c \notin Workers
    BY ConstantsAssumption DEF IInv, Procs
  <1>1. ASSUME NEW level \in CallerLevels, Engage(c, level)
        PROVE  TypeOK' /\ CallerRight'
    <2>1. level \in Levels /\ level # "L2"
      BY ConstantsAssumption DEF Levels
    <2>2. TypeOK'
      BY <1>0, <1>1, <2>1 DEF TypeOK, Engage, Goto
    <2>3. CallerRight'
      BY <1>0, <1>1, <2>1 DEF TypeOK, CallerRight, Engage, Goto
    <2> QED
      BY <2>2, <2>3
  <1>2. ASSUME NEW i \in DOMAIN halts, PickRelease(c, i)
        PROVE  TypeOK' /\ CallerRight'
    <2>1. i # 0
      BY <1>0 DEF TypeOK
    <2>2. TypeOK'
      BY <1>0, <1>2 DEF TypeOK, PickRelease, Goto
    <2>3. CallerRight'
      BY <1>0, <1>2, <2>1 DEF TypeOK, CallerRight, PickRelease, Goto
    <2> QED
      BY <2>2, <2>3
  <1>3. /\ UNCHANGED <<halts, today, exposed, standing, tripped, mopped>>
        /\ \A p \in Procs \ {c} : pc'[p] = pc[p] /\ arg'[p] = arg[p]
        /\ pc'[c] \in {"lookup", "release"} /\ arg'[c] # "L2"
    BY <1>0, ConstantsAssumption DEF Engage, PickRelease, Goto, TypeOK, CallerRight
  <1>4. GateRight'
    BY <1>0, <1>3 DEF GateRight, Procs
  <1>5. FlatRight'
    BY <1>0, <1>3 DEF FlatRight, UserHalted, Active, PastUserGate, Procs
  <1>6. DayRight'
    BY <1>0, <1>3 DEF DayRight, TripLastsTheDay, SawNoOldBreaker, Active
  <1> QED
    BY <1>1, <1>2, <1>4, <1>5, <1>6 DEF IInv

-----------------------------------------------------------------------------
(* trigger_halt, by whoever called it.                                     *)

\* Create adds a halt of this day; the other steps leave the table alone.
LEMMA TriggerIInv ==
  ASSUME IInv, NEW p \in Procs, TriggerStep(p)
  PROVE  IInv'
  <1> USE DEF world, ghosts
  <1>0. TypeOK /\ CallerRight /\ GateRight /\ FlatRight /\ DayRight
    BY DEF IInv
  <1>r. /\ arg[p] \in Levels /\ "L1" \in Levels
        /\ arg[p] = "L2" => \A i \in Active({"L2"}) : halts[i].day = today
    BY <1>0 DEF TypeOK, Levels, DayRight, SawNoOldBreaker
  <1>1. CASE Create(p)
    <2> DEFINE new == [level |-> arg[p], day |-> today, active |-> TRUE]
    <2>1. new \in Row /\ new.active /\ new.level = arg[p] /\ new.day = today
      BY <1>0, <1>r DEF TypeOK, Row
    <2>2. halts' = Append(halts, new) /\ halts \in Seq(Row)
      BY <1>0, <1>1 DEF Create, TypeOK
    <2> HIDE DEF new
    <2>3. /\ halts' \in Seq(Row)
          /\ DOMAIN halts' = DOMAIN halts \cup {Len(halts) + 1}
          /\ Len(halts) + 1 \notin DOMAIN halts
          /\ halts'[Len(halts) + 1] = new
          /\ \A i \in DOMAIN halts : halts'[i] = halts[i]
      BY ONLY <2>1, <2>2, AppendEffect
    <2>4. /\ pc' = [pc EXCEPT ![p] = pc'[p]] /\ pc'[p] \in {"flatten", "done", "idle"}
          /\ arg' = [arg EXCEPT ![p] = arg'[p]] /\ arg'[p] \in {arg[p], "L1"}
          /\ pc'[p] # "flatten" => arg'[p] = "L1"
          /\ UNCHANGED <<today, open, loss, exposed, row, reading, count, lock, mishaps,
                         standing, second, mopped>>
          /\ tripped' = (tripped \/ arg[p] = "L2")
      BY <1>0, <1>1 DEF Create, Goto, Return, Trips, TypeOK
    <2>5. TypeOK'
      <3>1. pc' \in [Procs -> {"idle", "lookup", "create", "flatten", "release", "platform", "user",
                       "strategy", "passed", "sweep", "market", "check", "read", "count", "done"}]
        BY <1>0, <2>4 DEF TypeOK
      <3>2. arg' \in [Procs -> Levels] /\ tripped' \in BOOLEAN
        BY <1>0, <1>r, <2>4 DEF TypeOK
      <3>3. row' \in [Callers -> {0} \cup DOMAIN halts']
            /\ standing' \in [Workers -> SUBSET DOMAIN halts']
        BY <1>0, <2>3, <2>4 DEF TypeOK
      <3> QED
        BY <1>0, <2>3, <2>4, <3>1, <3>2, <3>3 DEF TypeOK
    <2>6. CallerRight'
      BY <1>0, <2>4 DEF CallerRight, TypeOK, Procs
    <2>7. GateRight'
      BY <1>0, <2>3, <2>4 DEF GateRight, TypeOK, Procs
    <2>8. FlatRight'
      <3>1. UserHalted => UserHalted'
        BY <2>3 DEF UserHalted, Active
      <3>2. PastUserGate' \subseteq PastUserGate
        BY <1>0, <2>4 DEF PastUserGate, TypeOK, Procs
      <3> QED
        BY <1>0, <2>4, <3>1, <3>2 DEF FlatRight
    <2>9. DayRight'
      <3>1. TripLastsTheDay'
        <4>1. CASE arg[p] = "L2"
          <5>1. Len(halts) + 1 \in Active({"L2"})'
            BY <2>1, <2>3, <4>1 DEF Active
          <5> QED
            BY <2>1, <2>3, <2>4, <5>1 DEF TripLastsTheDay
        <4>2. CASE arg[p] # "L2" /\ tripped
          <5>1. PICK i \in Active({"L2"}) : halts[i].day = today
            BY <1>0, <4>2 DEF DayRight, TripLastsTheDay
          <5>2. i \in Active({"L2"})' /\ halts'[i].day = today'
            BY <2>3, <2>4, <5>1 DEF Active
          <5> QED
            BY <5>2 DEF TripLastsTheDay
        <4>3. CASE arg[p] # "L2" /\ ~tripped
          BY <2>4, <4>3 DEF TripLastsTheDay
        <4> QED
          BY <4>1, <4>2, <4>3
      <3>2. \A q \in Procs : SawNoOldBreaker(q)' => SawNoOldBreaker(q)
        BY <1>0, <2>4 DEF SawNoOldBreaker, TypeOK
      <3>3. \A q \in Procs : SawNoOldBreaker(q)' => \A i \in Active({"L2"})' : halts'[i].day = today'
        BY <1>0, <2>1, <2>3, <2>4, <3>2 DEF DayRight, Active
      <3> QED
        BY <3>1, <3>3 DEF DayRight
    <2> QED
      BY <2>5, <2>6, <2>7, <2>8, <2>9 DEF IInv
  <1>2. CASE LookUp(p) \/ CreateFails(p) \/ Flatten(p) \/ FlattenFails(p)
    <2>1. /\ pc[p] \in {"lookup", "create", "flatten"}
          /\ pc' = [pc EXCEPT ![p] = pc'[p]] /\ pc'[p] \in {"create", "done", "idle"}
          /\ arg' = [arg EXCEPT ![p] = arg'[p]] /\ arg'[p] \in {arg[p], "L1"}
          /\ pc'[p] # "create" => arg'[p] = "L1"
          /\ UNCHANGED <<halts, today, open, loss, row, reading, count, lock, standing, second>>
          /\ exposed' \in {exposed, FALSE} /\ mishaps' \in 0..MaxMishaps
      <3> USE <1>0, ConstantsAssumption DEF TypeOK, Goto, Return, Mishap
      <3>1. CASE LookUp(p)
        BY <3>1 DEF LookUp
      <3>2. CASE CreateFails(p)
        BY <3>2 DEF CreateFails
      <3>3. CASE Flatten(p)
        BY <3>3 DEF Flatten
      <3>4. CASE FlattenFails(p)
        BY <3>4 DEF FlattenFails
      <3> QED
        BY <1>2, <3>1, <3>2, <3>3, <3>4
    <2>2. tripped' = tripped \/ (tripped' = TRUE /\ arg[p] = "L2" /\ Active({"L2"}) # {})
      BY <1>0, <1>2 DEF LookUp, CreateFails, Flatten, FlattenFails, Trips, TypeOK
    <2>3. mopped' = mopped \/ (exposed' = FALSE /\ mopped' = (UserHalted /\ PastUserGate = {}))
      BY <1>2 DEF LookUp, CreateFails, Flatten, FlattenFails
    <2>4. UserHalted' = UserHalted /\ \A levels : Active(levels)' = Active(levels)
      BY <2>1 DEF UserHalted, Active
    <2>5. PastUserGate' = PastUserGate
      BY <1>0, <2>1 DEF PastUserGate, TypeOK, Procs
    <2>6. TypeOK'
      <3>1. mopped' \in BOOLEAN
        BY <1>0, <2>3 DEF TypeOK
      <3>2. tripped' \in BOOLEAN /\ exposed' \in BOOLEAN
        BY <1>0, <2>1, <2>2 DEF TypeOK
      <3>3. pc' \in [Procs -> {"idle", "lookup", "create", "flatten", "release", "platform", "user",
                       "strategy", "passed", "sweep", "market", "check", "read", "count", "done"}]
            /\ arg' \in [Procs -> Levels]
        BY <1>0, <1>r, <2>1 DEF TypeOK
      <3> QED
        BY <1>0, <2>1, <3>1, <3>2, <3>3 DEF TypeOK
    <2>7. CallerRight'
      BY <1>0, <2>1 DEF CallerRight, TypeOK, Procs
    <2>8. GateRight'
      BY <1>0, <2>1 DEF GateRight, TypeOK, Procs
    <2>9. FlatRight'
      BY <1>0, <2>1, <2>3, <2>4, <2>5 DEF FlatRight, TypeOK
    <2>10. DayRight'
      <3>1. TripLastsTheDay'
        BY <1>0, <1>r, <2>1, <2>2, <2>4 DEF DayRight, TripLastsTheDay, TypeOK
      <3>2. \A q \in Procs : SawNoOldBreaker(q)' => SawNoOldBreaker(q)
        BY <1>0, <2>1 DEF SawNoOldBreaker, TypeOK
      <3> QED
        BY <1>0, <2>1, <2>4, <3>1, <3>2 DEF DayRight
    <2> QED
      BY <2>6, <2>7, <2>8, <2>9, <2>10 DEF IInv
  <1> QED
    BY <1>1, <1>2 DEF TriggerStep

-----------------------------------------------------------------------------
(* A halt is released, by a request or by the sweep.                       *)

\* No breaker of the day goes; what a worker remembers, and a mopped-up user,
\* go with the row.
LEMMA ReleaseRowKeeps ==
  ASSUME IInv, NEW i \in DOMAIN halts, ReleaseRow(i), UNCHANGED <<today, exposed, tripped, arg>>,
         \A p \in Procs : pc'[p] = pc[p] \/ (pc'[p] = "idle" /\ arg[p] # "L2" /\ p \notin Workers)
  PROVE  /\ halts' \in Seq(Row) /\ DOMAIN halts' = DOMAIN halts
         /\ standing' \in [Workers -> SUBSET DOMAIN halts] /\ mopped' \in BOOLEAN
         /\ GateRight' /\ FlatRight' /\ DayRight'
  <1>0. TypeOK /\ CallerRight /\ GateRight /\ FlatRight /\ DayRight
    BY DEF IInv
  <1>a. \A q \in Procs : SawNoOldBreaker(q)' => SawNoOldBreaker(q)
    BY DEF SawNoOldBreaker
  <1>b. PastUserGate' = PastUserGate
    BY DEF PastUserGate, Procs
  <1>1. CASE ~MayRelease(i)
    <2>1. UNCHANGED <<halts, standing, mopped>>
      BY <1>1 DEF ReleaseRow
    <2>2. GateRight'
      BY <1>0, <2>1 DEF GateRight, Procs
    <2>3. FlatRight'
      BY <1>0, <1>b, <2>1 DEF FlatRight, UserHalted, Active
    <2>4. DayRight'
      BY <1>0, <1>a, <2>1 DEF DayRight, TripLastsTheDay, Active
    <2> QED
      BY <1>0, <2>1, <2>2, <2>3, <2>4 DEF TypeOK
  <1>2. CASE MayRelease(i)
    <2>1. /\ halts' = [halts EXCEPT ![i].active = FALSE]
          /\ standing' = [w \in Workers |-> standing[w] \ {i}]
          /\ mopped' = (mopped /\ Active(UserLevels) \ {i} # {})
      BY <1>2 DEF ReleaseRow
    <2>2. /\ halts' \in Seq(Row)
          /\ DOMAIN halts' = DOMAIN halts
          /\ ~halts'[i].active
          /\ halts'[i].level = halts[i].level /\ halts'[i].day = halts[i].day
          /\ \A j \in DOMAIN halts \ {i} : halts'[j] = halts[j]
      BY <1>0, <2>1, ReleaseEffect DEF TypeOK
    <2>3. Active(UserLevels)' = Active(UserLevels) \ {i} /\ Active({"L2"})' = Active({"L2"}) \ {i}
      BY ONLY <2>2 DEF Active
    <2>4. GateRight'
      BY <1>0, <2>1, <2>2 DEF GateRight, TypeOK, Procs
    <2>5. FlatRight'
      BY <1>0, <1>b, <2>1, <2>3 DEF FlatRight, UserHalted
    <2>6. TripLastsTheDay'
      <3>1. CASE ~tripped
        BY <3>1 DEF TripLastsTheDay
      <3>2. CASE tripped
        <4>1. PICK j \in Active({"L2"}) : halts[j].day = today
          BY <1>0, <3>2 DEF DayRight, TripLastsTheDay
        <4>2. j # i
          BY <1>2, <4>1 DEF MayRelease, Active
        <4>3. j \in Active({"L2"})' /\ halts'[j].day = today'
          BY <2>2, <2>3, <4>1, <4>2 DEF Active
        <4> QED
          BY <4>3 DEF TripLastsTheDay
      <3> QED
        BY <3>1, <3>2
    <2>7. DayRight'
      <3>1. \A j \in Active({"L2"})' : j \in Active({"L2"}) /\ halts'[j].day = halts[j].day
        BY <2>2, <2>3 DEF Active
      <3> QED
        BY <1>0, <1>a, <2>6, <3>1 DEF DayRight
    <2>8. standing' \in [Workers -> SUBSET DOMAIN halts]
      BY <1>0, <2>1 DEF TypeOK
    <2>9. mopped' \in BOOLEAN
      BY <2>1
    <2> QED
      BY <2>2, <2>4, <2>5, <2>7, <2>8, <2>9
  <1> QED
    BY <1>1, <1>2

\* A request does it to the row it picked.
LEMMA ReleaseIInv ==
  ASSUME IInv, NEW c \in Callers, Release(c)
  PROVE  IInv'
  <1> USE DEF world
  <1>0. /\ TypeOK /\ CallerRight
        /\ c \in Procs /\ c \notin Workers
    BY ConstantsAssumption DEF IInv, Procs
  <1>1. row[c] \in DOMAIN halts /\ arg[c] = "L1"
    BY <1>0 DEF Release, TypeOK, CallerRight
  <1>2. /\ UNCHANGED <<today, open, loss, exposed, tripped, arg, reading, count, lock, mishaps, second>>
        /\ pc' = [pc EXCEPT ![c] = "idle"] /\ row' = [row EXCEPT ![c] = 0]
        /\ ReleaseRow(row[c])
    BY DEF Release, Goto
  <1>3. /\ halts' \in Seq(Row) /\ DOMAIN halts' = DOMAIN halts
        /\ standing' \in [Workers -> SUBSET DOMAIN halts] /\ mopped' \in BOOLEAN
        /\ GateRight' /\ FlatRight' /\ DayRight'
    <2>1. \A p \in Procs : pc'[p] = pc[p] \/ (pc'[p] = "idle" /\ arg[p] # "L2" /\ p \notin Workers)
      BY <1>0, <1>1, <1>2 DEF TypeOK
    <2> QED
      BY <1>1, <1>2, <2>1, ReleaseRowKeeps
  <1>4. TypeOK'
    BY <1>0, <1>2, <1>3 DEF TypeOK
  <1>5. CallerRight'
    BY <1>0, <1>1, <1>2 DEF CallerRight, TypeOK
  <1> QED
    BY <1>3, <1>4, <1>5 DEF IInv

\* The sweep does it to an expired breaker.
LEMMA SweepIInv ==
  ASSUME IInv, NEW w \in Watchers, NEW i \in DOMAIN halts, Sweep(w, i)
  PROVE  IInv'
  <1> USE DEF world
  <1>0. TypeOK /\ CallerRight
    BY DEF IInv
  <1>1. /\ UNCHANGED <<today, open, loss, exposed, tripped, arg, row, pc, reading, count, lock,
                       mishaps, second>>
        /\ ReleaseRow(i)
    BY DEF Sweep
  <1>2. /\ halts' \in Seq(Row) /\ DOMAIN halts' = DOMAIN halts
        /\ standing' \in [Workers -> SUBSET DOMAIN halts] /\ mopped' \in BOOLEAN
        /\ GateRight' /\ FlatRight' /\ DayRight'
    BY <1>1, ReleaseRowKeeps
  <1>3. TypeOK'
    BY <1>0, <1>1, <1>2 DEF TypeOK
  <1>4. CallerRight'
    BY <1>0, <1>1 DEF CallerRight
  <1> QED
    BY <1>2, <1>3, <1>4 DEF IInv

-----------------------------------------------------------------------------
(* process_alert: the gate, and what comes after it.                       *)

\* Each query removes its levels from what the worker may still remember.
LEMMA GateIInv ==
  ASSUME IInv, NEW w \in Workers,
         GateBegins(w) \/ QueryPlatform(w) \/ QueryUser(w) \/ QueryStrategy(w)
  PROVE  IInv'
  <1> USE DEF world
  <1>0. /\ TypeOK /\ CallerRight /\ GateRight /\ FlatRight /\ DayRight
        /\ w \in Procs /\ w \notin Callers
    BY ConstantsAssumption DEF IInv, Procs
  <1>1. /\ UNCHANGED <<halts, today, open, loss, exposed, arg, row, reading, count, lock, mishaps,
                       second, tripped, mopped>>
        /\ pc' = [pc EXCEPT ![w] = pc'[w]]
        /\ pc'[w] \in {"idle", "platform", "user", "strategy", "passed"}
        /\ standing' = [standing EXCEPT ![w] = standing'[w]]
        /\ pc[w] \in {"idle", "platform", "user", "strategy"}
    <2> USE <1>0 DEF Goto, TypeOK
    <2>1. CASE GateBegins(w)
      BY <2>1 DEF GateBegins
    <2>2. CASE QueryPlatform(w)
      BY <2>2 DEF QueryPlatform, Query
    <2>3. CASE QueryUser(w)
      BY <2>3 DEF QueryUser, Query
    <2>4. CASE QueryStrategy(w)
      BY <2>4 DEF QueryStrategy, Query
    <2> QED
      BY <2>1, <2>2, <2>3, <2>4
  <1>2. \A i \in standing'[w] :
          /\ i \in DOMAIN halts /\ halts[i].active
          /\ pc'[w] \in {"user", "strategy", "passed"} => halts[i].level # "L3"
          /\ pc'[w] \in {"strategy", "passed"} => halts[i].level \notin UserLevels
          /\ pc'[w] # "passed"
    <2> SUFFICES ASSUME NEW i \in standing'[w]
                 PROVE  /\ i \in DOMAIN halts /\ halts[i].active
                        /\ pc'[w] \in {"user", "strategy", "passed"} => halts[i].level # "L3"
                        /\ pc'[w] \in {"strategy", "passed"} => halts[i].level \notin UserLevels
                        /\ pc'[w] # "passed"
      OBVIOUS
    <2>1. CASE GateBegins(w)
      BY <1>0, <2>1 DEF GateBegins, Goto, TypeOK, Active
    <2>2. CASE QueryPlatform(w)
      BY <1>0, <2>2 DEF QueryPlatform, Query, Goto, TypeOK, Active, GateRight
    <2>3. CASE QueryUser(w)
      BY <1>0, <2>3 DEF QueryUser, Query, Goto, TypeOK, Active, GateRight
    <2>4. CASE QueryStrategy(w)
      <3>1. Active({"L0"}) # {} \/ UNCHANGED standing
        BY <2>4 DEF QueryStrategy, Query
      <3>2. CASE Active({"L0"}) # {}
        BY <1>0, <2>4, <3>2 DEF QueryStrategy, Query, TypeOK
      <3>3. CASE Active({"L0"}) = {}
        <4>1. i \in standing[w] /\ i \in DOMAIN halts /\ pc[w] = "strategy"
          BY <1>0, <2>4, <3>3 DEF QueryStrategy, Query, TypeOK
        <4>2. halts[i].active /\ halts[i].level \notin {"L1", "L2", "L3"}
          BY <1>0, <4>1 DEF GateRight, UserLevels
        <4>r. halts[i] \in Row
          BY <1>0, <4>1 DEF TypeOK
        <4>3. halts[i].level = "L0"
          BY <4>r, <4>2 DEF Row, Levels
        <4> QED
          BY <3>3, <4>1, <4>2, <4>3 DEF Active
      <3> QED
        BY <3>2, <3>3
    <2> QED
      BY <2>1, <2>2, <2>3, <2>4
  <1>3. TypeOK'
    BY <1>0, <1>1, <1>2 DEF TypeOK
  <1>4. CallerRight'
    BY <1>0, <1>1 DEF CallerRight, TypeOK, Procs
  <1>5. GateRight'
    BY <1>0, <1>1, <1>2 DEF GateRight, TypeOK, Procs
  <1>6. /\ pc[w] # "strategy" /\ pc'[w] \in {"strategy", "passed"} => ~UserHalted
        /\ ~UserHalted => Active({"L2"}) = {}
    BY <1>0 DEF GateBegins, QueryPlatform, QueryUser, QueryStrategy, Query, Goto, TypeOK, UserHalted,
               UserLevels, Active
  <1>7. FlatRight'
    <2>1. UserHalted' = UserHalted
      BY <1>1 DEF UserHalted, Active
    <2>2. mopped => PastUserGate' \subseteq PastUserGate
      BY <1>0, <1>1, <1>6 DEF PastUserGate, FlatRight, TypeOK, Procs
    <2> QED
      BY <1>0, <1>1, <2>1, <2>2 DEF FlatRight
  <1>8. DayRight'
    BY <1>0, <1>1, <1>6 DEF DayRight, TripLastsTheDay, SawNoOldBreaker, Active, TypeOK
  <1> QED
    BY <1>3, <1>4, <1>5, <1>7, <1>8 DEF IInv

\* Past the gate nobody was mopped up.
LEMMA PassedIInv ==
  ASSUME IInv, NEW w \in Workers, Submit(w) \/ HardStop(w)
  PROVE  IInv'
  <1> USE DEF world
  <1>0. /\ TypeOK /\ CallerRight /\ GateRight /\ FlatRight /\ DayRight
        /\ w \in Procs /\ w \notin Callers
    BY ConstantsAssumption DEF IInv, Procs
  <1>1. /\ UNCHANGED <<halts, today, open, loss, row, reading, count, lock, mishaps, second,
                       tripped, mopped>>
        /\ pc[w] = "passed"
        /\ standing' = [standing EXCEPT ![w] = {}]
        /\ exposed' \in BOOLEAN
    BY <1>0 DEF Submit, HardStop, TypeOK
  <1>2. \/ pc' = [pc EXCEPT ![w] = "idle"] /\ UNCHANGED arg
        \/ pc' = [pc EXCEPT ![w] = "lookup"] /\ arg' = [arg EXCEPT ![w] = "L2"]
    BY DEF Submit, HardStop, Goto
  <1>3. ~mopped
    BY <1>0, <1>1 DEF FlatRight, PastUserGate
  <1>4. TypeOK'
    BY <1>0, <1>1, <1>2 DEF TypeOK, Levels
  <1>5. CallerRight'
    BY <1>0, <1>1, <1>2 DEF CallerRight, TypeOK, Procs
  <1>6. GateRight'
    BY <1>0, <1>1, <1>2 DEF GateRight, TypeOK, Procs
  <1>7. FlatRight'
    BY <1>1, <1>3 DEF FlatRight
  <1>8. DayRight'
    BY <1>0, <1>1, <1>2 DEF DayRight, TripLastsTheDay, SawNoOldBreaker, Active, TypeOK
  <1> QED
    BY <1>4, <1>5, <1>6, <1>7, <1>8 DEF IInv

-----------------------------------------------------------------------------
(* daily_loss_watcher, the steps that are not of trigger_halt.             *)

\* Past the sweep there is no breaker of an earlier day.
LEMMA WatcherIInv ==
  ASSUME IInv, NEW w \in Watchers,
         Start(w) \/ Swept(w) \/ AskMarket(w) \/ AlreadyTripped(w) \/ ReadPnl(w) \/ Count(w) \/ Finish(w)
  PROVE  IInv'
  <1> USE DEF world, ghosts
  <1>0. /\ TypeOK /\ CallerRight /\ GateRight /\ FlatRight /\ DayRight
        /\ w \in Procs /\ w \notin Callers /\ w \notin Workers
    BY ConstantsAssumption DEF IInv, Procs
  <1>1. /\ UNCHANGED <<halts, today, open, loss, exposed, row, standing, tripped, mopped>>
        /\ pc[w] \in {"idle", "sweep", "market", "check", "read", "count", "done"}
        /\ pc' = [pc EXCEPT ![w] = pc'[w]]
        /\ pc'[w] \in {"sweep", "market", "check", "read", "count", "lookup", "done", "idle"}
        /\ arg' = [arg EXCEPT ![w] = arg'[w]]
        /\ arg'[w] = IF pc'[w] = "lookup" THEN "L2" ELSE arg[w]
        /\ reading' \in [Watchers -> {"none", "ok", "breach"}] /\ second' \in [Watchers -> BOOLEAN]
        /\ count' \in 0..2 /\ lock' \in BOOLEAN /\ mishaps' \in 0..MaxMishaps
        /\ pc'[w] \in {"check", "read", "count", "lookup"} =>
              pc[w] \in {"market", "check", "read", "count"}
        /\ pc'[w] = "market" => Expired = {}
    <2> USE <1>0, ConstantsAssumption DEF TypeOK, Goto, Mishap
    <2>1. CASE Start(w)
      BY <2>1 DEF Start
    <2>2. CASE Swept(w)
      BY <2>2 DEF Swept
    <2>3. CASE AskMarket(w)
      BY <2>3 DEF AskMarket
    <2>4. CASE AlreadyTripped(w)
      BY <2>4 DEF AlreadyTripped
    <2>5. CASE ReadPnl(w)
      <3>1. second' \in [Watchers -> BOOLEAN]
        <4>1. (count > 0) \in BOOLEAN
          OBVIOUS
        <4>2. [second EXCEPT ![w] = count > 0] \in [Watchers -> BOOLEAN]
          BY <4>1, Zenon
        <4> QED
          BY <2>5, <4>2 DEF ReadPnl
      <3>2. reading' \in [Watchers -> {"none", "ok", "breach"}] /\ mishaps' \in 0..MaxMishaps
        BY <2>5 DEF ReadPnl
      <3>3. pc[w] = "read" /\ pc'[w] \in {"count", "done"} /\ pc' = [pc EXCEPT ![w] = pc'[w]]
        BY <2>5 DEF ReadPnl
      <3> QED
        BY <2>5, <3>1, <3>2, <3>3 DEF ReadPnl
    <2>6. CASE Count(w)
      <3>1. count' \in 0..2
        BY <2>6 DEF Count
      <3>2. CASE count' = 2
        BY <2>6, <3>1, <3>2 DEF Count
      <3>3. CASE count' # 2
        BY <2>6, <3>1, <3>3 DEF Count
      <3> QED
        BY <3>2, <3>3
    <2>7. CASE Finish(w)
      BY <2>7 DEF Finish
    <2> QED
      BY <2>1, <2>2, <2>3, <2>4, <2>5, <2>6, <2>7
  <1>2. TypeOK'
    BY <1>0, <1>1 DEF TypeOK, Levels
  <1>3. CallerRight'
    BY <1>0, <1>1 DEF CallerRight, TypeOK, Procs
  <1>4. GateRight'
    BY <1>0, <1>1 DEF GateRight, TypeOK, Procs
  <1>5. FlatRight'
    <2>1. UserHalted' = UserHalted /\ PastUserGate' = PastUserGate
      BY <1>0, <1>1 DEF UserHalted, Active, PastUserGate, TypeOK, Procs
    <2> QED
      BY <1>0, <1>1, <2>1 DEF FlatRight
  <1>6. DayRight'
    <2>1. Expired = {} => \A i \in Active({"L2"}) : halts[i].day = today
      BY DEF Expired, MayRelease, Active
    <2>2. TripLastsTheDay' /\ Active({"L2"})' = Active({"L2"})
      BY <1>0, <1>1 DEF DayRight, TripLastsTheDay, Active
    <2>3. \A p \in Procs : SawNoOldBreaker(p)' =>
             SawNoOldBreaker(p) \/ (\A i \in Active({"L2"}) : halts[i].day = today)
      BY <1>0, <1>1, <2>1 DEF SawNoOldBreaker, TypeOK
    <2> QED
      BY <1>0, <1>1, <2>2, <2>3 DEF DayRight
  <1> QED
    BY <1>2, <1>3, <1>4, <1>5, <1>6 DEF IInv

-----------------------------------------------------------------------------
(* What happens to all of them.                                            *)

\* A process dies and forgets.
LEMMA DiesIInv ==
  ASSUME IInv, NEW p \in Procs, Dies(p)
  PROVE  IInv'
  <1> USE DEF world
  <1>0. TypeOK /\ CallerRight /\ GateRight /\ FlatRight /\ DayRight
    BY DEF IInv
  <1>1. /\ UNCHANGED <<halts, today, open, loss, exposed, count, lock, tripped, mopped>>
        /\ pc' = [pc EXCEPT ![p] = "idle"] /\ arg' = [arg EXCEPT ![p] = "L1"]
        /\ mishaps' \in 0..MaxMishaps
    BY <1>0, ConstantsAssumption DEF Dies, Goto, Mishap, TypeOK
  <1>2. /\ row' \in [Callers -> {0} \cup DOMAIN halts]
        /\ \A c \in Callers : c # p => row'[c] = row[c]
    BY <1>0 DEF Dies, TypeOK
  <1>3. /\ standing' \in [Workers -> SUBSET DOMAIN halts]
        /\ \A w \in Workers : standing'[w] \subseteq standing[w]
    BY <1>0 DEF Dies, TypeOK
  <1>4. second' \in [Watchers -> BOOLEAN] /\ reading' \in [Watchers -> {"none", "ok", "breach"}]
    BY <1>0 DEF Dies, TypeOK
  <1>5. TypeOK'
    BY <1>0, <1>1, <1>2, <1>3, <1>4 DEF TypeOK, Levels
  <1>6. CallerRight'
    BY <1>0, <1>1, <1>2 DEF CallerRight, TypeOK, Procs
  <1>7. GateRight'
    BY <1>0, <1>1, <1>3 DEF GateRight, TypeOK, Procs
  <1>8. FlatRight'
    <2>1. UserHalted' = UserHalted /\ PastUserGate' \subseteq PastUserGate
      BY <1>0, <1>1 DEF UserHalted, Active, PastUserGate, TypeOK, Procs
    <2> QED
      BY <1>0, <1>1, <2>1 DEF FlatRight
  <1>9. DayRight'
    <2>1. TripLastsTheDay' /\ Active({"L2"})' = Active({"L2"})
      BY <1>0, <1>1 DEF DayRight, TripLastsTheDay, Active
    <2>2. \A q \in Procs : SawNoOldBreaker(q)' => SawNoOldBreaker(q)
      BY <1>0, <1>1 DEF SawNoOldBreaker, TypeOK
    <2> QED
      BY <1>0, <1>1, <2>1, <2>2 DEF DayRight
  <1> QED
    BY <1>5, <1>6, <1>7, <1>8, <1>9 DEF IInv

\* A new day begins when nobody is at work.
LEMMA WorldIInv ==
  ASSUME IInv,
         LockExpires \/ CounterExpires \/ PnlMoves \/ OpensOrCloses \/ NextDay \/ UNCHANGED vars
  PROVE  IInv'
  <1> USE DEF world, ghosts
  <1>0. TypeOK /\ CallerRight /\ GateRight /\ FlatRight /\ DayRight
    BY DEF IInv
  <1>1. /\ UNCHANGED <<halts, exposed, pc, arg, row, standing, reading, second, mopped>>
        /\ today' \in 1..MaxDay /\ open' \in BOOLEAN /\ loss' \in BOOLEAN /\ tripped' \in BOOLEAN
        /\ count' \in 0..2 /\ lock' \in BOOLEAN /\ mishaps' \in 0..MaxMishaps
        /\ \/ UNCHANGED <<today, tripped>>
           \/ tripped' = FALSE /\ \A p \in Procs : pc[p] = "idle"
    <2> USE <1>0, ConstantsAssumption DEF TypeOK
    <2>1. CASE LockExpires
      BY <2>1 DEF LockExpires
    <2>2. CASE CounterExpires
      BY <2>2 DEF CounterExpires, Mishap
    <2>3. CASE PnlMoves
      BY <2>3 DEF PnlMoves
    <2>4. CASE OpensOrCloses
      BY <2>4 DEF OpensOrCloses
    <2>5. CASE NextDay
      <3>1. today + 1 \in 1..MaxDay
        BY <2>5 DEF NextDay
      <3>2. today' = today + 1 /\ loss' = FALSE /\ tripped' = FALSE /\ count' = 0
            /\ (\A p \in Procs : pc[p] = "idle")
            /\ UNCHANGED <<halts, open, exposed, pc, arg, row, reading, lock, mishaps, standing,
                           second, mopped>>
        BY ONLY <2>5 DEF NextDay, ghosts, world
      <3>3. today' \in 1..MaxDay /\ loss' \in BOOLEAN /\ tripped' \in BOOLEAN /\ count' \in 0..2
        <4>1. today' \in 1..MaxDay
          BY ONLY <3>1, <3>2
        <4>2. count' \in 0..2
          BY ONLY <3>2
        <4>3. loss' \in BOOLEAN /\ tripped' \in BOOLEAN
          BY ONLY <3>2, Zenon
        <4> QED
          BY <4>1, <4>2, <4>3
      <3>4. open' \in BOOLEAN /\ lock' \in BOOLEAN /\ mishaps' \in 0..MaxMishaps
        BY <3>2
      <3> QED
        BY ONLY <3>2, <3>3, <3>4
    <2>6. CASE UNCHANGED vars
      BY <2>6 DEF vars
    <2> QED
      BY <2>1, <2>2, <2>3, <2>4, <2>5, <2>6
  <1>2. TypeOK'
    BY <1>0, <1>1 DEF TypeOK
  <1>3. CallerRight' /\ GateRight'
    BY <1>0, <1>1 DEF CallerRight, GateRight
  <1>4. FlatRight'
    BY <1>0, <1>1 DEF FlatRight, UserHalted, Active, PastUserGate
  <1>5. DayRight'
    <2>1. Active({"L2"})' = Active({"L2"}) /\ \A p \in Procs : SawNoOldBreaker(p)' = SawNoOldBreaker(p)
      BY <1>1 DEF Active, SawNoOldBreaker
    <2>2. CASE UNCHANGED <<today, tripped>>
      BY <1>0, <1>1, <2>1, <2>2 DEF DayRight, TripLastsTheDay
    <2>3. CASE tripped' = FALSE /\ \A p \in Procs : pc[p] = "idle"
      BY <1>0, <2>1, <2>3 DEF DayRight, TripLastsTheDay, SawNoOldBreaker, CallerRight
    <2> QED
      BY <1>1, <2>2, <2>3
  <1> QED
    BY <1>2, <1>3, <1>4, <1>5 DEF IInv

\* The invariant is inductive.
LEMMA NextIInv == IInv /\ [Next]_vars => IInv'
  <1> SUFFICES ASSUME IInv, [Next]_vars PROVE IInv'
    OBVIOUS
  <1>1. ASSUME NEW c \in Callers, CallerStep(c) PROVE IInv'
    BY <1>1, RequestIInv, ReleaseIInv, TriggerIInv DEF CallerStep, Procs
  <1>2. ASSUME NEW w \in Workers, WorkerStep(w) PROVE IInv'
    BY <1>2, GateIInv, PassedIInv, TriggerIInv DEF WorkerStep, Procs
  <1>3. ASSUME NEW w \in Watchers, WatcherStep(w) PROVE IInv'
    BY <1>3, WatcherIInv, SweepIInv, TriggerIInv DEF WatcherStep, Procs
  <1>4. ASSUME NEW p \in Procs, Dies(p) PROVE IInv'
    BY <1>4, DiesIInv
  <1>5. ASSUME LockExpires \/ CounterExpires \/ PnlMoves \/ OpensOrCloses \/ NextDay \/ UNCHANGED vars
        PROVE  IInv'
    BY <1>5, WorldIInv
  <1> QED
    BY <1>1, <1>2, <1>3, <1>4, <1>5 DEF Next

\* So it holds.
LEMMA IInvHolds == Spec => []IInv
  BY InitIInv, NextIInv, PTL DEF Spec

-----------------------------------------------------------------------------
(* What follows, with no bound on anything.                                *)

\* The state has its types (the table, where each process is, what it holds).
THEOREM TypeCorrect == Spec => []TypeOK
  <1>1. IInv => TypeOK
    BY DEF IInv
  <1> QED
    BY IInvHolds, <1>1, PTL

\* is_blocked in three queries: a halt that is active from the first to the
\* last stops the order, whatever others engage and release meanwhile.
THEOREM GateStops == Spec => []StandingHaltStops
  <1>1. IInv => StandingHaltStops
    BY DEF IInv, GateRight, StandingHaltStops
  <1> QED
    BY IInvHolds, <1>1, PTL

\* A user who was flattened under a halt with no order past the gate has no
\* order and no position until the halt is released.
THEOREM StaysFlat == Spec => []FlatStaysFlat
  <1>1. IInv => FlatStaysFlat
    BY DEF IInv, FlatRight, FlatStaysFlat
  <1> QED
    BY IInvHolds, <1>1, PTL

\* A daily-loss halt lasts its trading day: neither a release, nor the sweep,
\* nor a trigger that finds an older breaker in its place ends it sooner.
THEOREM TripLasts == Spec => []TripLastsTheDay
  <1>1. IInv => TripLastsTheDay
    BY DEF IInv, DayRight
  <1> QED
    BY IInvHolds, <1>1, PTL

\* The three together: what the runs check as HaltsHold (risk/killswitch.py:76-98).
COROLLARY HaltsStand == Spec => []HaltsHold
  BY TypeCorrect, GateStops, TripLasts, PTL DEF HaltsHold


-----------------------------------------------------------------------------
(* Two polls, while no run of the watcher outlasts its lock.               *)

\* Whoever is not idle holds the lock and is alone; a counter that is not zero
\* between its reading and its count was not zero before the reading; what goes
\* to engage was counted second.
PollRight ==
  \A w \in Watchers :
    /\ pc[w] # "idle" => lock /\ \A v \in Watchers \ {w} : pc[v] = "idle"
    /\ pc[w] = "count" /\ count > 0 => second[w]
    /\ pc[w] \in {"lookup", "create"} => second[w]

\* Nobody runs at first.
LEMMA InitPoll == Init => PollRight
  BY DEF Init, PollRight, Procs

\* A watcher's own step.
LEMMA WatcherPoll ==
  ASSUME IInv, PollRight, NEW w \in Watchers, WatcherStep(w)
  PROVE  PollRight'
  <1> USE DEF ghosts
  <1>0. TypeOK /\ w \in Procs /\ \A v \in Watchers : v \in Procs
    BY DEF IInv, Procs
  <1>1. /\ \A v \in Watchers \ {w} : pc'[v] = pc[v] /\ second'[v] = second[v]
        /\ pc[w] # "idle" => UNCHANGED lock \/ pc'[w] = "idle"
        /\ pc[w] = "idle" => ~lock /\ lock' = TRUE /\ pc'[w] = "sweep"
        /\ pc'[w] = "count" /\ count' > 0 => second'[w]
        /\ pc'[w] \in {"lookup", "create"} => second'[w]
    <2> USE <1>0 DEF TypeOK, Goto, Return, PollRight
    <2>1. CASE Start(w)
      BY <2>1 DEF Start
    <2>2. CASE Swept(w) \/ AskMarket(w) \/ AlreadyTripped(w)
      BY <2>2 DEF Swept, AskMarket, AlreadyTripped
    <2>3. CASE ReadPnl(w)
      BY <2>3 DEF ReadPnl
    <2>4. CASE Count(w)
      BY <2>4 DEF Count
    <2>5. CASE Finish(w)
      BY <2>5 DEF Finish
    <2>6. CASE LookUp(w)
      BY <2>6 DEF LookUp
    <2>7. CASE Create(w) \/ CreateFails(w)
      BY <2>7 DEF Create, CreateFails
    <2>8. CASE Flatten(w) \/ FlattenFails(w)
      BY <2>8 DEF Flatten, FlattenFails
    <2>9. ASSUME NEW i \in DOMAIN halts, Sweep(w, i)
          PROVE  UNCHANGED <<pc, lock, second>> /\ pc[w] = "sweep"
      BY <2>9 DEF Sweep
    <2> QED
      BY <2>1, <2>2, <2>3, <2>4, <2>5, <2>6, <2>7, <2>8, <2>9 DEF WatcherStep, TriggerStep
  <1>2. \A v \in Watchers \ {w} : pc[v] = "idle"
    BY <1>1 DEF PollRight
  <1> QED
    BY <1>1, <1>2 DEF PollRight

\* Anybody else's.
LEMMA OthersPoll ==
  ASSUME IInv, PollRight, ~Overruns,
         \/ \E c \in Callers : CallerStep(c)
         \/ \E w \in Workers : WorkerStep(w)
         \/ \E p \in Procs : Dies(p)
         \/ LockExpires \/ CounterExpires \/ PnlMoves \/ OpensOrCloses \/ NextDay \/ UNCHANGED vars
  PROVE  PollRight'
  <1> USE DEF ghosts, world
  <1>0. TypeOK /\ \A v \in Watchers : v \in Procs /\ v \notin Callers /\ v \notin Workers
    BY ConstantsAssumption DEF IInv, Procs
  <1>1. ASSUME NEW p \in Callers \cup Workers, CallerStep(p) \/ WorkerStep(p)
        PROVE  UNCHANGED <<lock, second, count>> /\ \A v \in Watchers : pc'[v] = pc[v]
    <2>1. UNCHANGED <<lock, second, count>> /\ pc' = [pc EXCEPT ![p] = pc'[p]]
      <3> USE <1>0 DEF TypeOK, Procs, Goto, Return
      <3>1. CASE CallerStep(p)
        BY <3>1 DEF CallerStep, Engage, PickRelease, Release, TriggerStep, LookUp, Create,
                    CreateFails, Flatten, FlattenFails
      <3>2. CASE WorkerStep(p)
        BY <3>2 DEF WorkerStep, GateBegins, QueryPlatform, QueryUser, QueryStrategy, Query, Submit,
                    HardStop, TriggerStep, LookUp, Create, CreateFails, Flatten, FlattenFails
      <3> QED
        BY <1>1, <3>1, <3>2
    <2> QED
      BY <1>0, <2>1 DEF TypeOK
  <1>2. ASSUME NEW p \in Procs, Dies(p)
        PROVE  /\ UNCHANGED <<lock, count>> /\ pc' = [pc EXCEPT ![p] = "idle"]
               /\ \A v \in Watchers \ {p} : second'[v] = second[v]
    BY <1>0, <1>2 DEF Dies, Goto, TypeOK
  <1>3. CASE LockExpires \/ NextDay
    BY <1>0, <1>3 DEF LockExpires, NextDay, PollRight
  <1>4. CASE CounterExpires
    BY <1>4 DEF CounterExpires, PollRight
  <1>5. CASE PnlMoves \/ OpensOrCloses \/ UNCHANGED vars
    BY <1>5 DEF PnlMoves, OpensOrCloses, vars, PollRight
  <1>6. CASE \E p \in Callers \cup Workers : CallerStep(p) \/ WorkerStep(p)
    BY <1>1, <1>6 DEF PollRight
  <1>7. CASE \E p \in Procs : Dies(p)
    BY <1>0, <1>2, <1>7 DEF PollRight, TypeOK
  <1> QED
    BY <1>3, <1>4, <1>5, <1>6, <1>7

\* The watcher engages L2 on a reading made after an earlier breach was counted,
\* as long as a run is over before its lock of 45 seconds goes.
THEOREM TwoPolls ==
  ASSUME ~Overruns
  PROVE  Spec => TripNeedsTwoPolls
  <1>1. IInv /\ PollRight /\ [Next]_vars => PollRight'
    BY WatcherPoll, OthersPoll DEF Next
  <1>2. IInv /\ PollRight /\ [Next]_vars =>
          [\A w \in Watchers : pc[w] = "create" /\ halts' # halts /\ pc'[w] # "create" => second[w]]_vars
    BY DEF PollRight
  <1> QED
    BY IInvHolds, InitPoll, <1>1, <1>2, PTL DEF Spec, TripNeedsTwoPolls

=============================================================================
