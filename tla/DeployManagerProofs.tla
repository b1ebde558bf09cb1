------------------------ MODULE DeployManagerProofs ------------------------
(***************************************************************************)
(* Proofs about DeployManager, for any ids, requests, nodes and ports, and *)
(* any number of stop callers and crashes: the store and the lifecycle,    *)
(* then its threads, the starting gate that the launch workers share and   *)
(* what a stop thread knows when it ends.                                  *)
(***************************************************************************)
EXTENDS DeployManager, TLAPS

----------------------------------------------------------------------------
(* The store and the lifecycle                                             *)

\* purge_surplus deletes terminal files only, and never the one just written.
LEMMA PurgeSurplusKeeps ==
    ASSUME NEW files \in [Ids -> Files], NEW d \in Ids,
           NEW g \in PurgeSurplus(files, d)
    PROVE  /\ g \in [Ids -> Files]
           /\ g[d] = files[d]
           /\ \A e \in Ids : \/ g[e] = files[e]
                             \/ files[e].state \in TERMINAL /\ g[e] = NoFile
<1> DEFINE settled == {e \in Ids : files[e].state \in TERMINAL}
<1>0. NoFile \in Files
  BY DEF NoFile, Files
<1>1. CASE g = files
  BY <1>1
<1>2. CASE g # files
  <2>1. PICK gone \in SUBSET (settled \ {d}) :
           g = [e \in Ids |-> IF e \in gone THEN NoFile ELSE files[e]]
    BY <1>2 DEF PurgeSurplus
  <2>2. \A e \in gone : files[e].state \in TERMINAL /\ e # d
    OBVIOUS
  <2> QED
    BY <1>0, <2>1, <2>2
<1> QED
  BY <1>1, <1>2

\* No arrow leaves a terminal state, and LAUNCHING is entered from nothing.
LEMMA LegalArrows ==
    ASSUME NEW s \in States \cup {"NONE"}, NEW t \in LEGAL[s]
    PROVE  /\ s \notin TERMINAL
           /\ t \in States
           /\ s = "NONE" <=> t = "LAUNCHING"
           /\ t = "STOPPED" <=> s = "STOPPING"
           /\ t = "STOPPING" => s \in SERVING
           /\ t = "READY" => s \in {"LAUNCHING", "DEGRADED"}
           /\ t = "DEGRADED" => s = "READY"
  BY DEF States, LEGAL, TERMINAL, SERVING

\* What _transition does to the table of states and to the store.
LEMMA TransitionEffect ==
    ASSUME TypeOK, NEW d \in Ids, NEW t \in States, Transition(d, t)
    PROVE  /\ state' \in [Ids -> States \cup {"NONE"}]
           /\ disk' \in [Ids -> Files]
           /\ \A e \in Ids \ {d} :
                 /\ state'[e] = state[e]
                 /\ \/ disk'[e] = disk[e]
                    \/ disk[e].state \in TERMINAL /\ disk'[e] = NoFile
           /\ \/ /\ t \in LEGAL[state[d]]
                 /\ state'[d] = t
                 /\ disk'[d] = [state |-> t, handle |-> handle[d]]
              \/ state' = state /\ disk' = disk
<1> DEFINE files == Saved(d, t, handle[d])
<1>1. CASE t \notin LEGAL[state[d]]
  BY <1>1 DEF Transition, TypeOK
<1>2. CASE t \in LEGAL[state[d]]
  <2>1. /\ files \in [Ids -> Files]
        /\ files[d] = [state |-> t, handle |-> handle[d]]
        /\ \A e \in Ids \ {d} : files[e] = disk[e]
    BY DEF Saved, TypeOK, Files
  <2>2. /\ disk' \in [Ids -> Files]
        /\ disk'[d] = files[d]
        /\ \A e \in Ids : \/ disk'[e] = files[e]
                          \/ files[e].state \in TERMINAL /\ disk'[e] = NoFile
    <3>1. CASE disk' \in PurgeSurplus(files, d)
      <4> HIDE DEF files
      <4> QED BY <2>1, <3>1, PurgeSurplusKeeps
    <3>2. CASE disk' = files
      BY <2>1, <3>2
    <3> QED
      BY <1>2, <3>1, <3>2 DEF Transition
  <2>3. /\ state' \in [Ids -> States \cup {"NONE"}]
        /\ state'[d] = t
        /\ \A e \in Ids \ {d} : state'[e] = state[e]
    BY <1>2 DEF Transition, TypeOK
  <2> HIDE DEF files
  <2> QED
    BY <1>2, <2>1, <2>2, <2>3
<1> QED
  BY <1>1, <1>2

----------------------------------------------------------------------------
(* The stop threads                                                        *)

StopTable == [Ids -> [StopThreads -> [step : StopSteps, cid : BOOLEAN]]]

\* A stop thread that moves leaves every other one where it was.
LEMMA StopGoesEffect ==
    ASSUME stops \in StopTable, NEW d \in Ids, NEW c \in StopThreads,
           NEW s \in StopSteps, StopGoes(d, c, s)
    PROVE  /\ stops' \in StopTable
           /\ stops'[d][c] = [step |-> s, cid |-> stops[d][c].cid]
           /\ \A e \in Ids, b \in StopThreads :
                 e # d \/ b # c => stops'[e][b] = stops[e][b]
<1>1. stops[d] \in [StopThreads -> [step : StopSteps, cid : BOOLEAN]]
  BY DEF StopTable
<1>2. stops[d][c] \in [step : StopSteps, cid : BOOLEAN]
  BY <1>1
<1>3. [stops[d][c] EXCEPT !.step = s] = [step |-> s, cid |-> stops[d][c].cid]
  BY <1>2
<1>4. stops' = [stops EXCEPT ![d] =
                  [stops[d] EXCEPT ![c] = [step |-> s, cid |-> stops[d][c].cid]]]
  BY <1>3 DEF StopGoes
<1>5. [step |-> s, cid |-> stops[d][c].cid] \in [step : StopSteps, cid : BOOLEAN]
  BY <1>2
<1> QED
  BY <1>1, <1>4, <1>5 DEF StopTable

\* The same for a thread that is given new locals.
LEMMA StopSetEffect ==
    ASSUME stops \in StopTable, NEW d \in Ids, NEW c \in StopThreads,
           NEW v \in [step : StopSteps, cid : BOOLEAN],
           stops' = [stops EXCEPT ![d][c] = v]
    PROVE  /\ stops' \in StopTable
           /\ stops'[d][c] = v
           /\ \A e \in Ids, b \in StopThreads :
                 e # d \/ b # c => stops'[e][b] = stops[e][b]
<1>1. stops[d] \in [StopThreads -> [step : StopSteps, cid : BOOLEAN]]
  BY DEF StopTable
<1>2. stops' = [stops EXCEPT ![d] = [stops[d] EXCEPT ![c] = v]]
  OBVIOUS
<1> QED
  BY <1>1, <1>2 DEF StopTable

LEMMA IdleType == Idle \in [step : StopSteps, cid : BOOLEAN]
  BY DEF Idle, StopSteps

----------------------------------------------------------------------------
(* Type correctness                                                        *)

LEMMA TypeOKInit == Init => TypeOK
  BY PortsAssumption, BoundsAssumption, IdleType
     DEF Init, TypeOK, NoFile, Files, WorkerSteps, Workloads, States

\* launch() and its worker.
LEMMA TypeOKWorker ==
    ASSUME TypeOK, NEW d \in Ids,
           \/ \E r \in Requests : Launch(d, r)
           \/ WorkerStep(d)
    PROVE  TypeOK'
<1> USE DEF TypeOK, memory, watch
<1>1. ASSUME NEW r \in Requests, Launch(d, r) PROVE TypeOK'
  <2>1. /\ state' \in [Ids -> States \cup {"NONE"}]
        /\ disk' \in [Ids -> Files]
    BY <1>1, TransitionEffect DEF Launch, States
  <2>2. /\ port' \in [Ids -> Ports]
        /\ req' \in [Ids -> Requests \cup {NoRequest}]
        /\ worker' \in [Ids -> WorkerSteps]
    BY <1>1 DEF Launch, WorkerSteps
  <2> QED
    BY <1>1, <2>1, <2>2 DEF Launch
<1>2. CASE HoldStarting(d)
  BY <1>2, RequestsAssumption DEF HoldStarting, WorkerSteps, NoRequest
<1>3. CASE StartingTimeout(d)
  BY <1>3 DEF StartingTimeout, WorkerSteps
<1>4. CASE AdapterLaunch(d)
  BY <1>4 DEF AdapterLaunch, WorkerSteps, Workloads
<1>5. CASE SaveHandle(d)
  BY <1>5 DEF SaveHandle, WorkerSteps, Saved, Files
<1>6. CASE WaitReturns(d)
  BY <1>6 DEF WaitReturns, Ended, WorkerSteps
<1>7. CASE ProbeReady(d)
  BY <1>7 DEF ProbeReady, WorkerSteps
<1>8. CASE PublishReady(d)
  <2>1. /\ state' \in [Ids -> States \cup {"NONE"}]
        /\ disk' \in [Ids -> Files]
    BY <1>8, TransitionEffect DEF PublishReady, States
  <2> QED
    BY <1>8, <2>1 DEF PublishReady, Ended, WorkerSteps
<1>9. CASE WaitGivesUp(d)
  BY <1>9 DEF WaitGivesUp, WorkerSteps
<1>10. CASE FailLaunch(d)
  <2>1. /\ state' \in [Ids -> States \cup {"NONE"}]
        /\ disk' \in [Ids -> Files]
    BY <1>10, TransitionEffect DEF FailLaunch, States
  <2> QED
    BY <1>10, <2>1 DEF FailLaunch, Ended, WorkerSteps
<1>11. CASE ReleaseStarting(d)
  BY <1>11 DEF ReleaseStarting, WorkerSteps
<1> QED
  BY <1>1, <1>2, <1>3, <1>4, <1>5, <1>6, <1>7, <1>8, <1>9, <1>10, <1>11
     DEF WorkerStep

\* The stop threads.
LEMMA TypeOKStop ==
    ASSUME TypeOK, NEW d \in Ids, NEW c \in StopThreads,
           StopBegin(d, c) \/ StopStep(d, c) \/ StopRaises(d, c)
    PROVE  TypeOK'
<1> USE DEF TypeOK, memory, watch
<1>0. stops \in StopTable
  BY DEF StopTable
<1>1. CASE StopBegin(d, c)
  <2>1. /\ state' \in [Ids -> States \cup {"NONE"}]
        /\ disk' \in [Ids -> Files]
    BY <1>1, TransitionEffect DEF StopBegin, States
  <2>2. PICK v \in [step : StopSteps, cid : BOOLEAN] :
           stops' = [stops EXCEPT ![d][c] = v]
    BY <1>1, IdleType DEF StopBegin, StopReturns, StopSteps
  <2>3. stops' \in StopTable
    BY <1>0, <2>2, StopSetEffect
  <2> QED
    BY <1>1, <2>1, <2>3 DEF StopBegin, StopTable
<1>2. CASE StopAbort(d, c)
  <2>1. stops' \in StopTable
    BY <1>0, <1>2, StopGoesEffect DEF StopAbort, StopSteps
  <2> QED
    BY <1>2, <2>1 DEF StopAbort, AdapterStop, Workloads, StopTable
<1>3. CASE StopSettle(d, c)
  <2>1. /\ state' \in [Ids -> States \cup {"NONE"}]
        /\ disk' \in [Ids -> Files]
    BY <1>3, TransitionEffect DEF StopSettle, States
  <2>2. stops' \in StopTable
    BY <1>0, <1>3, StopSetEffect, IdleType DEF StopSettle, StopReturns
  <2> QED
    BY <1>3, <2>1, <2>2 DEF StopSettle, StopTable
<1>4. CASE StopTear(d, c)
  <2>1. stops' \in StopTable
    BY <1>0, <1>4, StopGoesEffect DEF StopTear, StopSteps
  <2> QED
    BY <1>4, <2>1 DEF StopTear, AdapterStop, Workloads, StopTable
<1>5. CASE StopConfirmed(d, c) \/ StopUnconfirmed(d, c)
  <2>1. stops' \in StopTable
    BY <1>0, <1>5, StopGoesEffect DEF StopConfirmed, StopUnconfirmed, StopSteps
  <2> QED
    BY <1>5, <2>1 DEF StopConfirmed, StopUnconfirmed, StopTable
<1>6. CASE StopKill(d, c)
  <2>1. stops' \in StopTable
    BY <1>0, <1>6, StopGoesEffect DEF StopKill, StopSteps
  <2> QED
    BY <1>6, <2>1 DEF StopKill, AdapterStop, Workloads, StopTable
<1>7. CASE StopFinish(d, c)
  <2>1. /\ state' \in [Ids -> States \cup {"NONE"}]
        /\ disk' \in [Ids -> Files]
    BY <1>7, TransitionEffect DEF StopFinish, States
  <2>2. stops' \in StopTable
    BY <1>0, <1>7, StopSetEffect, IdleType DEF StopFinish, StopReturns
  <2> QED
    BY <1>7, <2>1, <2>2 DEF StopFinish, StopTable
<1>8. CASE StopRaises(d, c)
  <2>1. stops' \in StopTable
    BY <1>0, <1>8, StopSetEffect, IdleType DEF StopRaises, StopReturns
  <2> QED
    BY <1>8, <2>1 DEF StopRaises, StopTable
<1> QED
  BY <1>1, <1>2, <1>3, <1>4, <1>5, <1>6, <1>7, <1>8 DEF StopStep

\* The watch thread.
LEMMA TypeOKTick ==
    ASSUME TypeOK, TickBegin \/ \E d \in Ids : TickRecord(d)
    PROVE  TypeOK'
<1> USE DEF TypeOK, memory
<1>1. CASE TickBegin
  BY <1>1 DEF TickBegin, Records
<1>2. ASSUME NEW d \in Ids, TickRecord(d) PROVE TypeOK'
  <2>1. /\ state' \in [Ids -> States \cup {"NONE"}]
        /\ disk' \in [Ids -> Files]
    BY <1>2, TransitionEffect DEF TickRecord, States
  <2>2. misses' \in [Ids -> Nat]
    BY <1>2 DEF TickRecord, Misses
  <2>3. batch' \subseteq Ids /\ lost' \subseteq batch' /\ pressed' \subseteq batch'
    BY <1>2 DEF TickRecord, TickGoes
  <2> QED
    BY <1>2, <2>1, <2>2, <2>3 DEF TickRecord
<1> QED
  BY <1>1, <1>2

\* Going down and coming back.
LEMMA TypeOKProcess ==
    ASSUME TypeOK,
           \/ Close \/ Crash \/ Boot \/ Bind
           \/ \E d \in Ids, s \in States : Reconcile(d, s)
           \/ \E d \in Ids : Load(d) \/ Die(d)
    PROVE  TypeOK'
<1> USE DEF TypeOK, memory, watch
<1>0. NoFile \in Files
  BY DEF NoFile, Files
<1>1. CASE Close
  BY <1>1 DEF Close
<1>2. CASE Crash
  BY <1>2, BoundsAssumption, IdleType DEF Crash, WorkerSteps, Workloads
<1>3. CASE Boot
  <2>1. disk' \in [Ids -> Files]
    BY <1>0, <1>3 DEF Boot
  <2>2. /\ state' \in [Ids -> States \cup {"NONE"}]
        /\ handle' \in [Ids -> BOOLEAN]
        /\ pending' \subseteq Ids
    BY <1>3, <2>1 DEF Boot, Files
  <2> QED
    BY <1>3, <2>1, <2>2 DEF Boot
<1>4. CASE Bind
  BY <1>4 DEF Bind
<1>5. ASSUME NEW d \in Ids, NEW s \in States, Reconcile(d, s) PROVE TypeOK'
  <2>1. disk' \in [Ids -> Files]
    BY <1>5 DEF Reconcile, Saved, Files
  <2>2. worker' \in [Ids -> WorkerSteps]
    BY <1>5 DEF Reconcile, WorkerSteps
  <2>3. stops' \in StopTable
    <3> DEFINE v == [step |-> "begin", cid |-> FALSE]
    <3>1. v \in [step : StopSteps, cid : BOOLEAN]
      BY DEF StopSteps
    <3>2. stops \in StopTable /\ Finisher \in StopThreads
      BY DEF StopTable, StopThreads
    <3>3. stops' = [stops EXCEPT ![d][Finisher] = v] \/ stops' = stops
      BY <1>5 DEF Reconcile
    <3> HIDE DEF v
    <3> QED
      BY <3>1, <3>2, <3>3, StopSetEffect
  <2> QED
    BY <1>5, <2>1, <2>2, <2>3 DEF Reconcile, StopTable
<1>6. ASSUME NEW d \in Ids, Load(d) \/ Die(d) PROVE TypeOK'
  BY <1>6 DEF Load, Die, Workloads
<1> QED
  BY <1>1, <1>2, <1>3, <1>4, <1>5, <1>6

LEMMA TypeOKNext == TypeOK /\ [Next]_vars => TypeOK'
<1> SUFFICES ASSUME TypeOK, [Next]_vars PROVE TypeOK'
  OBVIOUS
<1>1. CASE UNCHANGED vars
  BY <1>1 DEF TypeOK, vars
<1>2. CASE Next
  BY <1>2, TypeOKWorker, TypeOKStop, TypeOKTick, TypeOKProcess DEF Next
<1> QED
  BY <1>1, <1>2

\* Every state the manager can reach is well typed: no thread loses its place,
\* a verdict of the watch belongs to a record the tick still has to visit.
THEOREM TypeCorrect == Spec => []TypeOK
<1>1. Init => TypeOK
  BY TypeOKInit
<1>2. TypeOK /\ [Next]_vars => TypeOK'
  BY TypeOKNext
<1> QED
  BY <1>1, <1>2, PTL DEF Spec

----------------------------------------------------------------------------
(* What a step can do to the records and the store                         *)

\* One record is moved through the state machine.
Moves(d, t) ==
    /\ Transition(d, t)
    /\ \A e \in Ids : worker[e] = "none" => worker'[e] = "none"
    /\ UNCHANGED <<phase, pending, req, port, handle>>

\* Nothing happens to the records.
Keeps ==
    /\ \/ phase' = phase
       \/ phase = "up" /\ phase' = "closing"
       \/ phase = "starting" /\ phase' = "up" /\ (StartupWaits => pending = {})
    /\ \A e \in Ids : worker[e] = "none" => worker'[e] = "none"
    /\ UNCHANGED <<pending, req, port, state, handle, disk>>

Later == States \ {"LAUNCHING"}

LEMMA WorkerKinds ==
    ASSUME TypeOK, NEW d \in Ids, WorkerStep(d)
    PROVE  SaveHandle(d) \/ Keeps \/ \E t \in Later : Moves(d, t)
<1> USE DEF TypeOK, memory, watch, Keeps, Ended
<1>1. CASE HoldStarting(d) \/ StartingTimeout(d) \/ AdapterLaunch(d)
  BY <1>1 DEF HoldStarting, StartingTimeout, AdapterLaunch
<1>2. CASE WaitReturns(d) \/ ProbeReady(d) \/ WaitGivesUp(d) \/ ReleaseStarting(d)
  BY <1>2 DEF WaitReturns, ProbeReady, WaitGivesUp, ReleaseStarting
<1>3. CASE PublishReady(d)
  <2>1. "READY" \in Later
    BY DEF Later, States
  <2>2. CASE Transition(d, "READY")
    BY <1>3, <2>1, <2>2 DEF PublishReady, Moves
  <2> QED
    BY <1>3, <2>2 DEF PublishReady
<1>4. CASE FailLaunch(d)
  <2>1. "FAILED" \in Later
    BY DEF Later, States
  <2>2. CASE Transition(d, "FAILED")
    BY <1>4, <2>1, <2>2 DEF FailLaunch, Moves
  <2> QED
    BY <1>4, <2>2 DEF FailLaunch
<1> QED
  BY <1>1, <1>2, <1>3, <1>4 DEF WorkerStep

LEMMA StopKinds ==
    ASSUME TypeOK, NEW d \in Ids, NEW c \in StopThreads,
           StopBegin(d, c) \/ StopStep(d, c) \/ StopRaises(d, c)
    PROVE  Keeps \/ \E t \in Later : Moves(d, t)
<1> USE DEF memory, watch, Keeps, Moves
<1>0. {"STOPPING", "STOPPED", "FAILED"} \subseteq Later
  BY DEF Later, States
<1>1. CASE StopBegin(d, c)
  BY <1>0, <1>1 DEF StopBegin
<1>2. CASE StopAbort(d, c) \/ StopTear(d, c) \/ StopKill(d, c)
  BY <1>2 DEF StopAbort, StopTear, StopKill
<1>3. CASE StopConfirmed(d, c) \/ StopUnconfirmed(d, c) \/ StopRaises(d, c)
  BY <1>3 DEF StopConfirmed, StopUnconfirmed, StopRaises
<1>4. CASE StopSettle(d, c)
  BY <1>0, <1>4 DEF StopSettle
<1>5. CASE StopFinish(d, c)
  BY <1>0, <1>5 DEF StopFinish
<1> QED
  BY <1>1, <1>2, <1>3, <1>4, <1>5 DEF StopStep

LEMMA TickKinds ==
    ASSUME NEW d \in Ids, TickRecord(d)
    PROVE  Keeps \/ \E t \in Later : Moves(d, t)
<1>0. {"FAILED", "DEGRADED", "READY"} \subseteq Later
  BY DEF Later, States
<1>1. CASE \E t \in Later : Transition(d, t)
  BY <1>1 DEF TickRecord, Moves
<1>2. CASE UNCHANGED <<state, disk>>
  BY <1>2 DEF TickRecord, Keeps
<1> QED
  BY <1>0, <1>1, <1>2 DEF TickRecord

\* Every step is one of these, as far as the records and the store go.
LEMMA StepKinds ==
    ASSUME TypeOK, [Next]_vars
    PROVE  \/ Keeps
           \/ \E d \in Ids, t \in Later : Moves(d, t)
           \/ \E d \in Ids : SaveHandle(d)
           \/ \E d \in Ids, r \in Requests : Launch(d, r)
           \/ \E d \in Ids, s \in States : Reconcile(d, s)
           \/ Crash
           \/ Boot
<1>1. CASE UNCHANGED vars
  BY <1>1 DEF vars, Keeps
<1>2. CASE TickBegin \/ Close \/ Bind \/ \E d \in Ids : Load(d) \/ Die(d)
  BY <1>2 DEF TickBegin, Close, Bind, Load, Die, Keeps, memory, watch
<1> QED
  BY <1>1, <1>2, WorkerKinds, StopKinds, TickKinds DEF Next

----------------------------------------------------------------------------
(* The invariant of the records and the store                              *)

\* An id that was never launched has left no trace; a record in `pending` was
\* read from a file.
Fresh ==
    /\ \A d \in Ids : req[d] = NoRequest
                       => /\ state[d] = "NONE" /\ ~handle[d]
                          /\ disk[d] = NoFile /\ worker[d] = "none"
    /\ \A d \in pending : state[d] # "NONE"

\* A process that is down runs no thread and has no memory.
Quiet ==
    phase = "down" =>
        /\ pending = {} /\ batch = {}
        /\ \A d \in Ids :
              /\ state[d] = "NONE" /\ worker[d] = "none"
              /\ \A c \in StopThreads : stops[d][c] = Idle

\* Start-up that waits for reconcile() leaves it nothing to do later.
Started == StartupWaits /\ phase \in {"up", "closing"} => pending = {}

Base == TypeOK /\ StoreAgrees /\ Fresh /\ Quiet /\ Started

\* The only thing a process that is down can do is start.
LEMMA DownOnlyBoots ==
    ASSUME TypeOK, Quiet, phase = "down", Next
    PROVE  Boot \/ \E d \in Ids : Load(d) \/ Die(d)
<1>1. \A d \in Ids : ~WorkerStep(d)
  BY DEF Quiet, WorkerStep, HoldStarting, StartingTimeout, AdapterLaunch,
         SaveHandle, WaitReturns, ProbeReady, PublishReady, WaitGivesUp,
         FailLaunch, ReleaseStarting
<1>2. \A d \in Ids, c \in StopThreads : stops[d][c].step = "idle"
  BY DEF Quiet, Idle
<1>3. \A d \in Ids, c \in StopThreads : ~StopStep(d, c) /\ ~StopRaises(d, c)
  BY <1>2 DEF StopStep, StopRaises, StopAbort, StopSettle, StopTear,
         StopConfirmed, StopUnconfirmed, StopKill, StopFinish, At
<1>4. \A d \in Ids, c \in StopThreads : ~StopBegin(d, c)
  BY DEF Quiet, StopBegin, Records
<1>5. \A d \in Ids : ~TickRecord(d)
  BY DEF Quiet, TickRecord
<1> QED
  BY <1>1, <1>3, <1>4, <1>5
     DEF Next, Launch, TickBegin, Close, Crash, Bind, Reconcile

LEMMA BaseInit == Init => Base
<1> SUFFICES ASSUME Init PROVE Base
  OBVIOUS
<1>1. TypeOK
  BY TypeOKInit
<1> QED
  BY <1>1 DEF Init, Base, StoreAgrees, Fresh, Quiet, Started, NoFile

\* _transition saves what it sets, and sweeps nothing that is not terminal.
LEMMA TransitionAgrees ==
    ASSUME TypeOK, StoreAgrees, NEW d \in Ids, NEW t \in States,
           Transition(d, t), UNCHANGED <<phase, handle>>
    PROVE  StoreAgrees'
<1> SUFFICES ASSUME phase # "down", NEW e \in Ids
             PROVE  \/ disk'[e].state = state'[e] /\ disk'[e].handle = handle[e]
                    \/ state'[e] \in TERMINAL /\ disk'[e].state = "NONE"
  BY DEF StoreAgrees
<1>1. \/ disk[e].state = state[e] /\ disk[e].handle = handle[e]
      \/ state[e] \in TERMINAL /\ disk[e].state = "NONE"
  BY DEF StoreAgrees
<1>2. CASE state' = state /\ disk' = disk
  BY <1>1, <1>2
<1>3. CASE e = d /\ state'[d] = t /\ disk'[d] = [state |-> t, handle |-> handle[d]]
  BY <1>3
<1>4. CASE e # d /\ disk'[e] = disk[e] /\ state'[e] = state[e]
  BY <1>1, <1>4
<1>5. CASE e # d /\ disk[e].state \in TERMINAL /\ disk'[e] = NoFile /\ state'[e] = state[e]
  <2>1. disk'[e].state = "NONE"
    BY <1>5 DEF NoFile
  <2>2. state[e] \in TERMINAL
    BY <1>1, <1>5
  <2> QED
    BY <1>5, <2>1, <2>2
<1> QED
  BY <1>2, <1>3, <1>4, <1>5, TransitionEffect

LEMMA BaseNext == Base /\ [Next]_vars => Base'
<1> SUFFICES ASSUME Base, [Next]_vars PROVE Base'
  OBVIOUS
<1> USE DEF Base
<1>0. TypeOK'
  BY TypeOKNext
<1>1. StoreAgrees'
  <2>1. CASE Keeps
    BY <2>1 DEF Keeps, StoreAgrees
  <2>2. ASSUME NEW d \in Ids, NEW t \in Later, Moves(d, t) PROVE StoreAgrees'
    BY <2>2, TransitionAgrees DEF Moves, Later
  <2>3. ASSUME NEW d \in Ids, SaveHandle(d) PROVE StoreAgrees'
    BY <2>3 DEF SaveHandle, Saved, StoreAgrees, TypeOK
  <2>4. ASSUME NEW d \in Ids, NEW r \in Requests, Launch(d, r) PROVE StoreAgrees'
    <3>1. "LAUNCHING" \in States
      BY DEF States
    <3> QED
      BY <2>4, <3>1, TransitionAgrees DEF Launch
  <2>5. ASSUME NEW d \in Ids, NEW s \in States, Reconcile(d, s) PROVE StoreAgrees'
    BY <2>5 DEF Reconcile, Saved, StoreAgrees, TypeOK
  <2>6. CASE Crash
    BY <2>6 DEF Crash, StoreAgrees
  <2>7. CASE Boot
    BY <2>7 DEF Boot, StoreAgrees
  <2> QED
    BY <2>1, <2>2, <2>3, <2>4, <2>5, <2>6, <2>7, StepKinds
<1>2. Fresh'
  <2>1. CASE Keeps
    BY <2>1 DEF Keeps, Fresh
  <2>2. ASSUME NEW d \in Ids, NEW t \in Later, Moves(d, t) PROVE Fresh'
    <3>1. \A e \in Ids : state[e] = "NONE" => state'[e] = "NONE"
      BY <2>2, TransitionEffect, LegalArrows DEF Moves, Later, TypeOK
    <3>2. \A e \in Ids : state[e] # "NONE" => state'[e] # "NONE"
      BY <2>2, TransitionEffect DEF Moves, Later, States
    <3>3. \A e \in Ids : state[e] = "NONE" /\ disk[e] = NoFile => disk'[e] = NoFile
      BY <2>2, TransitionEffect, LegalArrows DEF Moves, Later, TypeOK
    <3> QED
      BY <2>2, <3>1, <3>2, <3>3 DEF Moves, Fresh, TypeOK
  <2>3. ASSUME NEW d \in Ids, SaveHandle(d) PROVE Fresh'
    BY <2>3 DEF SaveHandle, Saved, Fresh, TypeOK
  <2>4. ASSUME NEW d \in Ids, NEW r \in Requests, Launch(d, r) PROVE Fresh'
    <3>0. "LAUNCHING" \in States /\ "LAUNCHING" # "NONE"
      BY DEF States
    <3>1. /\ \A e \in Ids \ {d} : /\ state'[e] = state[e]
                                  /\ disk[e] = NoFile => disk'[e] = NoFile
          /\ state[d] # "NONE" => state'[d] # "NONE"
      BY <2>4, <3>0, TransitionEffect DEF Launch
    <3>2. req'[d] # NoRequest
      BY <2>4, RequestsAssumption DEF Launch, TypeOK
    <3>3. \A e \in Ids \ {d} : req'[e] = req[e] /\ worker'[e] = worker[e]
      BY <2>4 DEF Launch, TypeOK
    <3> QED
      BY <2>4, <3>1, <3>2, <3>3 DEF Launch, Fresh, TypeOK
  <2>5. ASSUME NEW d \in Ids, NEW s \in States, Reconcile(d, s) PROVE Fresh'
    <3>1. s # "NONE" /\ req[d] # NoRequest
      BY <2>5 DEF Reconcile, States, Fresh
    <3> QED
      BY <2>5, <3>1 DEF Reconcile, Saved, Fresh, TypeOK
  <2>6. CASE Crash
    BY <2>6 DEF Crash, Fresh
  <2>7. CASE Boot
    BY <2>7 DEF Boot, Fresh, NoFile, TERMINAL
  <2> QED
    BY <2>1, <2>2, <2>3, <2>4, <2>5, <2>6, <2>7, StepKinds
<1>3. Quiet'
  <2>1. CASE phase # "down"
    <3>1. CASE Crash
      BY <3>1 DEF Crash, Quiet
    <3>2. CASE ~Crash
      BY <2>1, <3>2, StepKinds
         DEF Keeps, Moves, SaveHandle, Launch, Reconcile, Boot, Quiet
    <3> QED
      BY <3>1, <3>2
  <2>2. CASE phase = "down" /\ Boot
    BY <2>2 DEF Boot, Quiet
  <2>3. CASE phase = "down" /\ \E d \in Ids : Load(d) \/ Die(d)
    BY <2>3 DEF Load, Die, memory, watch, Quiet
  <2>4. CASE UNCHANGED vars
    BY <2>4 DEF vars, Quiet
  <2> QED
    BY <2>1, <2>2, <2>3, <2>4, DownOnlyBoots
<1>4. Started'
  BY StepKinds
     DEF Keeps, Moves, SaveHandle, Launch, Reconcile, Crash, Boot, Started
<1> QED
  BY <1>0, <1>1, <1>2, <1>3, <1>4

THEOREM BaseHolds == Spec => []Base
<1>1. Init => Base
  BY BaseInit
<1>2. Base /\ [Next]_vars => Base'
  BY BaseNext
<1> QED
  BY <1>1, <1>2, PTL DEF Spec

\* Whatever instant the process dies at, the files are what memory was.
THEOREM StoreNeverBehind == Spec => []StoreAgrees
<1>1. Base => StoreAgrees
  BY DEF Base
<1> QED
  BY <1>1, BaseHolds, PTL

----------------------------------------------------------------------------
(* Claims: what a record that is not terminal keeps others from            *)

Committed(d) == Standing(d) \in Active

\* No step but launch() commits an id, none changes what an id was launched
\* with, and none lets go of two at once: a crash and a restart let go of none.
LEMMA OnlyLaunchCommits ==
    ASSUME Base, [Next]_vars, ~\E d \in Ids, r \in Requests : Launch(d, r)
    PROVE  /\ req' = req /\ port' = port
           /\ \A e \in Ids : Committed(e)' => Committed(e)
           /\ \A d, e \in Ids : /\ Committed(d) /\ ~Committed(d)'
                               /\ Committed(e) /\ ~Committed(e)'
                               => d = e
<1> USE DEF Base
<1> DEFINE Goal == /\ req' = req /\ port' = port
                   /\ \A e \in Ids : Committed(e)' => Committed(e)
                   /\ \A d, e \in Ids : /\ Committed(d) /\ ~Committed(d)'
                                       /\ Committed(e) /\ ~Committed(e)'
                                       => d = e
<1>1. CASE phase = "down" /\ ~Boot
  BY <1>1, DownOnlyBoots
     DEF Load, Die, vars, memory, watch, Committed, Standing, Active
<1>2. CASE phase # "down" /\ Keeps
  BY <1>2 DEF Keeps, Committed, Standing
<1>3. ASSUME phase # "down", NEW d \in Ids, NEW t \in Later, Moves(d, t) PROVE Goal
  <2>1. /\ \A e \in Ids \ {d} : state'[e] = state[e]
        /\ state'[d] = state[d] \/ t \in LEGAL[state[d]]
    BY <1>3, TransitionEffect DEF Moves, Later
  <2>2. t \in LEGAL[state[d]] => state[d] \in Active
    BY LegalArrows DEF TypeOK, Later, Active
  <2>3. UNCHANGED <<phase, req, port>>
    BY <1>3 DEF Moves
  <2> QED
    BY <1>3, <2>1, <2>2, <2>3 DEF Committed, Standing
<1>4. ASSUME phase # "down", NEW d \in Ids, SaveHandle(d) PROVE Goal
  BY <1>4 DEF SaveHandle, Committed, Standing
<1>5. ASSUME NEW d \in Ids, NEW s \in States, Reconcile(d, s) PROVE Goal
  <2>1. phase # "down" /\ UNCHANGED <<phase, req, port>>
    BY <1>5 DEF Reconcile
  <2>2. \A e \in Ids \ {d} : state'[e] = state[e]
    BY <1>5 DEF Reconcile, TypeOK
  <2>3. state[d] # "NONE" /\ state[d] \in States \cup {"NONE"}
    BY <1>5 DEF Reconcile, Fresh, TypeOK
  <2>4. state[d] \in TERMINAL => state'[d] = state[d]
    BY <1>5 DEF Reconcile, Evidence, TypeOK
  <2>5. state'[d] \in Active => state[d] \in Active
    BY <2>3, <2>4 DEF Active
  <2> QED
    BY <2>1, <2>2, <2>5 DEF Committed, Standing
<1>6. CASE Crash
  <2>1. phase # "down" /\ phase' = "down" /\ UNCHANGED <<req, port, disk>>
    BY <1>6 DEF Crash
  <2>2. \A e \in Ids : disk[e].state \in Active <=> state[e] \in Active
    BY <2>1 DEF StoreAgrees, Active, States, TERMINAL
  <2> QED
    BY <2>1, <2>2 DEF Committed, Standing
<1>7. CASE Boot
  <2>1. phase = "down" /\ phase' = "starting" /\ UNCHANGED <<req, port>>
    BY <1>7 DEF Boot
  <2>2. \A e \in Ids : /\ state'[e] = disk'[e].state
                       /\ \/ disk'[e] = disk[e]
                          \/ disk[e].state \in TERMINAL /\ disk'[e] = NoFile
    BY <1>7 DEF Boot
  <2>3. \A e \in Ids : disk[e].state \in Active <=> state'[e] \in Active
    BY <2>2 DEF NoFile, Active, States, TERMINAL
  <2> QED
    BY <2>1, <2>3 DEF Committed, Standing
<1> QED
  BY <1>1, <1>2, <1>3, <1>4, <1>5, <1>6, <1>7, StepKinds

\* launch() commits one id, to a request that clashes with no committed one
\* and on a port none of them has.
LEMMA LaunchCommits ==
    ASSUME Base, StartupWaits, NEW d \in Ids, NEW r \in Requests, Launch(d, r)
    PROVE  /\ phase' = phase /\ phase = "up"
           /\ ~Committed(d) /\ Committed(d)' /\ req'[d] = r
           /\ \A e \in Ids \ {d} :
                 /\ Committed(e)' <=> Committed(e)
                 /\ req'[e] = req[e] /\ port'[e] = port[e]
                 /\ Committed(e) => /\ req[e].name # r.name
                                    /\ req[e].model = r.model
                                          => req[e].nodes \cap r.nodes = {}
                                    /\ port[e] # port'[d]
<1> USE DEF Base
<1>1. phase = "up" /\ phase' = "up" /\ state[d] = "NONE" /\ pending = {}
  BY DEF Launch, Fresh, Started
<1>2. /\ state'[d] = "LAUNCHING"
      /\ \A e \in Ids \ {d} : state'[e] = state[e]
  <2>1. "LAUNCHING" \in States /\ "LAUNCHING" \in LEGAL[state[d]]
    BY <1>1 DEF States, LEGAL
  <2>2. Transition(d, "LAUNCHING")
    BY DEF Launch
  <2> QED
    BY <2>1, <2>2 DEF Transition, TypeOK
<1>3. ~Committed(d) /\ Committed(d)'
  BY <1>1, <1>2 DEF Committed, Standing, Active, States, TERMINAL
<1>4. \A e \in Ids \ {d} : Committed(e)' <=> Committed(e)
  BY <1>1, <1>2 DEF Committed, Standing
<1>5. /\ req'[d] = r
      /\ \A e \in Ids \ {d} : req'[e] = req[e] /\ port'[e] = port[e]
  BY DEF Launch, TypeOK
<1>6. \A e \in Ids : Committed(e) => e \in Live
  BY <1>1 DEF Committed, Standing, Active, Live, Records, States
<1>7. \A e \in Live : /\ req[e].name # r.name
                      /\ req[e].model = r.model => req[e].nodes \cap r.nodes = {}
  BY DEF Launch, Conflict
<1>8. \A e \in Live : port[e] # port'[d]
  BY DEF Launch, AllocatedPort, TypeOK
<1> QED
  BY <1>1, <1>3, <1>4, <1>5, <1>6, <1>7, <1>8

LEMMA NoClashInit == Init => OneCopyPerNode /\ DistinctPorts
  BY DEF Init, OneCopyPerNode, DistinctPorts, Standing, Active, States

LEMMA NoClashNext ==
    StartupWaits => (Base /\ OneCopyPerNode /\ DistinctPorts /\ [Next]_vars
                     => OneCopyPerNode' /\ DistinctPorts')
<1> SUFFICES ASSUME StartupWaits, Base, OneCopyPerNode, DistinctPorts, [Next]_vars
             PROVE  OneCopyPerNode' /\ DistinctPorts'
  OBVIOUS
<1>0. \A d, e \in Ids : d # e /\ Committed(d) /\ Committed(e)
                        => ~Clash(d, e) /\ port[d] # port[e]
  BY DEF OneCopyPerNode, DistinctPorts, Committed
<1>1. SUFFICES \A d, e \in Ids : d # e /\ Committed(d)' /\ Committed(e)'
                                 => ~Clash(d, e)' /\ port'[d] # port'[e]
  BY DEF OneCopyPerNode, DistinctPorts, Committed
<1>2. CASE \E d \in Ids, r \in Requests : Launch(d, r)
  <2>1. PICK d \in Ids, r \in Requests : Launch(d, r)
    BY <1>2
  <2>2. \A e \in Ids \ {d} : Committed(e)' => /\ ~Clash(d, e)' /\ ~Clash(e, d)'
                                             /\ port'[e] # port'[d]
    BY <2>1, LaunchCommits DEF Clash
  <2>3. \A e, f \in Ids \ {d} :
           e # f /\ Committed(e)' /\ Committed(f)'
           => ~Clash(e, f)' /\ port'[e] # port'[f]
    BY <1>0, <2>1, LaunchCommits DEF Clash
  <2> QED
    BY <2>2, <2>3
<1>3. CASE ~\E d \in Ids, r \in Requests : Launch(d, r)
  BY <1>0, <1>3, OnlyLaunchCommits DEF Clash
<1> QED
  BY <1>2, <1>3

\* One node runs one copy of a model and one name is one deployment, if
\* start-up waits for reconcile(); it is not so if it does not.
THEOREM OneCopy == StartupWaits => (Spec => []OneCopyPerNode)
<1> SUFFICES ASSUME StartupWaits PROVE Spec => []OneCopyPerNode
  OBVIOUS
<1>1. Init => OneCopyPerNode /\ DistinctPorts
  BY NoClashInit
<1>2. Base /\ OneCopyPerNode /\ DistinctPorts /\ [Next]_vars
      => OneCopyPerNode' /\ DistinctPorts'
  BY NoClashNext
<1> QED
  BY <1>1, <1>2, BaseHolds, PTL DEF Spec

\* Under the same condition no two records that are not terminal share a port.
THEOREM PortsDistinct == StartupWaits => (Spec => []DistinctPorts)
<1> SUFFICES ASSUME StartupWaits PROVE Spec => []DistinctPorts
  OBVIOUS
<1>1. Init => OneCopyPerNode /\ DistinctPorts
  BY NoClashInit
<1>2. Base /\ OneCopyPerNode /\ DistinctPorts /\ [Next]_vars
      => OneCopyPerNode' /\ DistinctPorts'
  BY NoClashNext
<1> QED
  BY <1>1, <1>2, BaseHolds, PTL DEF Spec

----------------------------------------------------------------------------
(* The manager implements the table of claims                              *)

Held == [d \in Ids |-> IF Standing(d) \in Active THEN req[d] ELSE NoRequest]
Used == {d \in Ids : req[d] # NoRequest}

\* A step is a Claim if it is launch(), and a GiveUp or a stutter if not.
LEMMA ClaimsNext ==
    StartupWaits /\ Base /\ [Next]_vars => [Claims!Next]_<<Held, Used>>
<1> SUFFICES ASSUME StartupWaits, Base, [Next]_vars
             PROVE  [Claims!Next]_<<Held, Used>>
  OBVIOUS
<1> USE DEF Claims!Next, Claims!Claim, Claims!GiveUp, Claims!Excludes
<1>1. CASE \E d \in Ids, r \in Requests : Launch(d, r)
  <2>1. PICK d \in Ids, r \in Requests : Launch(d, r)
    BY <1>1
  <2>2. d \notin Used
    BY <2>1 DEF Launch, Used
  <2>3. r # NoRequest
    BY RequestsAssumption
  <2>4. Used' = Used \cup {d}
    BY <2>1, <2>3, LaunchCommits DEF Used
  <2>5. Held' = [Held EXCEPT ![d] = r]
    BY <2>1, LaunchCommits DEF Held, Committed
  <2>6. \A e \in Ids : Held[e] # NoRequest => ~Claims!Excludes(Held[e], r)
    BY <2>1, LaunchCommits DEF Held, Committed
  <2>7. Claims!Claim(d, r)
    BY <2>2, <2>4, <2>5, <2>6 DEF Held, Used
  <2> QED
    BY <2>7 DEF Held, Used
<1>2. CASE ~\E d \in Ids, r \in Requests : Launch(d, r)
  <2>1. Used' = Used
    BY <1>2, OnlyLaunchCommits DEF Used
  <2>2. CASE \E d \in Ids : Committed(d) /\ ~Committed(d)'
    <3>1. PICK d \in Ids : Committed(d) /\ ~Committed(d)'
      BY <2>2
    <3>2. \A e \in Ids \ {d} : Committed(e)' <=> Committed(e)
      BY <1>2, <3>1, OnlyLaunchCommits
    <3>3. Held' = [Held EXCEPT ![d] = NoRequest]
      BY <1>2, <3>1, <3>2, OnlyLaunchCommits DEF Held, Committed
    <3>4. req[d] # NoRequest
      BY <3>1 DEF Base, Fresh, Committed, Standing, Active, NoFile, States
    <3>5. Held[d] # NoRequest
      BY <3>1, <3>4 DEF Held, Committed
    <3> QED
      BY <2>1, <3>3, <3>5 DEF Held, Used
  <2>3. CASE \A d \in Ids : Committed(d) => Committed(d)'
    <3>1. \A d \in Ids : Committed(d)' <=> Committed(d)
      BY <1>2, <2>3, OnlyLaunchCommits
    <3>2. Held' = Held
      BY <1>2, <3>1, OnlyLaunchCommits DEF Held, Committed
    <3> QED
      BY <2>1, <3>2
  <2> QED
    BY <2>2, <2>3
<1> QED
  BY <1>1, <1>2

\* The manager with its threads, its store and its restarts is the table of
\* claims of DeployClaims, if start-up waits for reconcile().
THEOREM ClaimsImplemented == StartupWaits => (Spec => ImplementsClaims)
<1> SUFFICES ASSUME StartupWaits PROVE Spec => ImplementsClaims
  OBVIOUS
<1>1. Init => Claims!Init
  BY DEF Init, Claims!Init, Standing, Active, States
<1>2. Base /\ [Next]_vars => [Claims!Next]_<<Held, Used>>
  BY ClaimsNext
<1> QED
  BY <1>1, <1>2, BaseHolds, PTL DEF Spec, ImplementsClaims, Claims!Spec, Held, Used

----------------------------------------------------------------------------
(* The state machine                                                       *)

LEMMA FinalStep ==
    ASSUME Base, [Next]_vars, NEW d \in Ids, disk[d].state \in TERMINAL
    PROVE  disk'[d].state \in {disk[d].state, "NONE"}
<1> USE DEF Base
<1> DEFINE Goal == disk'[d].state \in {disk[d].state, "NONE"}
<1>0. phase # "down" => state[d] = disk[d].state
  BY DEF StoreAgrees, TERMINAL
<1>1. CASE phase = "down" /\ ~Boot
  BY <1>1, DownOnlyBoots DEF Load, Die, vars
<1>2. CASE Boot
  BY <1>2 DEF Boot, NoFile
<1>3. CASE Keeps \/ Crash
  BY <1>3 DEF Keeps, Crash
<1>4. ASSUME phase # "down", NEW e \in Ids, NEW t \in States, Transition(e, t)
      PROVE  Goal
  <2>1. t \notin LEGAL[state[d]]
    BY <1>0, <1>4, LegalArrows DEF TypeOK
  <2>2. disk'[d] = disk[d] \/ disk'[d] = NoFile
    BY <1>4, <2>1, TransitionEffect
  <2> QED
    BY <2>2 DEF NoFile
<1>5. ASSUME NEW e \in Ids, phase # "down", SaveHandle(e) PROVE Goal
  BY <1>0, <1>5 DEF SaveHandle, Saved, TypeOK
<1>6. ASSUME NEW e \in Ids, NEW s \in States, Reconcile(e, s) PROVE Goal
  BY <1>0, <1>6 DEF Reconcile, Saved, Evidence, TypeOK
<1> QED
  <2>1. "LAUNCHING" \in States /\ Later \subseteq States
    BY DEF States, Later
  <2> QED
    BY <1>1, <1>2, <1>3, <1>4, <1>5, <1>6, <2>1, StepKinds DEF Moves, Launch

\* A file that says FAILED or STOPPED says so until it is deleted.
THEOREM TerminalFinal == Spec => TerminalIsFinal
<1>1. Base /\ [Next]_vars =>
        [\A d \in Ids : disk[d].state \in TERMINAL
                        => disk'[d].state \in {disk[d].state, "NONE"}]_vars
  BY FinalStep
<1> QED
  BY <1>1, BaseHolds, PTL DEF Spec, TerminalIsFinal

LEMMA LegalStep ==
    ASSUME Base, [Next]_vars, NEW d \in Ids,
           d \in Records, d \notin pending', phase' # "down"
    PROVE  MayBecome(state[d], state'[d])
<1> USE DEF Base, MayBecome
<1>0. phase # "down"
  BY DEF Quiet, Records
<1>1. CASE Keeps \/ Crash \/ Boot
  BY <1>0, <1>1 DEF Keeps, Crash, Boot
<1>2. ASSUME NEW e \in Ids, NEW t \in States, Transition(e, t)
      PROVE  MayBecome(state[d], state'[d])
  BY <1>2, TransitionEffect
<1>3. ASSUME NEW e \in Ids, SaveHandle(e) PROVE MayBecome(state[d], state'[d])
  BY <1>3 DEF SaveHandle
<1>4. ASSUME NEW e \in Ids, NEW s \in States, Reconcile(e, s)
      PROVE  MayBecome(state[d], state'[d])
  BY <1>4 DEF Reconcile, Records, TypeOK
<1> QED
  <2>1. "LAUNCHING" \in States /\ Later \subseteq States
    BY DEF States, Later
  <2> QED
    BY <1>1, <1>2, <1>3, <1>4, <2>1, StepKinds DEF Moves, Launch

\* Only the arrows of fsm.LEGAL are ever taken while the process runs.
THEOREM OnlyLegalSteps == Spec => LegalSteps
<1>1. Base /\ [Next]_vars =>
        [\A d \in Ids : d \in Records /\ d \notin pending' /\ phase' # "down"
                        => MayBecome(state[d], state'[d])]_vars
  BY LegalStep
<1> QED
  BY <1>1, BaseHolds, PTL DEF Spec, LegalSteps

----------------------------------------------------------------------------
(* The starting gate                                                       *)

\* Where a worker is tells whether it is inside the gate: not before it has
\* passed _hold_starting, and still when it has only _release_starting to do.
GateInv ==
    /\ GateExact
    /\ \A d \in Ids : /\ worker[d] \in {"none", "gate"} => ~holds[d]
                      /\ worker[d] = "release" => holds[d]

\* A step that leaves the gate alone moves a worker only as its `finally` says.
LEMMA GateFrame ==
    ASSUME GateInv, UNCHANGED <<holds, starting, req>>,
           \A e \in Ids : \/ worker'[e] = worker[e]
                          \/ worker'[e] \in {"launch", "save", "wait", "ready", "fail"}
                          \/ worker'[e] = "release" /\ holds[e]
                          \/ worker'[e] = "none" /\ ~holds[e]
    PROVE  GateInv'
  BY DEF GateInv, GateExact

LEMMA GateInit == Init => GateInv
  BY DEF Init, GateInv, GateExact

LEMMA GateNext == Base /\ GateInv /\ [Next]_vars => GateInv'
<1> SUFFICES ASSUME Base, GateInv, [Next]_vars PROVE GateInv'
  OBVIOUS
<1>0. /\ worker \in [Ids -> WorkerSteps] /\ holds \in [Ids -> BOOLEAN]
      /\ req \in [Ids -> Requests \cup {NoRequest}]
  BY DEF Base, TypeOK
<1>1. ASSUME NEW d \in Ids, NEW r \in Requests, Launch(d, r) PROVE GateInv'
  <2>1. ~holds[d] /\ UNCHANGED <<holds, starting>>
    BY <1>1 DEF Launch, Base, Fresh, GateInv
  <2>2. worker'[d] = "gate" /\ \A e \in Ids \ {d} : worker'[e] = worker[e] /\ req'[e] = req[e]
    BY <1>0, <1>1 DEF Launch
  <2>3. \A e, f \in Ids : e # f /\ holds[e] /\ holds[f]
                          => req'[e].nodes \cap req'[f].nodes = {}
    BY <2>1, <2>2 DEF GateInv, GateExact
  <2>4. {req'[e].nodes : e \in {f \in Ids : holds[f]}}
        = {req[e].nodes : e \in {f \in Ids : holds[f]}}
    BY <2>1, <2>2
  <2> QED
    BY <2>1, <2>2, <2>3, <2>4 DEF GateInv, GateExact
<1>2. ASSUME NEW d \in Ids, HoldStarting(d) PROVE GateInv'
  <2>1. /\ starting \cap req[d].nodes = {} /\ starting' = starting \cup req[d].nodes
        /\ req' = req
    BY <1>2 DEF HoldStarting
  <2>2. /\ holds'[d] /\ worker'[d] = "launch"
        /\ \A e \in Ids \ {d} : holds'[e] = holds[e] /\ worker'[e] = worker[e]
    BY <1>0, <1>2 DEF HoldStarting
  <2>3. \A e \in Ids : holds[e] => req[e].nodes \subseteq starting
    BY DEF GateInv, GateExact
  <2>4. \A e, f \in Ids : e # f /\ holds'[e] /\ holds'[f]
                          => req[e].nodes \cap req[f].nodes = {}
    BY <2>1, <2>2, <2>3 DEF GateInv, GateExact
  <2>5. starting' = UNION {req[e].nodes : e \in {f \in Ids : holds'[f]}}
    <3>1. starting = UNION {req[e].nodes : e \in {f \in Ids : holds[f]}}
      BY DEF GateInv, GateExact
    <3>2. ~holds[d]
      BY <1>2 DEF HoldStarting, GateInv
    <3> QED
      BY <2>1, <2>2, <3>1, <3>2
  <2> QED
    BY <2>1, <2>2, <2>4, <2>5 DEF GateInv, GateExact
<1>3. ASSUME NEW d \in Ids, ReleaseStarting(d) PROVE GateInv'
  <2>1. holds[d] /\ starting' = starting \ req[d].nodes /\ req' = req
    BY <1>3 DEF ReleaseStarting, GateInv
  <2>2. /\ ~holds'[d] /\ worker'[d] = "none"
        /\ \A e \in Ids \ {d} : holds'[e] = holds[e] /\ worker'[e] = worker[e]
    BY <1>0, <1>3 DEF ReleaseStarting
  <2>3. \A e, f \in Ids : e # f /\ holds'[e] /\ holds'[f]
                          => req[e].nodes \cap req[f].nodes = {}
    BY <2>2 DEF GateInv, GateExact
  <2>4. starting' = UNION {req[e].nodes : e \in {f \in Ids : holds'[f]}}
    <3>1. starting = UNION {req[e].nodes : e \in {f \in Ids : holds[f]}}
      BY DEF GateInv, GateExact
    <3>2. \A e \in Ids \ {d} : holds[e] => req[e].nodes \cap req[d].nodes = {}
      BY <2>1 DEF GateInv, GateExact
    <3> QED
      BY <2>1, <2>2, <3>1, <3>2
  <2> QED
    BY <2>1, <2>2, <2>3, <2>4 DEF GateInv, GateExact
<1>4. ASSUME NEW d \in Ids, WorkerStep(d), ~HoldStarting(d), ~ReleaseStarting(d)
      PROVE  GateInv'
  <2>1. /\ \A e \in Ids \ {d} : worker'[e] = worker[e]
        /\ \/ worker'[d] \in {"launch", "save", "wait", "ready", "fail"}
           \/ worker'[d] = "release" /\ holds[d]
           \/ worker'[d] = "none" /\ ~holds[d]
    BY <1>0, <1>4 DEF WorkerStep, StartingTimeout, AdapterLaunch, SaveHandle,
       WaitReturns, ProbeReady, PublishReady, WaitGivesUp, FailLaunch, Ended
  <2>2. UNCHANGED <<holds, starting, req>>
    BY <1>4 DEF WorkerStep, StartingTimeout, AdapterLaunch, SaveHandle,
       WaitReturns, ProbeReady, PublishReady, WaitGivesUp, FailLaunch
  <2> QED
    BY <2>1, <2>2, GateFrame
<1>5. ASSUME NEW d \in Ids, NEW c \in StopThreads,
             StopBegin(d, c) \/ StopStep(d, c) \/ StopRaises(d, c)
      PROVE  GateInv'
  <2>1. UNCHANGED <<holds, starting, req, worker>>
    BY <1>5 DEF StopBegin, StopStep, StopRaises, StopAbort, StopSettle, StopTear,
       StopConfirmed, StopUnconfirmed, StopKill, StopFinish
  <2> QED
    BY <2>1, GateFrame
<1>6. CASE TickBegin \/ \E d \in Ids : TickRecord(d)
  <2>1. UNCHANGED <<holds, starting, req, worker>>
    BY <1>6 DEF TickBegin, TickRecord
  <2> QED
    BY <2>1, GateFrame
<1>7. CASE Close \/ Boot \/ Bind \/ \E d \in Ids : Load(d) \/ Die(d)
  <2>1. UNCHANGED <<holds, starting, req, worker>>
    BY <1>7 DEF Close, Boot, Bind, Load, Die
  <2> QED
    BY <2>1, GateFrame
<1>8. CASE Crash
  BY <1>8 DEF Crash, GateInv, GateExact
<1>9. ASSUME NEW d \in Ids, NEW s \in States, Reconcile(d, s) PROVE GateInv'
  <2>1. UNCHANGED <<holds, starting, req>>
    BY <1>9 DEF Reconcile
  <2>2. \A e \in Ids : worker'[e] = worker[e] \/ worker'[e] = "wait"
    BY <1>0, <1>9 DEF Reconcile
  <2> QED
    BY <2>1, <2>2, GateFrame
<1>10. CASE UNCHANGED vars
  <2>1. UNCHANGED <<holds, starting, req, worker>>
    BY <1>10 DEF vars
  <2> QED
    BY <2>1, GateFrame
<1> QED
  BY <1>1, <1>2, <1>3, <1>4, <1>5, <1>6, <1>7, <1>8, <1>9, <1>10 DEF Next

\* Workers inside the gate hold different nodes, and the gate is shut on their
\* nodes and no others: no path out of _launch_worker leaks a node.
THEOREM GateIsExact == Spec => []GateExact
<1>1. Init => GateInv
  BY GateInit
<1>2. Base /\ GateInv /\ [Next]_vars => GateInv'
  BY GateNext
<1>3. GateInv => GateExact
  BY DEF GateInv
<1> QED
  BY <1>1, <1>2, <1>3, BaseHolds, PTL DEF Spec

----------------------------------------------------------------------------
(* Handles                                                                 *)

\* The states a record reaches only after its backend was heard from.
Owned == SERVING \cup {"STOPPING", "STOPPED"}

\* A record in one of them knows its container, in memory and on disk, and a
\* record that knows its container has no launch under way.
HandleInv ==
    /\ \A d \in Ids : state[d] \in Owned => handle[d]
    /\ \A d \in Ids : disk[d].state \in Owned => disk[d].handle
    /\ \A d \in Ids : handle[d] => worker[d] \notin {"gate", "launch", "save"}
    /\ \A d \in Ids : worker[d] = "ready" => handle[d]

\* A transition keeps it if it asks for one of those states with the handle known.
LEMMA HandleTransition ==
    ASSUME TypeOK, HandleInv, NEW d \in Ids, NEW t \in States, Transition(d, t),
           t \in Owned => handle[d], UNCHANGED handle,
           \A e \in Ids : worker'[e] \in {worker[e], "none", "release"}
    PROVE  HandleInv'
<1>1. \A e \in Ids : state'[e] \in Owned => handle[e]
  <2>1. \A e \in Ids : state'[e] = state[e] \/ (e = d /\ state'[d] = t)
    BY TransitionEffect
  <2> QED
    BY <2>1 DEF HandleInv
<1>2. ASSUME NEW e \in Ids, disk'[e].state \in Owned PROVE disk'[e].handle
  <2>1. CASE disk'[e] = disk[e]
    BY <1>2, <2>1 DEF HandleInv
  <2>2. CASE disk'[e] = NoFile
    BY <1>2, <2>2 DEF NoFile, Owned, SERVING
  <2>3. CASE e = d /\ disk'[d] = [state |-> t, handle |-> handle[d]]
    BY <1>2, <2>3
  <2> QED
    BY <2>1, <2>2, <2>3, TransitionEffect
<1> QED
  BY <1>1, <1>2 DEF HandleInv

\* A step that does nothing to the records keeps it if it starts no launch.
LEMMA HandleFrame ==
    ASSUME HandleInv, UNCHANGED <<state, disk, handle>>,
           \A e \in Ids :
              \/ worker'[e] \in {worker[e], "none", "wait", "fail", "release"}
              \/ worker'[e] = "ready" /\ handle[e]
              \/ worker[e] \in {"gate", "launch", "save"} /\ worker'[e] # "ready"
    PROVE  HandleInv'
  BY DEF HandleInv

LEMMA HandleInit == Init => HandleInv
  BY DEF Init, HandleInv, NoFile, Owned, SERVING

LEMMA HandleWorker ==
    ASSUME Base, HandleInv, NEW d \in Ids, WorkerStep(d)
    PROVE  HandleInv'
<1>0. TypeOK /\ worker \in [Ids -> WorkerSteps] /\ handle \in [Ids -> BOOLEAN]
  BY DEF Base, TypeOK
<1> USE DEF memory
<1>1. CASE HoldStarting(d) \/ StartingTimeout(d) \/ AdapterLaunch(d)
  <2>1. UNCHANGED <<state, disk, handle>>
    BY <1>1 DEF HoldStarting, StartingTimeout, AdapterLaunch
  <2>2. /\ \A e \in Ids \ {d} : worker'[e] = worker[e]
        /\ worker[d] \in {"gate", "launch"} /\ worker'[d] # "ready"
    BY <1>0, <1>1 DEF HoldStarting, StartingTimeout, AdapterLaunch
  <2> QED
    BY <2>1, <2>2, HandleFrame
<1>2. CASE SaveHandle(d)
  <2>1. /\ handle'[d] /\ \A e \in Ids \ {d} : handle'[e] = handle[e]
        /\ worker'[d] = "wait" /\ \A e \in Ids \ {d} : worker'[e] = worker[e]
        /\ state' = state
    BY <1>0, <1>2 DEF SaveHandle
  <2>2. /\ disk'[d] = [state |-> state[d], handle |-> TRUE]
        /\ \A e \in Ids \ {d} : disk'[e] = disk[e]
    BY <1>0, <1>2 DEF SaveHandle, Saved, TypeOK
  <2>3. \A e \in Ids : disk'[e].state \in Owned => disk'[e].handle
    <3>1. disk'[d].handle
      BY <2>2
    <3> QED
      BY <2>2, <3>1 DEF HandleInv
  <2> QED
    BY <2>1, <2>3 DEF HandleInv
<1>3. CASE WaitReturns(d) \/ ProbeReady(d) \/ WaitGivesUp(d) \/ ReleaseStarting(d)
  <2>1. UNCHANGED <<state, disk, handle>>
    BY <1>3 DEF WaitReturns, ProbeReady, WaitGivesUp, ReleaseStarting
  <2>2. /\ \A e \in Ids \ {d} : worker'[e] = worker[e]
        /\ \/ worker'[d] \in {"none", "fail", "release"}
           \/ worker'[d] = "ready" /\ handle[d]
    BY <1>0, <1>3 DEF WaitReturns, ProbeReady, WaitGivesUp, ReleaseStarting, Ended
  <2> QED
    BY <2>1, <2>2, HandleFrame
<1>4. CASE PublishReady(d)
  <2>1. handle[d] /\ "READY" \in States /\ UNCHANGED handle /\ Transition(d, "READY")
    BY <1>4 DEF PublishReady, HandleInv, States
  <2>2. \A e \in Ids : worker'[e] \in {worker[e], "none", "release"}
    BY <1>0, <1>4 DEF PublishReady, Ended
  <2> QED
    BY <1>0, <2>1, <2>2, HandleTransition
<1>5. CASE FailLaunch(d)
  <2>1. "FAILED" \in States /\ "FAILED" \notin Owned /\ UNCHANGED handle
    BY <1>5 DEF FailLaunch, States, Owned, SERVING
  <2>2. \A e \in Ids : worker'[e] \in {worker[e], "none", "release"}
    BY <1>0, <1>5 DEF FailLaunch, Ended
  <2>3. Transition(d, "FAILED") \/ UNCHANGED <<state, disk>>
    BY <1>5 DEF FailLaunch
  <2> QED
    BY <1>0, <2>1, <2>2, <2>3, HandleTransition, HandleFrame
<1> QED
  BY <1>1, <1>2, <1>3, <1>4, <1>5 DEF WorkerStep

LEMMA HandleNext == Base /\ HandleInv /\ [Next]_vars => HandleInv'
<1> SUFFICES ASSUME Base, HandleInv, [Next]_vars PROVE HandleInv'
  OBVIOUS
<1>0. TypeOK /\ worker \in [Ids -> WorkerSteps] /\ handle \in [Ids -> BOOLEAN]
  BY DEF Base, TypeOK
<1> USE DEF memory
<1>1. ASSUME NEW d \in Ids, NEW r \in Requests, Launch(d, r) PROVE HandleInv'
  <2>1. ~handle[d] /\ handle' = handle
    BY <1>1 DEF Launch, Base, Fresh
  <2>2. worker'[d] = "gate" /\ \A e \in Ids \ {d} : worker'[e] = worker[e]
    BY <1>0, <1>1 DEF Launch
  <2>3. /\ \A e \in Ids : state'[e] \in Owned => handle[e]
        /\ \A e \in Ids : disk'[e].state \in Owned => disk'[e].handle
    <3>1. "LAUNCHING" \in States /\ "LAUNCHING" \notin Owned /\ Transition(d, "LAUNCHING")
      BY <1>1 DEF Launch, States, Owned, SERVING
    <3>2. \A e \in Ids : \/ disk'[e] = disk[e] \/ disk'[e] = NoFile
                         \/ disk'[e].state = "LAUNCHING"
      <4>1. \A e \in Ids \ {d} : disk'[e] = disk[e] \/ disk'[e] = NoFile
        BY <1>0, <3>1, TransitionEffect
      <4>2. \/ disk'[d] = [state |-> "LAUNCHING", handle |-> handle[d]]
            \/ disk'[d] = disk[d]
        BY <1>0, <3>1, TransitionEffect
      <4>3. disk'[d].state = "LAUNCHING" \/ disk'[d] = disk[d]
        BY <4>2
      <4> QED
        BY <4>1, <4>3
    <3>3. NoFile.state \notin Owned
      BY DEF NoFile, Owned, SERVING
    <3>4. \A e \in Ids : state'[e] = state[e] \/ state'[e] = "LAUNCHING"
      BY <1>0, <3>1, TransitionEffect
    <3> QED
      BY <3>1, <3>2, <3>3, <3>4 DEF HandleInv
  <2> QED
    BY <2>1, <2>2, <2>3 DEF HandleInv
<1>2. ASSUME NEW d \in Ids, NEW c \in StopThreads,
             StopBegin(d, c) \/ StopStep(d, c) \/ StopRaises(d, c)
      PROVE  HandleInv'
  <2>1. UNCHANGED <<handle, worker>>
    BY <1>2 DEF StopBegin, StopStep, StopRaises, StopAbort, StopSettle, StopTear,
       StopConfirmed, StopUnconfirmed, StopKill, StopFinish
  <2>2. CASE UNCHANGED <<state, disk>>
    BY <2>1, <2>2, HandleFrame
  <2>3. CASE Transition(d, "FAILED")
    BY <1>0, <2>1, <2>3, HandleTransition DEF States, Owned, SERVING
  <2>4. CASE StopBegin(d, c) /\ Transition(d, "STOPPING") /\ state[d] \in SERVING \cup {"STOPPING"}
    <3>1. handle[d] /\ "STOPPING" \in States
      BY <2>4 DEF HandleInv, Owned, States
    <3> QED
      BY <1>0, <2>1, <2>4, <3>1, HandleTransition
  <2>5. CASE StopFinish(d, c) /\ Transition(d, "STOPPED")
    <3>1. CASE state[d] = "STOPPING"
      BY <1>0, <2>1, <2>5, <3>1, HandleTransition DEF HandleInv, Owned, States
    <3>2. CASE state[d] # "STOPPING"
      <4>1. "STOPPED" \notin LEGAL[state[d]]
        BY <1>0, <3>2, LegalArrows DEF TypeOK
      <4> QED
        BY <2>2, <2>5, <4>1 DEF Transition
    <3> QED
      BY <3>1, <3>2
  <2> QED
    BY <1>2, <2>2, <2>3, <2>4, <2>5 DEF StopBegin, StopStep, StopRaises, StopAbort,
       StopSettle, StopTear, StopConfirmed, StopUnconfirmed, StopKill, StopFinish
<1>3. ASSUME NEW d \in Ids, TickRecord(d) PROVE HandleInv'
  <2>1. UNCHANGED <<handle, worker>>
    BY <1>3 DEF TickRecord
  <2>2. \/ UNCHANGED <<state, disk>>
        \/ \E t \in {"DEGRADED", "READY"} : Transition(d, t) /\ state[d] \in SERVING
        \/ Transition(d, "FAILED")
    BY <1>3 DEF TickRecord
  <2>3. \A t \in {"DEGRADED", "READY", "FAILED"} : t \in States
    BY DEF States
  <2>4. "FAILED" \notin Owned /\ (state[d] \in SERVING => handle[d])
    BY DEF HandleInv, Owned, SERVING
  <2> QED
    BY <1>0, <2>1, <2>2, <2>3, <2>4, HandleFrame, HandleTransition
<1>4. CASE TickBegin \/ Close \/ Bind \/ \E d \in Ids : Load(d) \/ Die(d)
  <2>1. UNCHANGED <<state, disk, handle, worker>>
    BY <1>4 DEF TickBegin, Close, Bind, Load, Die
  <2> QED
    BY <2>1, HandleFrame
<1>5. CASE Crash
  BY <1>5 DEF Crash, HandleInv, Owned, SERVING
<1>6. CASE Boot
  <2>1. \A e \in Ids : /\ state'[e] = disk'[e].state /\ handle'[e] = disk'[e].handle
                       /\ worker'[e] = "none"
    BY <1>6 DEF Boot, Base, Quiet
  <2>2. \A e \in Ids : disk'[e] = disk[e] \/ disk'[e] = NoFile
    BY <1>6 DEF Boot
  <2>3. NoFile.state \notin Owned
    BY DEF NoFile, Owned, SERVING
  <2>4. \A e \in Ids : disk'[e].state \in Owned => disk'[e].handle
    BY <2>2, <2>3 DEF HandleInv
  <2> QED
    BY <2>1, <2>4 DEF HandleInv
<1>7. ASSUME NEW d \in Ids, NEW s \in States, Reconcile(d, s) PROVE HandleInv'
  <2>1. /\ handle' = handle /\ state'[d] = s
        /\ disk'[d] = [state |-> s, handle |-> handle[d]]
        /\ worker'[d] = worker[d] \/ worker'[d] = "wait"
        /\ \A e \in Ids \ {d} : /\ state'[e] = state[e] /\ disk'[e] = disk[e]
                                /\ worker'[e] = worker[e]
    BY <1>0, <1>7 DEF Reconcile, Saved, TypeOK
  <2>2. s \in Owned => handle[d]
    <3>1. s \in Evidence(d)
      BY <1>7 DEF Reconcile
    <3>2. CASE state[d] \in Owned
      BY <3>2 DEF HandleInv
    <3>3. CASE state[d] \notin Owned
      BY <3>1, <3>3 DEF Evidence, Owned, SERVING, TERMINAL
    <3> QED
      BY <3>2, <3>3
  <2>3. disk'[d].state = s /\ disk'[d].handle = handle[d]
    BY <2>1
  <2>4. \A e \in Ids : disk'[e].state \in Owned => disk'[e].handle
    BY <2>1, <2>2, <2>3 DEF HandleInv
  <2> QED
    BY <2>1, <2>2, <2>4 DEF HandleInv
<1>8. CASE UNCHANGED vars
  BY <1>8, HandleFrame DEF vars
<1> QED
  BY <1>1, <1>2, <1>3, <1>4, <1>5, <1>6, <1>7, <1>8, HandleWorker DEF Next

----------------------------------------------------------------------------
(* What a stop thread knows                                                *)

Tearing == {"tear", "confirm", "kill", "finish"}

\* A thread that tears a record down has the container's id, and when it is
\* about to say STOPPED the container is gone or a human has been told.
StopKnows ==
    \A d \in Ids, c \in StopThreads :
        /\ stops[d][c].step \in Tearing => handle[d] /\ stops[d][c].cid
        /\ stops[d][c].step = "finish" => ~Running(d) \/ escalated[d]

\* A container comes up only under a launch, and no escalation is taken back.
LEMMA OnlyLaunchRuns ==
    ASSUME Base, [Next]_vars, NEW d \in Ids
    PROVE  /\ Running(d)' /\ ~Running(d) => worker[d] = "launch"
           /\ escalated[d] => escalated'[d]
<1> DEFINE Goal == /\ Running(d)' /\ ~Running(d) => worker[d] = "launch"
                   /\ escalated[d] => escalated'[d]
<1>0. workload \in [Ids -> Workloads] /\ escalated \in [Ids -> BOOLEAN]
  BY DEF Base, TypeOK
<1>1. CASE UNCHANGED <<workload, escalated>>
  BY <1>1 DEF Running
<1>2. ASSUME NEW e \in Ids, AdapterLaunch(e) PROVE Goal
  BY <1>0, <1>2 DEF AdapterLaunch, Running
<1>3. ASSUME NEW e \in Ids, NEW c \in StopThreads, StopStep(e, c) PROVE Goal
  <2>1. AdapterStop(e) \/ UNCHANGED workload
    BY <1>3 DEF StopStep, StopAbort, StopSettle, StopTear, StopConfirmed,
       StopUnconfirmed, StopKill, StopFinish
  <2>2. UNCHANGED escalated \/ escalated' = [escalated EXCEPT ![e] = TRUE]
    BY <1>3 DEF StopStep, StopAbort, StopSettle, StopTear, StopConfirmed,
       StopUnconfirmed, StopKill, StopFinish
  <2> QED
    BY <1>0, <2>1, <2>2 DEF AdapterStop, Running
<1>4. ASSUME NEW e \in Ids, Load(e) \/ Die(e) PROVE Goal
  BY <1>0, <1>4 DEF Load, Die, Running
<1>5. CASE Crash
  BY <1>0, <1>5 DEF Crash, Running
<1>6. ASSUME NEW e \in Ids, WorkerStep(e), ~AdapterLaunch(e) PROVE Goal
  BY <1>1, <1>6 DEF WorkerStep, HoldStarting, StartingTimeout, SaveHandle,
     WaitReturns, ProbeReady, PublishReady, WaitGivesUp, FailLaunch, ReleaseStarting
<1>7. ASSUME NEW e \in Ids, NEW c \in StopThreads, StopBegin(e, c) \/ StopRaises(e, c)
      PROVE  Goal
  BY <1>1, <1>7 DEF StopBegin, StopRaises
<1>8. CASE \/ TickBegin \/ Close \/ Boot \/ Bind \/ UNCHANGED vars
           \/ \E e \in Ids : TickRecord(e)
           \/ \E e \in Ids, s \in States : Reconcile(e, s)
           \/ \E e \in Ids, r \in Requests : Launch(e, r)
  BY <1>1, <1>8 DEF TickBegin, Close, Boot, Bind, vars, TickRecord, Reconcile, Launch
<1> QED
  BY <1>2, <1>3, <1>4, <1>5, <1>6, <1>7, <1>8 DEF Next

\* So a container that is down and known stays down.
LEMMA KnownStaysDown ==
    ASSUME Base, HandleInv, [Next]_vars, NEW d \in Ids, handle[d],
           ~Running(d) \/ escalated[d]
    PROVE  (~Running(d) \/ escalated[d])'
  BY OnlyLaunchRuns DEF HandleInv

\* A stop thread that is not the one that moves knows what it knew.
LEMMA StopOthers ==
    ASSUME Base, HandleInv, StopKnows, [Next]_vars,
           NEW d \in Ids, NEW c \in StopThreads, stops'[d][c] = stops[d][c],
           handle[d] => handle'[d]
    PROVE  /\ stops'[d][c].step \in Tearing => handle'[d] /\ stops'[d][c].cid
           /\ stops'[d][c].step = "finish" => (~Running(d) \/ escalated[d])'
  BY KnownStaysDown DEF StopKnows, Tearing

\* A step of one stop thread.
LEMMA StopKnowsStop ==
    ASSUME Base, HandleInv, StopKnows, NEW d \in Ids, NEW c \in StopThreads,
           StopBegin(d, c) \/ StopStep(d, c) \/ StopRaises(d, c)
    PROVE  StopKnows'
<1>0. Next /\ escalated \in [Ids -> BOOLEAN]
  BY DEF Next, Base, TypeOK
<1>00. stops \in StopTable
  BY DEF Base, TypeOK, StopTable
<1>1. UNCHANGED handle
  BY DEF memory, StopBegin, StopStep, StopRaises, StopAbort, StopSettle, StopTear,
     StopConfirmed, StopUnconfirmed, StopKill, StopFinish
<1> DEFINE Mover == /\ stops'[d][c].step \in Tearing => handle[d] /\ stops'[d][c].cid
                    /\ stops'[d][c].step = "finish" => (~Running(d) \/ escalated[d])'
           Rest == \A e \in Ids, b \in StopThreads :
                      e # d \/ b # c => stops'[e][b] = stops[e][b]
<1>2. SUFFICES Mover /\ Rest
  BY <1>0, <1>1, StopOthers DEF StopKnows
<1>3. CASE StopReturns(d, c)
  <2>1. stops'[d][c] = Idle /\ Rest
    BY <1>00, <1>3, StopSetEffect, IdleType DEF StopReturns
  <2>2. stops'[d][c].step = "idle"
    BY <2>1 DEF Idle
  <2> QED
    BY <2>1, <2>2 DEF Tearing
<1>4. CASE StopBegin(d, c) /\ ~StopReturns(d, c)
  <2>1. PICK step \in {"abort", "tear"} :
           /\ stops' = [stops EXCEPT ![d][c] = [step |-> step, cid |-> handle[d]]]
           /\ step = "tear" => state[d] \in SERVING \cup {"STOPPING"}
    BY <1>4 DEF StopBegin
  <2> DEFINE v == [step |-> step, cid |-> handle[d]]
  <2>2. /\ v \in [step : StopSteps, cid : BOOLEAN]
        /\ stops' = [stops EXCEPT ![d][c] = v]
    BY <2>1 DEF StopSteps, Base, TypeOK
  <2>3. stops'[d][c] = v /\ Rest
    <3> HIDE DEF v
    <3> QED
      BY <1>00, <2>2, StopSetEffect
  <2>4. step = "tear" => handle[d]
    BY <2>1 DEF HandleInv, Owned
  <2>5. stops'[d][c].step = step /\ stops'[d][c].cid = handle[d]
    BY <2>3
  <2> QED
    BY <2>3, <2>4, <2>5 DEF Tearing
<1>5. ASSUME NEW s \in StopSteps, StopGoes(d, c, s),
             s \in Tearing => handle[d] /\ stops[d][c].cid,
             s = "finish" => (~Running(d) \/ escalated[d])'
      PROVE  Mover /\ Rest
  <2>1. stops'[d][c] = [step |-> s, cid |-> stops[d][c].cid] /\ Rest
    BY <1>00, <1>5, StopGoesEffect
  <2>2. stops'[d][c].step = s /\ stops'[d][c].cid = stops[d][c].cid
    BY <2>1
  <2> QED
    BY <1>5, <2>1, <2>2
<1>6. CASE StopAbort(d, c)
  BY <1>5, <1>6 DEF StopAbort, StopSteps, Tearing
<1>7. CASE StopTear(d, c)
  <2>1. handle[d] /\ stops[d][c].cid
    BY <1>7 DEF StopTear, At, StopKnows, Tearing
  <2>2. StopGoes(d, c, "confirm")
    BY <1>7, <2>1 DEF StopTear
  <2> QED
    BY <1>5, <2>1, <2>2 DEF StopSteps
<1>8. CASE StopConfirmed(d, c)
  <2>1. handle[d] /\ stops[d][c].cid
    BY <1>8 DEF StopConfirmed, At, StopKnows, Tearing
  <2>2. StopGoes(d, c, "finish") /\ ~Running(d)'
    BY <1>8 DEF StopConfirmed, Running
  <2> QED
    BY <1>5, <2>1, <2>2 DEF StopSteps
<1>9. CASE StopUnconfirmed(d, c)
  <2>1. handle[d] /\ stops[d][c].cid
    BY <1>9 DEF StopUnconfirmed, At, StopKnows, Tearing
  <2>2. StopGoes(d, c, "kill")
    BY <1>9 DEF StopUnconfirmed
  <2> QED
    BY <1>5, <2>1, <2>2 DEF StopSteps
<1>10. CASE StopKill(d, c)
  <2>1. handle[d] /\ stops[d][c].cid
    BY <1>10 DEF StopKill, At, StopKnows, Tearing
  <2>2. StopGoes(d, c, "finish") /\ escalated'[d]
    BY <1>0, <1>10 DEF StopKill
  <2> QED
    BY <1>5, <2>1, <2>2 DEF StopSteps
<1> QED
  BY <1>3, <1>4, <1>6, <1>7, <1>8, <1>9, <1>10
     DEF StopStep, StopSettle, StopFinish, StopRaises

LEMMA StopKnowsNext == Base /\ HandleInv /\ StopKnows /\ [Next]_vars => StopKnows'
<1> SUFFICES ASSUME Base, HandleInv, StopKnows, [Next]_vars PROVE StopKnows'
  OBVIOUS
<1>0. TypeOK
  BY DEF Base
<1>1. CASE stops' = stops /\ \A e \in Ids : handle[e] => handle'[e]
  BY <1>1, StopOthers DEF StopKnows
<1>2. ASSUME NEW d \in Ids, NEW c \in StopThreads,
             StopBegin(d, c) \/ StopStep(d, c) \/ StopRaises(d, c)
      PROVE  StopKnows'
  BY <1>2, StopKnowsStop
<1>3. CASE Crash
  BY <1>3 DEF Crash, Idle, StopKnows, Tearing
<1>4. CASE Boot
  BY <1>4 DEF Boot, Base, Quiet, Idle, StopKnows, Tearing
<1>5. ASSUME NEW d \in Ids, NEW s \in States, Reconcile(d, s) PROVE StopKnows'
  <2>1. UNCHANGED handle
    BY <1>5 DEF Reconcile
  <2>2. CASE s # "STOPPING"
    BY <1>1, <1>5, <2>1, <2>2 DEF Reconcile
  <2>3. CASE s = "STOPPING"
    <3> DEFINE v == [step |-> "begin", cid |-> FALSE]
    <3>2. stops' = [stops EXCEPT ![d][Finisher] = v]
      BY <1>5, <2>3 DEF Reconcile
    <3>3. /\ stops \in StopTable /\ Finisher \in StopThreads
          /\ v \in [step : StopSteps, cid : BOOLEAN]
      BY <1>0 DEF StopTable, StopThreads, StopSteps, TypeOK
    <3>4. /\ stops'[d][Finisher] = v
          /\ \A e \in Ids, b \in StopThreads :
                e # d \/ b # Finisher => stops'[e][b] = stops[e][b]
      <4> HIDE DEF v
      <4> QED
        BY <3>2, <3>3, StopSetEffect
    <3>5. stops'[d][Finisher].step = "begin"
      BY <3>4
    <3> QED
      BY <2>1, <3>4, <3>5, StopOthers DEF StopKnows, Tearing
  <2> QED
    BY <2>2, <2>3
<1>6. ASSUME NEW d \in Ids, WorkerStep(d) PROVE StopKnows'
  <2>1. stops' = stops
    BY <1>6 DEF WorkerStep, HoldStarting, StartingTimeout, AdapterLaunch, SaveHandle,
       WaitReturns, ProbeReady, PublishReady, WaitGivesUp, FailLaunch, ReleaseStarting
  <2>2. \A e \in Ids : handle[e] => handle'[e]
    <3>1. UNCHANGED handle \/ handle' = [handle EXCEPT ![d] = TRUE]
      BY <1>6 DEF memory, WorkerStep, HoldStarting, StartingTimeout, AdapterLaunch,
         SaveHandle, WaitReturns, ProbeReady, PublishReady, WaitGivesUp, FailLaunch,
         ReleaseStarting
    <3> QED
      BY <1>0, <3>1 DEF TypeOK
  <2> QED
    BY <1>1, <2>1, <2>2
<1>7. CASE \/ TickBegin \/ Close \/ Bind \/ UNCHANGED vars
           \/ \E d \in Ids : TickRecord(d) \/ Load(d) \/ Die(d)
           \/ \E d \in Ids, r \in Requests : Launch(d, r)
  <2>1. UNCHANGED <<stops, handle>>
    BY <1>7 DEF TickBegin, Close, Bind, vars, TickRecord, Load, Die, Launch, memory
  <2> QED
    BY <1>1, <2>1
<1> QED
  BY <1>2, <1>3, <1>4, <1>5, <1>6, <1>7 DEF Next

\* A record comes to be STOPPED by the last region of stop(), or by reconcile().
LEMMA OnlyFinishStops ==
    ASSUME Base, [Next]_vars, NEW d \in Ids,
           Standing(d)' = "STOPPED", Standing(d) # "STOPPED"
    PROVE  (\E c \in StopThreads : StopFinish(d, c)) \/ Reconcile(d, "STOPPED")
<1>0. TypeOK /\ "STOPPED" # "NONE"
  BY DEF Base
<1>1. phase # "down" \/ Boot
  BY DownOnlyBoots DEF Base, Load, Die, vars, memory, watch, Standing
<1>2. ~Boot
  <2> SUFFICES ASSUME Boot PROVE FALSE
    OBVIOUS
  <2>1. disk[d].state # "STOPPED" /\ disk'[d].state = "STOPPED"
    BY DEF Boot, Standing
  <2>2. disk'[d] = disk[d] \/ disk'[d] = NoFile
    BY DEF Boot
  <2> QED
    BY <2>1, <2>2 DEF NoFile
<1>3. ~Crash
  BY <1>0 DEF Crash, Standing, Base, StoreAgrees
<1>4. phase # "down" /\ phase' # "down" /\ state[d] # "STOPPED" /\ state'[d] = "STOPPED"
  <2>1. phase' # "down"
    BY <1>1, <1>2, <1>3, <1>0, StepKinds
       DEF Keeps, Moves, SaveHandle, Launch, Reconcile
  <2> QED
    BY <1>1, <1>2, <2>1 DEF Standing
<1>5. ASSUME NEW e \in Ids, NEW t \in States, Transition(e, t), t # "STOPPED" PROVE FALSE
  BY <1>0, <1>4, <1>5, TransitionEffect
<1>6. ASSUME NEW e \in Ids, NEW c \in StopThreads, StopFinish(e, c)
      PROVE  StopFinish(d, c)
  <2>1. "STOPPED" \in States /\ Transition(e, "STOPPED")
    BY <1>6 DEF StopFinish, States
  <2>2. e = d
    BY <1>0, <1>4, <2>1, TransitionEffect
  <2> QED
    BY <1>6, <2>2
<1>7. ASSUME NEW e \in Ids, NEW s \in States, Reconcile(e, s)
      PROVE  Reconcile(d, "STOPPED")
  BY <1>0, <1>4, <1>7 DEF Reconcile, TypeOK
<1>8. {"READY", "FAILED", "DEGRADED", "STOPPING", "LAUNCHING"} \subseteq States \ {"STOPPED"}
  BY DEF States
<1>9. state' # state
  BY <1>4
<1>10. \A e \in Ids : ~WorkerStep(e)
  BY <1>5, <1>8, <1>9 DEF memory, WorkerStep, HoldStarting, StartingTimeout,
     AdapterLaunch, SaveHandle, WaitReturns, ProbeReady, PublishReady, WaitGivesUp,
     FailLaunch, ReleaseStarting
<1>11. \A e \in Ids, c \in StopThreads :
          ~StopBegin(e, c) /\ ~StopRaises(e, c) /\ (StopStep(e, c) => StopFinish(e, c))
  BY <1>5, <1>8, <1>9 DEF memory, StopBegin, StopStep, StopRaises, StopAbort,
     StopSettle, StopTear, StopConfirmed, StopUnconfirmed, StopKill
<1>12. \A e \in Ids : ~TickRecord(e)
  BY <1>5, <1>8, <1>9 DEF TickRecord
<1>13. ~(TickBegin \/ Close \/ Bind \/ \E e \in Ids : Load(e) \/ Die(e))
  BY <1>9 DEF memory, TickBegin, Close, Bind, Load, Die
<1>14. \A e \in Ids, r \in Requests : ~Launch(e, r)
  BY <1>5, <1>8 DEF Launch
<1> QED
  BY <1>2, <1>3, <1>6, <1>7, <1>9, <1>10, <1>11, <1>12, <1>13, <1>14 DEF Next, vars

LEMMA StopAccountedNext ==
    Base /\ HandleInv /\ StopKnows /\ StopAccounted /\ [Next]_vars => StopAccounted'
<1> SUFFICES ASSUME Base, HandleInv, StopKnows, StopAccounted, [Next]_vars,
                    NEW d \in Ids, Standing(d)' = "STOPPED"
             PROVE  (~Running(d) \/ escalated[d])'
  BY DEF StopAccounted
<1>1. CASE Standing(d) = "STOPPED"
  <2>1. ~Running(d) \/ escalated[d]
    BY <1>1 DEF StopAccounted
  <2>2. CASE phase = "down"
    <3>1. worker[d] = "none"
      BY <2>2 DEF Base, Quiet
    <3> QED
      BY <2>1, <3>1, OnlyLaunchRuns
  <2>3. CASE phase # "down"
    <3>1. handle[d]
      BY <1>1, <2>3 DEF Standing, HandleInv, Owned
    <3> QED
      BY <2>1, <3>1, KnownStaysDown
  <2> QED
    BY <2>2, <2>3
<1>2. ASSUME Standing(d) # "STOPPED", NEW c \in StopThreads, StopFinish(d, c)
      PROVE  (~Running(d) \/ escalated[d])'
  <2>1. handle[d] /\ (~Running(d) \/ escalated[d])
    BY <1>2 DEF StopFinish, At, StopKnows, Tearing
  <2> QED
    BY <2>1, KnownStaysDown
<1>3. CASE Standing(d) # "STOPPED" /\ Reconcile(d, "STOPPED")
  <2>1. state[d] # "STOPPED" /\ workload' = workload
    BY <1>3 DEF Reconcile, Standing
  <2>2. ~Running(d)
    BY <1>3, <2>1 DEF Reconcile, Evidence, TERMINAL
  <2> QED
    BY <2>1, <2>2 DEF Running
<1> QED
  BY <1>1, <1>2, <1>3, OnlyFinishStops

\* A record is STOPPED only over a container that is gone, or one a
\* stop_escalated event was sent for.
THEOREM StoppedIsAccountedFor == Spec => []StopAccounted
<1>1. Init => HandleInv /\ StopKnows /\ StopAccounted
  <2>1. Init => StopKnows /\ StopAccounted
    BY DEF Init, StopKnows, StopAccounted, Standing, Idle, Tearing
  <2> QED
    BY <2>1, HandleInit
<1>2. Base /\ HandleInv /\ StopKnows /\ StopAccounted /\ [Next]_vars
      => HandleInv' /\ StopKnows' /\ StopAccounted'
  BY HandleNext, StopKnowsNext, StopAccountedNext
<1> QED
  BY <1>1, <1>2, BaseHolds, PTL DEF Spec
=============================================================================
