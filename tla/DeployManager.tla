--------------------------- MODULE DeployManager ---------------------------
(***************************************************************************)
(* The deployment manager of control_plane/deploy: the lifecycle state     *)
(* machine (fsm.py), the records and their files on disk (store.py), and   *)
(* the threads that share them (manager.py):                               *)
(*                                                                         *)
(*   - request threads that call launch() and stop();                      *)
(*   - one launch worker per launch, and one ready waiter per record that  *)
(*     reconcile() adopts in LAUNCHING (both are `worker` below);          *)
(*   - one stop finisher per record that reconcile() adopts in STOPPING;   *)
(*   - the watch thread, which probes serving backends and applies what it *)
(*     found;                                                              *)
(*   - the start-up thread that runs reconcile().                          *)
(*                                                                         *)
(* One action is one stretch of code between two points where another      *)
(* thread can run: a locked region, or an unlocked call to sparkrun, to    *)
(* the backend or to a node agent.  Clocks are abstracted: a deadline may  *)
(* expire at any time.  The containers themselves are sparkrun's and are   *)
(* modelled (`workload`) from how the manager uses them.                   *)
(***************************************************************************)
EXTENDS Integers, FiniteSets

CONSTANTS
    Ids,               \* deployment ids the id factory can hand out
    Requests,          \* launch requests: records with model, name and nodes
    Nodes,             \* node ids of the cluster
    Ports,             \* ports a backend can be given
    BasePort,          \* adapter.base_port
    Callers,           \* request threads that may call stop()
    Finisher,          \* the thread _spawn_stop_finisher starts for a record
    FailThreshold,     \* health_fail_threshold
    KeepTerminal,      \* TERMINAL_RECORDS_KEPT
    MaxCrashes,        \* bound: how often the control plane goes down
    StartupWaits,      \* FALSE: reconcile() can outlast startup_step_timeout_s
    SparkrunVanishes   \* TRUE: adapter.stop may raise (binary gone, OSError)

NoRequest == [model |-> "none", name |-> "none", nodes |-> {}]

ASSUME RequestsAssumption ==
    /\ \A r \in Requests : r.nodes \subseteq Nodes /\ r.nodes # {}
    /\ NoRequest \notin Requests
ASSUME PortsAssumption == Ports \subseteq Nat /\ BasePort \in Ports
ASSUME BoundsAssumption ==
    /\ FailThreshold \in Nat \ {0}
    /\ KeepTerminal \in Nat \ {0}
    /\ MaxCrashes \in Nat
ASSUME IdsAssumption == IsFiniteSet(Ids)
ASSUME SwitchAssumption == StartupWaits \in BOOLEAN /\ SparkrunVanishes \in BOOLEAN
ASSUME FinisherAssumption == Finisher \notin Callers

----------------------------------------------------------------------------
(* The lifecycle: fsm.py.  "NONE" is the absence of a record; PLANNED is   *)
(* only ever seen by the thread that holds the lock in launch().           *)

States == {"LAUNCHING", "READY", "DEGRADED", "STOPPING", "STOPPED", "FAILED"}
TERMINAL == {"FAILED", "STOPPED"}
SERVING == {"READY", "DEGRADED"}

LEGAL == [ NONE      |-> {"LAUNCHING"},
           LAUNCHING |-> {"READY", "FAILED"},
           READY     |-> {"DEGRADED", "FAILED", "STOPPING"},
           DEGRADED  |-> {"READY", "FAILED", "STOPPING"},
           STOPPING  |-> {"STOPPED"},
           FAILED    |-> {},
           STOPPED   |-> {} ]

\* What a record's file holds that can differ from one save to the next.
Files == [state : States \cup {"NONE"}, handle : BOOLEAN]
NoFile == [state |-> "NONE", handle |-> FALSE]

Workloads == {"absent", "loading", "serving", "gone"}
WorkerSteps == {"none", "gate", "launch", "save", "wait", "ready", "fail",
                "release"}
StopSteps == {"idle", "begin", "abort", "settle", "tear", "confirm", "kill",
              "finish"}
StopThreads == Callers \cup {Finisher}

VARIABLES
    phase,     \* of the control plane: "down", "starting", "up" or "closing"
    pending,   \* loaded from disk by reconcile(), not yet in _records
    req,       \* what each id was launched with; immutable once set
    state,     \* deployment.state
    port,      \* handle["port"]
    handle,    \* whether handle["cluster_id"] and backend_url are known
    misses,    \* record.health_failures
    disk,      \* the store: one file per id
    worker,    \* where each launch worker or ready waiter is
    holds,     \* whether that thread is inside the starting gate
    starting,  \* _starting: nodes an engine is being started on
    stops,     \* where each stop thread is, with its locals
    batch,     \* records the current tick has yet to visit
    lost,      \* those of them whose probe failed this tick
    pressed,   \* those of them the tick's node snapshot gives degraded_reasons
    workload,  \* sparkrun's container for each id
    escalated, \* a STOP_ESCALATED event was emitted for the id
    crashes

memory == <<state, handle, misses>>
watch == <<batch, lost, pressed>>
vars == <<phase, pending, req, state, port, handle, misses, disk, worker,
          holds, starting, stops, batch, lost, pressed, workload, escalated,
          crashes>>

Idle == [step |-> "idle", cid |-> FALSE]

\* Keys of _records.
Records == {d \in Ids : state[d] # "NONE"} \ pending
MutLive == {d \in Records : state[d] \in {"LAUNCHING"} \cup SERVING}
Live == {d \in Records : state[d] \notin TERMINAL}
Running(d) == workload[d] \in {"loading", "serving"}

TypeOK ==
    /\ phase \in {"down", "starting", "up", "closing"}
    /\ pending \subseteq Ids
    /\ req \in [Ids -> Requests \cup {NoRequest}]
    /\ state \in [Ids -> States \cup {"NONE"}]
    /\ port \in [Ids -> Ports]
    /\ handle \in [Ids -> BOOLEAN]
    /\ misses \in [Ids -> Nat]
    /\ disk \in [Ids -> Files]
    /\ worker \in [Ids -> WorkerSteps]
    /\ holds \in [Ids -> BOOLEAN]
    /\ starting \subseteq Nodes
    /\ stops \in [Ids -> [StopThreads ->
                    [step : StopSteps, cid : BOOLEAN]]]
    /\ batch \subseteq Ids
    /\ lost \subseteq batch
    /\ pressed \subseteq batch
    /\ workload \in [Ids -> Workloads]
    /\ escalated \in [Ids -> BOOLEAN]
    /\ crashes \in 0..MaxCrashes

Init ==
    /\ phase = "up"
    /\ pending = {}
    /\ req = [d \in Ids |-> NoRequest]
    /\ state = [d \in Ids |-> "NONE"]
    /\ port = [d \in Ids |-> BasePort]
    /\ handle = [d \in Ids |-> FALSE]
    /\ misses = [d \in Ids |-> 0]
    /\ disk = [d \in Ids |-> NoFile]
    /\ worker = [d \in Ids |-> "none"]
    /\ holds = [d \in Ids |-> FALSE]
    /\ starting = {}
    /\ stops = [d \in Ids |-> [c \in StopThreads |-> Idle]]
    /\ batch = {}
    /\ lost = {}
    /\ pressed = {}
    /\ workload = [d \in Ids |-> "absent"]
    /\ escalated = [d \in Ids |-> FALSE]
    /\ crashes = 0

----------------------------------------------------------------------------
(* The store and _transition                                               *)

\* The definitions named Mut... are the mutants the runs are tested with: each
\* is the definition after it with a plausible bug, and nothing uses it.

\* DeploymentStore.save
Saved(d, s, h) == [disk EXCEPT ![d] = [state |-> s, handle |-> h]]

\* DeploymentStore.purge_surplus after d's file was written: all but
\* KeepTerminal of the terminal files go.  d's own file is the newest and
\* stays; which of the others are oldest is left open.
PurgeSurplus(files, d) ==
    LET settled == {e \in Ids : files[e].state \in TERMINAL}
    IN  IF Cardinality(settled) <= KeepTerminal
        THEN {files}
        ELSE {[e \in Ids |-> IF e \in gone THEN NoFile ELSE files[e]] :
                 gone \in {g \in SUBSET (settled \ {d}) :
                             Cardinality(g) = Cardinality(settled) - KeepTerminal}}

\* fsm.check: a self-transition is a legal no-op.
MayBecome(source, target) == source = target \/ target \in LEGAL[source]

\* The lifecycle check forgotten.
MutTransition(d, target) ==
    /\ state' = [state EXCEPT ![d] = target]
    /\ disk' = Saved(d, target, handle[d])

\* _transition.  A self-transition returns without saving, an illegal one
\* raises: either way nothing changes here.
Transition(d, target) ==
    IF target \in LEGAL[state[d]]
    THEN /\ state' = [state EXCEPT ![d] = target]
         /\ IF target \in TERMINAL
            THEN disk' \in PurgeSurplus(Saved(d, target, handle[d]), d)
            ELSE disk' = Saved(d, target, handle[d])
    ELSE UNCHANGED <<state, disk>>

----------------------------------------------------------------------------
(* launch() and its worker                                                 *)

\* _find_conflict: the served name is taken anywhere, or the model is on one
\* of the nodes.  Terminal records hold nothing.
Conflict(r) ==
    \E e \in Live : \/ req[e].name = r.name
                    \/ /\ req[e].model = r.model
                       /\ req[e].nodes \cap r.nodes # {}

\* The fallback hands out the base port whoever has it.
MutAllocatedPort(p, busy) ==
    LET taken == {port[e] : e \in Live}
    IN  \/ p \notin busy \cup taken
        \/ p = BasePort /\ Ports \subseteq busy

\* _allocate_port: the first port no live record has and nothing local is
\* listening on, or the first no live record has.  `busy` is what
\* port_is_free sees.
AllocatedPort(p, busy) ==
    LET taken == {port[e] : e \in Live}
        free(q) == q \in Ports /\ q >= BasePort /\ q \notin taken
    IN  /\ free(p)
        /\ \/ /\ p \notin busy
              /\ \A q \in Ports : free(q) /\ q < p => q \in busy
           \/ /\ \A q \in Ports : free(q) => q \in busy /\ p <= q

\* launch(), from the first check to the worker thread it starts.  A request
\* that does not fit, or that conflicts, raises and changes nothing.
Launch(d, r) ==
    /\ phase = "up"
    /\ req[d] = NoRequest
    /\ ~Conflict(r)
    /\ \E busy \in SUBSET Ports, p \in Ports :
         /\ AllocatedPort(p, busy)
         /\ port' = [port EXCEPT ![d] = p]
    /\ req' = [req EXCEPT ![d] = r]
    /\ Transition(d, "LAUNCHING")
    /\ worker' = [worker EXCEPT ![d] = "gate"]
    /\ UNCHANGED <<phase, pending, handle, misses, holds, starting,
                   stops, watch, workload, escalated, crashes>>

\* The gate is shut behind a launch that never waited for it.
MutHoldStarting(d) ==
    /\ worker[d] = "gate"
    /\ starting' = starting \cup req[d].nodes
    /\ holds' = [holds EXCEPT ![d] = TRUE]
    /\ worker' = [worker EXCEPT ![d] = "launch"]
    /\ UNCHANGED <<phase, pending, req, memory, port, disk, stops, watch,
                   workload, escalated, crashes>>

\* _hold_starting succeeds.  Nothing here looks at the record's state.
HoldStarting(d) ==
    /\ worker[d] = "gate"
    /\ starting \cap req[d].nodes = {}
    /\ starting' = starting \cup req[d].nodes
    /\ holds' = [holds EXCEPT ![d] = TRUE]
    /\ worker' = [worker EXCEPT ![d] = "launch"]
    /\ UNCHANGED <<phase, pending, req, memory, port, disk, stops, watch,
                   workload, escalated, crashes>>

\* _hold_starting gives up at the deadline.
StartingTimeout(d) ==
    /\ worker[d] = "gate"
    /\ starting \cap req[d].nodes # {}
    /\ worker' = [worker EXCEPT ![d] = "fail"]
    /\ UNCHANGED <<phase, pending, req, memory, port, disk, holds, starting,
                   stops, watch, workload, escalated, crashes>>

\* adapter.launch returns a result, or raises: sparkrun exits non-zero, times
\* out or prints no cluster id, and may leave a container behind.
AdapterLaunch(d) ==
    /\ worker[d] = "launch"
    /\ \E ok \in BOOLEAN, left \in BOOLEAN :
         /\ worker' = [worker EXCEPT ![d] = IF ok THEN "save" ELSE "fail"]
         /\ workload' = [workload EXCEPT ![d] =
                            IF ok \/ left THEN "loading" ELSE "absent"]
    /\ UNCHANGED <<phase, pending, req, memory, port, disk, holds, starting,
                   stops, watch, escalated, crashes>>

\* The handle is kept in memory only.
MutSaveHandle(d) ==
    /\ worker[d] = "save"
    /\ handle' = [handle EXCEPT ![d] = TRUE]
    /\ worker' = [worker EXCEPT ![d] = "wait"]
    /\ UNCHANGED <<phase, pending, req, state, port, misses, disk, holds,
                   starting, stops, watch, workload, escalated, crashes>>

\* _launch_and_wait keeps the handle, whatever state the record is in by now.
SaveHandle(d) ==
    /\ worker[d] = "save"
    /\ handle' = [handle EXCEPT ![d] = TRUE]
    /\ disk' = Saved(d, state[d], TRUE)
    /\ worker' = [worker EXCEPT ![d] = "wait"]
    /\ UNCHANGED <<phase, pending, req, state, port, misses,
                   holds, starting, stops, watch, workload, escalated,
                   crashes>>

\* No `finally`.
MutEnded(d) == [worker EXCEPT ![d] = "none"]

\* The thread is done; a launch worker then leaves the gate (`finally`).
Ended(d) == [worker EXCEPT ![d] = IF holds[d] THEN "release" ELSE "none"]

\* _wait_for_ready returns: the record left LAUNCHING under it, or the
\* manager is closing and the poll sleep was interrupted.
WaitReturns(d) ==
    /\ worker[d] = "wait"
    /\ state[d] # "LAUNCHING" \/ phase = "closing"
    /\ worker' = Ended(d)
    /\ UNCHANGED <<phase, pending, req, memory, port, disk, holds, starting,
                   stops, watch, workload, escalated, crashes>>

\* The state was LAUNCHING when it was read, and the probe came back healthy.
ProbeReady(d) ==
    /\ worker[d] = "wait"
    /\ state[d] = "LAUNCHING"
    /\ handle[d] /\ workload[d] = "serving"
    /\ worker' = [worker EXCEPT ![d] = "ready"]
    /\ UNCHANGED <<phase, pending, req, memory, port, disk, holds, starting,
                   stops, watch, workload, escalated, crashes>>

\* The locked region after a healthy probe.
PublishReady(d) ==
    /\ worker[d] = "ready"
    /\ Transition(d, "READY")
    /\ worker' = Ended(d)
    /\ UNCHANGED <<phase, pending, req, port, handle, misses, holds,
                   starting, stops, watch, workload, escalated, crashes>>

\* No deadline: only a container that is gone ends the wait.
MutWaitGivesUp(d) ==
    /\ worker[d] = "wait"
    /\ state[d] = "LAUNCHING"
    /\ workload[d] = "gone"
    /\ worker' = [worker EXCEPT ![d] = "fail"]
    /\ UNCHANGED <<phase, pending, req, memory, port, disk, holds, starting,
                   stops, watch, workload, escalated, crashes>>

\* The waiter decides the launch is over: the runtime printed a fatal line,
\* check-job says the container is gone, the deadline passed, or the manager
\* is closing and the loop condition (not the sleep) saw it.
WaitGivesUp(d) ==
    /\ worker[d] = "wait"
    /\ state[d] = "LAUNCHING"
    /\ worker' = [worker EXCEPT ![d] = "fail"]
    /\ UNCHANGED <<phase, pending, req, memory, port, disk, holds, starting,
                   stops, watch, workload, escalated, crashes>>

\* _fail_launch: last_error always, FAILED only from a state that allows it.
FailLaunch(d) ==
    /\ worker[d] = "fail"
    /\ IF state[d] \in {"LAUNCHING"} \cup SERVING
       THEN Transition(d, "FAILED")
       ELSE UNCHANGED <<state, disk>>
    /\ worker' = Ended(d)
    /\ UNCHANGED <<phase, pending, req, port, handle, misses, holds,
                   starting, stops, watch, workload, escalated, crashes>>

ReleaseStarting(d) ==
    /\ worker[d] = "release"
    /\ starting' = starting \ req[d].nodes
    /\ holds' = [holds EXCEPT ![d] = FALSE]
    /\ worker' = [worker EXCEPT ![d] = "none"]
    /\ UNCHANGED <<phase, pending, req, memory, port, disk, stops, watch,
                   workload, escalated, crashes>>

----------------------------------------------------------------------------
(* stop()                                                                  *)

At(d, c, step) == stops[d][c].step = step
StopGoes(d, c, step) == stops' = [stops EXCEPT ![d][c].step = step]
StopReturns(d, c) == stops' = [stops EXCEPT ![d][c] = Idle]

\* The first locked region: a terminal record returns at once, a LAUNCHING one
\* is left alone for now, any other goes to STOPPING.
StopBegin(d, c) ==
    /\ d \in Records
    /\ \/ c \in Callers /\ phase = "up" /\ At(d, c, "idle")
       \/ c = Finisher /\ At(d, c, "begin")
    /\ \/ /\ state[d] \in TERMINAL
          /\ StopReturns(d, c)
          /\ UNCHANGED <<state, disk>>
       \/ /\ state[d] = "LAUNCHING"
          /\ stops' = [stops EXCEPT ![d][c] =
                         [step |-> "abort", cid |-> handle[d]]]
          /\ UNCHANGED <<state, disk>>
       \/ /\ state[d] \in SERVING \cup {"STOPPING"}
          /\ Transition(d, "STOPPING")
          /\ stops' = [stops EXCEPT ![d][c] =
                         [step |-> "tear", cid |-> handle[d]]]
    /\ UNCHANGED <<phase, pending, req, port, handle, misses, worker,
                   holds, starting, watch, workload, escalated, crashes>>

\* adapter.stop: sparkrun tears the container down, or fails to.
AdapterStop(d) ==
    \/ workload' = workload
    \/ Running(d) /\ workload' = [workload EXCEPT ![d] = "gone"]

\* Stopping a launch: adapter.stop only if the handle was known in StopBegin.
StopAbort(d, c) ==
    /\ At(d, c, "abort")
    /\ IF stops[d][c].cid THEN AdapterStop(d) ELSE UNCHANGED workload
    /\ StopGoes(d, c, "settle")
    /\ UNCHANGED <<phase, pending, req, memory, port, disk, worker, holds,
                   starting, watch, escalated, crashes>>

\* The second locked region of stopping a launch.
StopSettle(d, c) ==
    /\ At(d, c, "settle")
    /\ IF state[d] = "LAUNCHING"
       THEN Transition(d, "FAILED")
       ELSE UNCHANGED <<state, disk>>
    /\ StopReturns(d, c)
    /\ UNCHANGED <<phase, pending, req, port, handle, misses, worker,
                   holds, starting, watch, workload, escalated, crashes>>

\* adapter.stop on a record that is STOPPING.
StopTear(d, c) ==
    /\ At(d, c, "tear")
    /\ IF stops[d][c].cid
       THEN AdapterStop(d) /\ StopGoes(d, c, "confirm")
       ELSE UNCHANGED workload /\ StopGoes(d, c, "finish")
    /\ UNCHANGED <<phase, pending, req, memory, port, disk, worker, holds,
                   starting, watch, escalated, crashes>>

\* adapter.stop raises, and stop() with it: the record stays as it is.
StopRaises(d, c) ==
    /\ SparkrunVanishes
    /\ At(d, c, "tear") \/ At(d, c, "abort")
    /\ stops[d][c].cid
    /\ StopReturns(d, c)
    /\ UNCHANGED <<phase, pending, req, memory, port, disk, worker, holds,
                   starting, watch, workload, escalated, crashes>>

\* An unknown is taken for a False.
MutStopConfirmed(d, c) ==
    /\ At(d, c, "confirm")
    /\ StopGoes(d, c, "finish")
    /\ UNCHANGED <<phase, pending, req, memory, port, disk, worker, holds,
                   starting, watch, workload, escalated, crashes>>

\* is_running answers a definite False.
StopConfirmed(d, c) ==
    /\ At(d, c, "confirm")
    /\ ~Running(d)
    /\ StopGoes(d, c, "finish")
    /\ UNCHANGED <<phase, pending, req, memory, port, disk, worker, holds,
                   starting, watch, workload, escalated, crashes>>

\* The confirmation is waited for without a budget.
MutStopUnconfirmed(d, c) ==
    /\ At(d, c, "confirm")
    /\ ~Running(d)
    /\ StopGoes(d, c, "kill")
    /\ UNCHANGED <<phase, pending, req, memory, port, disk, worker, holds,
                   starting, watch, workload, escalated, crashes>>

\* The confirmation budget runs out on answers of True or None.
StopUnconfirmed(d, c) ==
    /\ At(d, c, "confirm")
    /\ StopGoes(d, c, "kill")
    /\ UNCHANGED <<phase, pending, req, memory, port, disk, worker, holds,
                   starting, watch, workload, escalated, crashes>>

\* _kill_through_agents, then the last is_running.  `killed` is what the
\* agents say; a workload on several nodes may survive it.  Confirmed or not,
\* STOP_ESCALATED goes out and last_error says what happened.
StopKill(d, c) ==
    /\ At(d, c, "kill")
    /\ \E killed \in BOOLEAN :
         IF killed THEN AdapterStop(d) ELSE UNCHANGED workload
    /\ escalated' = [escalated EXCEPT ![d] = TRUE]
    /\ StopGoes(d, c, "finish")
    /\ UNCHANGED <<phase, pending, req, memory, port, disk, worker, holds,
                   starting, watch, crashes>>

\* The last locked region.
StopFinish(d, c) ==
    /\ At(d, c, "finish")
    /\ Transition(d, "STOPPED")
    /\ StopReturns(d, c)
    /\ UNCHANGED <<phase, pending, req, port, handle, misses, worker,
                   holds, starting, watch, workload, escalated, crashes>>

----------------------------------------------------------------------------
(* The watch thread                                                        *)

\* tick() up to the end of _probe_backends: the serving records, a verdict
\* for each (a healthy one only from a backend that serves), and which of
\* them the registry's node snapshot puts under pressure.
TickBegin ==
    /\ phase = "up"
    /\ batch = {}
    /\ LET serving == {d \in Records : state[d] \in SERVING}
       IN  /\ serving # {}
           /\ batch' = serving
           /\ lost' \in {l \in SUBSET serving :
                          \A d \in serving \ l : workload[d] = "serving"}
           /\ pressed' \in SUBSET serving
    /\ UNCHANGED <<phase, pending, req, memory, port, disk, worker, holds,
                   starting, stops, workload, escalated, crashes>>

\* record.health_failures after this tick's probe.
MutMisses(d) == IF d \in lost THEN 1 ELSE 0
Misses(d) == IF d \in lost THEN misses[d] + 1 ELSE 0

\* The records the tick still has to visit, with what it knows of them.
MutTickGoes(rest) == batch' = rest /\ UNCHANGED <<lost, pressed>>
TickGoes(rest) ==
    batch' = rest /\ lost' = lost \cap rest /\ pressed' = pressed \cap rest

\* One record's turn: _check_memory, _apply_backend_probe, _settle_state.  A
\* miss that reaches the threshold asks for FAILED without looking at the
\* state again; if that raises, the rest of the tick is lost.
TickRecord(d) ==
    /\ d \in batch
    /\ misses' = [misses EXCEPT ![d] = Misses(d)]
    /\ \/ /\ Misses(d) >= FailThreshold
          /\ Transition(d, "FAILED")
          /\ TickGoes(IF MayBecome(state[d], "FAILED") THEN batch \ {d} ELSE {})
       \/ /\ Misses(d) < FailThreshold
          /\ state[d] \in SERVING
          /\ Transition(d, IF d \in pressed THEN "DEGRADED" ELSE "READY")
          /\ TickGoes(batch \ {d})
       \/ /\ Misses(d) < FailThreshold
          /\ state[d] \notin SERVING
          /\ TickGoes(batch \ {d})
          /\ UNCHANGED <<state, disk>>
    /\ UNCHANGED <<phase, pending, req, port, handle, worker, holds, starting,
                   stops, workload, escalated, crashes>>

----------------------------------------------------------------------------
(* Going down and coming back                                              *)

\* close(): the stop event is set; the threads notice in their own time.
Close ==
    /\ phase = "up"
    /\ crashes < MaxCrashes
    /\ phase' = "closing"
    /\ UNCHANGED <<pending, req, memory, port, disk, worker, holds, starting,
                   stops, watch, workload, escalated, crashes>>

\* The process ends, after close() or without it.  Only the store and the
\* containers remain; a sparkrun launch that was under way may yet finish.
Crash ==
    /\ phase # "down"
    /\ crashes < MaxCrashes
    /\ crashes' = crashes + 1
    /\ phase' = "down"
    /\ pending' = {}
    /\ state' = [d \in Ids |-> "NONE"]
    /\ handle' = [d \in Ids |-> FALSE]
    /\ misses' = [d \in Ids |-> 0]
    /\ \E finish \in SUBSET {d \in Ids : worker[d] = "launch"} :
         workload' = [d \in Ids |-> IF d \in finish THEN "loading" ELSE workload[d]]
    /\ worker' = [d \in Ids |-> "none"]
    /\ holds' = [d \in Ids |-> FALSE]
    /\ starting' = {}
    /\ stops' = [d \in Ids |-> [c \in StopThreads |-> Idle]]
    /\ batch' = {}
    /\ lost' = {}
    /\ pressed' = {}
    /\ UNCHANGED <<req, port, disk, escalated>>

\* The start of reconcile(): purge_expired deletes terminal files past the
\* retention window, load_all reads the rest.
Boot ==
    /\ phase = "down"
    /\ \E expired \in SUBSET {d \in Ids : disk[d].state \in TERMINAL} :
         /\ disk' = [d \in Ids |-> IF d \in expired THEN NoFile ELSE disk[d]]
         /\ state' = [d \in Ids |-> disk'[d].state]
         /\ handle' = [d \in Ids |-> disk'[d].handle]
         /\ pending' = {d \in Ids : disk'[d].state # "NONE"}
    /\ phase' = "starting"
    /\ UNCHANGED <<req, port, misses, worker, holds, starting, stops,
                   watch, workload, escalated, crashes>>

\* A backend that answers is adopted whatever its record says.
MutEvidence(d) ==
    IF handle[d] /\ workload[d] = "serving" THEN {"READY"}
    ELSE IF state[d] \in TERMINAL THEN {state[d]} ELSE {"LAUNCHING"}

\* _evidence: the states the world can give a loaded record.  Without a
\* handle there is nothing to ask, which counts as unknown.
Evidence(d) ==
    LET stopping == state[d] = "STOPPING"
        answers == handle[d] /\ workload[d] = "serving"
        stranger == handle[d] /\ workload[d] # "serving"
        dead == handle[d] /\ ~Running(d)
    IN  IF state[d] \in TERMINAL THEN {state[d]}
        ELSE (IF answers /\ ~stopping THEN {"READY"} ELSE {})
             \cup (IF stranger THEN {"FAILED"} ELSE {})
             \cup (IF dead THEN {IF state[d] = "LAUNCHING" THEN "FAILED"
                                 ELSE "STOPPED"} ELSE {})
             \cup {IF stopping THEN "STOPPING" ELSE "LAUNCHING"}

\* reconcile(), one record: the only place a state is set without the FSM.
Reconcile(d, s) ==
    /\ d \in pending
    /\ phase \in {"starting", "up", "closing"}
    /\ s \in Evidence(d)
    /\ pending' = pending \ {d}
    /\ state' = [state EXCEPT ![d] = s]
    /\ disk' = Saved(d, s, handle[d])
    /\ worker' = [worker EXCEPT ![d] = IF s = "LAUNCHING" THEN "wait" ELSE @]
    /\ stops' = IF s = "STOPPING"
                THEN [stops EXCEPT ![d][Finisher] = [step |-> "begin", cid |-> FALSE]]
                ELSE stops
    /\ UNCHANGED <<phase, req, port, handle, misses, holds, starting,
                   watch, workload, escalated, crashes>>

\* The gateway binds its port.  The start-up step that runs reconcile() is
\* cut short by a timeout, but its thread is not.
Bind ==
    /\ phase = "starting"
    /\ StartupWaits => pending = {}
    /\ phase' = "up"
    /\ UNCHANGED <<pending, req, memory, port, disk, worker, holds, starting,
                   stops, watch, workload, escalated, crashes>>

----------------------------------------------------------------------------
(* The containers                                                          *)

\* The engine finishes loading and answers.
Load(d) ==
    /\ workload[d] = "loading"
    /\ workload' = [workload EXCEPT ![d] = "serving"]
    /\ UNCHANGED <<phase, pending, req, memory, port, disk, worker, holds,
                   starting, stops, watch, escalated, crashes>>

\* A container dies.
Die(d) ==
    /\ Running(d)
    /\ workload' = [workload EXCEPT ![d] = "gone"]
    /\ UNCHANGED <<phase, pending, req, memory, port, disk, worker, holds,
                   starting, stops, watch, escalated, crashes>>

----------------------------------------------------------------------------
WorkerStep(d) ==
    \/ HoldStarting(d) \/ StartingTimeout(d) \/ AdapterLaunch(d)
    \/ SaveHandle(d) \/ WaitReturns(d) \/ ProbeReady(d) \/ PublishReady(d)
    \/ WaitGivesUp(d) \/ FailLaunch(d) \/ ReleaseStarting(d)

\* What a stop thread does once it is running.
StopStep(d, c) ==
    \/ StopAbort(d, c) \/ StopSettle(d, c) \/ StopTear(d, c)
    \/ StopConfirmed(d, c) \/ StopUnconfirmed(d, c) \/ StopKill(d, c)
    \/ StopFinish(d, c)

Next ==
    \/ \E d \in Ids, r \in Requests : Launch(d, r)
    \/ \E d \in Ids : WorkerStep(d)
    \/ \E d \in Ids, c \in StopThreads :
         StopBegin(d, c) \/ StopStep(d, c) \/ StopRaises(d, c)
    \/ TickBegin
    \/ \E d \in Ids : TickRecord(d)
    \/ Close \/ Crash \/ Boot \/ Bind
    \/ \E d \in Ids, s \in States : Reconcile(d, s)
    \/ \E d \in Ids : Load(d) \/ Die(d)

Spec == Init /\ [][Next]_vars

\* Every thread of a running process is scheduled, every call to sparkrun has
\* a timeout, and the service is restarted when it goes down.
Fairness ==
    /\ \A d \in Ids : WF_vars(WorkerStep(d))
    /\ \A d \in Ids, c \in StopThreads :
         WF_vars(StopStep(d, c)) /\ WF_vars(c = Finisher /\ StopBegin(d, c))
    /\ WF_vars(TickBegin)
    /\ \A d \in Ids : WF_vars(TickRecord(d))
    /\ WF_vars(Boot) /\ WF_vars(Bind)
    /\ \A d \in Ids : WF_vars(\E s \in States : Reconcile(d, s))
    /\ WF_vars(phase = "closing" /\ Crash)

FairSpec == Spec /\ Fairness
----------------------------------------------------------------------------
(* What the manager promises                                               *)

Active == States \ TERMINAL
Clash(d, e) == \/ req[d].name = req[e].name
               \/ /\ req[d].model = req[e].model
                  /\ req[d].nodes \cap req[e].nodes # {}

\* What each id is committed to: the record in memory while the control plane
\* runs, its file while it is down.
Standing(d) == IF phase = "down" THEN disk[d].state ELSE state[d]

\* "One node runs one copy of a model", and one served name is one deployment:
\* no two records that are not terminal clash, through every interleaving of
\* launches, stops, failures and restarts (manager.py, _find_conflict).
OneCopyPerNode ==
    \A d, e \in Ids : /\ d # e
                      /\ Standing(d) \in Active
                      /\ Standing(e) \in Active
                      => ~Clash(d, e)

\* The manager implements the table of claims of DeployClaims: a claim is a
\* record that is not terminal, and neither a crash nor a restart between any
\* two steps takes one away that is still used or gives one back.
Claims == INSTANCE DeployClaims WITH
    held <- [d \in Ids |-> IF Standing(d) \in Active THEN req[d] ELSE NoRequest],
    used <- {d \in Ids : req[d] # NoRequest}
ImplementsClaims == Claims!Spec

\* No two records that are not terminal were given one port, also when
\* everything else on the machine is listening (_allocate_port).
DistinctPorts ==
    \A d, e \in Ids : /\ d # e
                      /\ Standing(d) \in Active
                      /\ Standing(e) \in Active
                      => port[d] # port[e]

\* Whatever instant the process dies at, the store holds what memory held: a
\* record's file has its state and handle, unless it is terminal and was
\* swept (_transition saves before it announces).
StoreAgrees ==
    phase # "down" =>
        \A d \in Ids :
            \/ disk[d].state = state[d] /\ disk[d].handle = handle[d]
            \/ state[d] \in TERMINAL /\ disk[d].state = "NONE"

\* Two threads that hold the starting gate hold different nodes, and the gate
\* is shut on exactly the nodes being started (_hold_starting,
\* _release_starting): no exit from _launch_worker leaks a node.
GateExact ==
    /\ \A d, e \in Ids : d # e /\ holds[d] /\ holds[e]
                         => req[d].nodes \cap req[e].nodes = {}
    /\ starting = UNION {req[d].nodes : d \in {e \in Ids : holds[e]}}

\* A record says STOPPED only when its container is gone or a stop_escalated
\* event has told a human that it may not be (stop(): "confirmed" needs a
\* definite False).
StopAccounted ==
    \A d \in Ids : Standing(d) = "STOPPED" => ~Running(d) \/ escalated[d]

\* Terminal is final, also across restarts: a file that says FAILED or STOPPED
\* never says anything else again; it can only be deleted (fsm.LEGAL,
\* _evidence, purge_surplus).
TerminalIsFinal ==
    [][\A d \in Ids : disk[d].state \in TERMINAL
                      => disk'[d].state \in {disk[d].state, "NONE"}]_vars

\* While the process runs, a record's state changes only along the arrows of
\* fsm.LEGAL, whichever of the threads moves it; start-up sets it from
\* evidence once.
LegalSteps ==
    [][\A d \in Ids : d \in Records /\ d \notin pending' /\ phase' # "down"
                      => MayBecome(state[d], state'[d])]_vars

\* A launch settles: it does not stay LAUNCHING for ever, through the gate, a
\* wedged sparkrun, a restart that adopts it (the deadline of _launch_worker).
LaunchSettles ==
    \A d \in Ids : state[d] = "LAUNCHING" ~> state[d] # "LAUNCHING"

\* A stop that was begun ends in a terminal record, also when the control plane goes
\* down in the middle of it (_spawn_stop_finisher).
StopSettles ==
    \A d \in Ids : Standing(d) = "STOPPING" ~> Standing(d) \in TERMINAL

\* The watch notices a dead backend: a record does not go on serving over a
\* container that is gone (tick, DEATH_BOUND_S).
DeathNoticed ==
    \A d \in Ids : (state[d] \in SERVING /\ workload[d] = "gone")
                   ~> state[d] \notin SERVING

\* What was asked to end, and what ended by itself, is seen to have ended.
EndsNoticed == StopSettles /\ DeathNoticed

\* The gate opens again: a node is not held for ever (the `finally` of
\* _launch_worker).
GateReopens == \A n \in Nodes : n \in starting ~> n \notin starting

----------------------------------------------------------------------------
(* What comments of the repository say and the code does not do; each is   *)
(* refuted by a run of its own.                                            *)

\* fsm.py: "Illegal transitions raise.  They are bugs, not conditions" - no
\* thread is about to ask for one.
NoIllegalTransition ==
    \A d \in Ids :
        /\ worker[d] = "ready" => MayBecome(state[d], "READY")
        /\ d \in lost /\ misses[d] + 1 >= FailThreshold
              => MayBecome(state[d], "FAILED")
        /\ \A c \in StopThreads : At(d, c, "finish") => MayBecome(state[d], "STOPPED")

\* manager.py, _hold_starting: "So a node starts one engine at a time."
OneEngineStarting ==
    \A d, e \in Ids :
        /\ d # e
        /\ state[d] = "LAUNCHING" /\ workload[d] = "loading"
        /\ state[e] = "LAUNCHING" /\ workload[e] = "loading"
        => req[d].nodes \cap req[e].nodes = {}

\* manager.py, stop(): "the launch was torn down" - a record that has settled
\* with nothing running does not come to own a running container.
NoLaunchAfterStop ==
    [][\A d \in Ids : state[d] \in TERMINAL /\ ~Running(d) => ~Running(d)']_vars

\* manager.py, close(): "Does not stop deployments" - a waiter that is still
\* polling when the manager closes does not declare its launch failed.
ShutdownSparesLaunches ==
    [][\A d \in Ids : phase = "closing" /\ worker[d] = "wait"
                      => worker'[d] # "fail"]_vars

\* restart.py: stop() racing a launch "tags that one case" with an operator's
\* reason - a stop that tore a launch down leaves the record terminal.
StopOfLaunchSticks ==
    [][\A d \in Ids, c \in StopThreads :
          At(d, c, "settle") /\ ~At(d, c, "settle")' /\ phase' # "down"
          => state'[d] \in TERMINAL]_vars
=============================================================================
