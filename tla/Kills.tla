------------------------------- MODULE Kills -------------------------------
(***************************************************************************)
(* DELETE /api/nodes/{id}/processes/{pid}: the coordinator's check         *)
(* (gateway/internal_api.py, gateway/gpu_procs.py) and the agent's kill    *)
(* (registry/procs.py), with processes that exit, start under a pid that   *)
(* was another's, ignore SIGTERM, or leave their memory behind.            *)
(***************************************************************************)
EXTENDS Naturals, FiniteSets

CONSTANTS
    Pids,
    Protected,      \* init, the agent and its ancestors
    Processes,      \* processes there may be, each at most once
    OwnedBy,        \* OwnedBy[x]: its deployment, or Stray
    Deployments,
    KillCalls

Stray == "stray"
None == "none"

ASSUME ProcessesAssumption == None \notin Processes /\ None \notin Pids

VARIABLES
    at,         \* at[pid]: the process under a pid, or None
    context,    \* context[pid]: the process whose memory nvidia-smi reports there
    live,       \* deployments in a live state
    kills,      \* kills[k]: a call
    spawned     \* processes that have existed

killVars == <<at, context, live, kills, spawned>>

Waiting == [stage |-> "idle", pid |-> None, victim |-> None, spared |-> {}, sent |-> None,
            hit |-> {}, answer |-> None, exited |-> FALSE]

----------------------------------------------------------------------------
(* read_gpu_processes(): what holds memory under a pid.                    *)
Reported(pid) == context[pid]

MutKillable(x, readable) == TRUE

(* attribute(): a process is matched to a deployment by its command line;  *)
(* without the deployments or their handles, nothing is matched.           *)
Killable(x, readable) == ~(readable /\ OwnedBy[x] \in live)

(* The agent's list is attributed, and the target found and judged.        *)
CheckKill(k, pid, readable) ==
    /\ kills[k].stage = "idle"
    /\ kills' = [kills EXCEPT ![k] =
          LET call == [Waiting EXCEPT !.pid = pid, !.stage = "asked",
                                      !.spared = IF readable THEN {x \in spawned : OwnedBy[x] \in live} ELSE {}]
          IN IF Reported(pid) = None THEN [call EXCEPT !.stage = "done", !.answer = "not_a_gpu_process"]
             ELSE IF ~Killable(Reported(pid), readable) THEN [call EXCEPT !.stage = "done", !.answer = "process_is_managed"]
             ELSE call]
    /\ UNCHANGED <<at, context, live, spawned>>

MutGuarded(pid) == FALSE

(* guard(): never init, the agent or an ancestor of it.                    *)
Guarded(pid) == pid \in Protected

(* kill_gpu_process(): the list is read again and SIGTERM is sent.         *)
SendTerm(k) ==
    LET pid == kills[k].pid IN
    /\ kills[k].stage = "asked"
    /\ kills' = [kills EXCEPT ![k] =
          IF Reported(pid) = None THEN [@ EXCEPT !.stage = "done", !.answer = "not_a_gpu_process"]
          ELSE IF Guarded(pid) THEN [@ EXCEPT !.stage = "done", !.answer = "protected_pid"]
          ELSE [@ EXCEPT !.stage = IF at[pid] = None THEN "settling" ELSE "grace", !.victim = Reported(pid),
                         !.sent = "SIGTERM", !.hit = {at[pid]} \ {None}, !.exited = at[pid] = None]]
    /\ UNCHANGED <<at, context, live, spawned>>

(* _await_release(): the process is gone and its memory with it.           *)
Released(pid) == at[pid] = None /\ Reported(pid) = None

GraceEnds(k) ==
    LET pid == kills[k].pid IN
    /\ kills[k].stage = "grace"
    /\ IF Released(pid)
       THEN /\ kills' = [kills EXCEPT ![k].stage = "settling", ![k].exited = TRUE]
            /\ UNCHANGED at
       ELSE /\ kills' = [kills EXCEPT ![k].stage = "forced", ![k].sent = "SIGKILL", ![k].hit = @ \cup ({at[pid]} \ {None})]
            /\ at' = [at EXCEPT ![pid] = None]
    /\ UNCHANGED <<context, live, spawned>>

ForceEnds(k) ==
    /\ kills[k].stage = "forced"
    /\ kills' = [kills EXCEPT ![k].stage = "settling", ![k].exited = Released(kills[k].pid)]
    /\ UNCHANGED <<at, context, live, spawned>>

MutSettle(k, answers) ==
    /\ kills[k].stage = "settling"
    /\ kills' = [kills EXCEPT ![k].stage = "done", ![k].answer = "released"]
    /\ UNCHANGED <<at, context, live, spawned>>

(* _settle(): what is reported is read once more; nvidia-smi may have      *)
(* stopped answering.                                                      *)
Settle(k, answers) ==
    LET still == answers /\ Reported(kills[k].pid) # None IN
    /\ kills[k].stage = "settling"
    /\ kills' = [kills EXCEPT ![k].stage = "done", ![k].exited = @ /\ ~still,
                              ![k].answer = IF ~answers THEN "unconfirmed" ELSE IF still THEN "still_held" ELSE "released"]
    /\ UNCHANGED <<at, context, live, spawned>>

MutUnanswered(k) ==
    /\ kills[k].stage = "asked"
    /\ kills' = [kills EXCEPT ![k].stage = "done"]
    /\ UNCHANGED <<at, context, live, spawned>>

(* No token, no agent URL, or no answer.                                   *)
Unanswered(k) ==
    /\ kills[k].stage = "asked"
    /\ kills' = [kills EXCEPT ![k].stage = "done", ![k].answer = "node_agent_unreachable"]
    /\ UNCHANGED <<at, context, live, spawned>>

(* The machine and the deployments meanwhile.                              *)
Spawns(pid, x) ==
    /\ at[pid] = None /\ context[pid] = None /\ x \notin spawned
    /\ at' = [at EXCEPT ![pid] = x] /\ context' = [context EXCEPT ![pid] = x]
    /\ spawned' = spawned \cup {x}
    /\ UNCHANGED <<live, kills>>
Exits(pid, frees) ==
    /\ at[pid] # None /\ pid \notin Protected
    /\ at' = [at EXCEPT ![pid] = None]
    /\ context' = IF frees THEN [context EXCEPT ![pid] = None] ELSE context
    /\ UNCHANGED <<live, kills, spawned>>
DriverFrees(pid) ==
    /\ at[pid] = None /\ context[pid] # None
    /\ context' = [context EXCEPT ![pid] = None]
    /\ UNCHANGED <<at, live, kills, spawned>>
DeploymentTurns(d) ==
    /\ live' = IF d \in live THEN live \ {d} ELSE live \cup {d}
    /\ UNCHANGED <<at, context, kills, spawned>>

KillsInit ==
    /\ at = [pid \in Pids |-> None] /\ context = [pid \in Pids |-> None]
    /\ live = Deployments /\ spawned = {}
    /\ kills = [k \in KillCalls |-> Waiting]

KillsNext ==
    \/ \E k \in KillCalls :
          \/ \E pid \in Pids, readable \in BOOLEAN : CheckKill(k, pid, readable)
          \/ SendTerm(k) \/ GraceEnds(k) \/ ForceEnds(k) \/ Unanswered(k)
          \/ \E answers \in BOOLEAN : Settle(k, answers)
    \/ \E pid \in Pids :
          \/ \E x \in Processes : Spawns(pid, x)
          \/ \E frees \in BOOLEAN : Exits(pid, frees)
          \/ DriverFrees(pid)
    \/ \E d \in Deployments : DeploymentTurns(d)

KillsSpec == KillsInit /\ [][KillsNext]_killVars

----------------------------------------------------------------------------
(* Processes are where they are once, and calls have their types.          *)
KillsTypeOK ==
    /\ \A p, q \in Pids : p # q /\ at[p] # None => at[p] # at[q]
    /\ \A p \in Pids : at[p] # None => context[p] = at[p]
    /\ \A k \in KillCalls :
          /\ kills[k].stage \in {"idle", "asked", "grace", "forced", "settling", "done"}
          /\ kills[k].stage = "done" <=> kills[k].answer # None

(* Nothing the coordinator could see to serve a live deployment is         *)
(* signalled by the call that saw it.                                      *)
ServingSpared == \A k \in KillCalls : kills[k].hit \cap kills[k].spared = {}

(* The agent and what it runs under are never signalled.                   *)
AgentSpared == \A k \in KillCalls : kills[k].pid \in Protected => kills[k].hit = {}

(* "Success means the memory came back": a kill that is reported to have   *)
(* ended its target has, and a release is told only when no context is     *)
(* left under the pid, whatever the driver keeps after the process.        *)
ReclaimTrue ==
    [][\A k \in KillCalls : kills[k].stage = "settling" /\ kills'[k].stage = "done" =>
         /\ kills'[k].exited => \A p \in Pids : at[p] # kills[k].victim
         /\ kills'[k].answer = "released" => context[kills[k].pid] = None]_killVars

(* Documented by procs.py ("The list is re-read at kill time"): of what    *)
(* was not on that list nothing is signalled; a pid taken over during the  *)
(* grace time gets the SIGKILL of the one before it.                       *)
VictimOnly == \A k \in KillCalls : kills[k].hit \subseteq {kills[k].victim}

(* What a kill promises although processes exit, and others take their     *)
(* pids, between its reading and its signals: what serves a live           *)
(* deployment and the agent itself are spared, and a release is told only  *)
(* when the memory is back.                                                *)
KillsPromise ==
    [](KillsTypeOK /\ ServingSpared /\ AgentSpared)
    /\ ReclaimTrue
=============================================================================
