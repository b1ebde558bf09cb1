------------------------- MODULE RestartCoordinator ------------------------
(***************************************************************************)
(* gateway/restart.py: the coordinator that relaunches a deployment which  *)
(* crashed, for one served name (its state is kept per served name).       *)
(*                                                                         *)
(* The manager's side is as much of it as the coordinator sees: the newest *)
(* deployment under the name, and the STATE_CHANGED events it publishes.   *)
(* The consumer task handles one event at a time.  A retry loop is a task  *)
(* of its own, and the launch it makes runs in a worker thread: cancelling *)
(* the task does not stop the thread.                                      *)
(***************************************************************************)
EXTENDS Integers, Sequences, FiniteSets

CONSTANTS
    MaxAttempts,     \* MAX_RESTART_ATTEMPTS
    MaxDeployments,  \* bound: deployments launched under the name
    MaxLoops,        \* bound: retry loops started
    MaxToggles       \* bound: how often the setting is changed

ASSUME BoundsAssumption ==
    /\ MaxAttempts \in Nat \ {0} /\ MaxDeployments \in Nat \ {0}
    /\ MaxLoops \in Nat \ {0} /\ MaxToggles \in Nat

VARIABLES
    dep,         \* the newest deployment: its number, its state, how it came
    events,      \* what the bus holds for the coordinator
    auto,        \* auto_restart_crashed_deployments
    toggles,
    consuming,   \* the consumer task runs
    cur,         \* _state[served_name]: the loop of the state object, or 0
    loop,        \* the state objects and their tasks, by the order they were made
    gaveUp,      \* the newest crash was surfaced, or its record is gone
    relaunches   \* relaunches since a deployment was READY or a human acted

vars == <<dep, events, auto, toggles, consuming, cur, loop, gaveUp, relaunches>>

Live == {"launching", "ready"}
Loops == 1 .. MaxLoops

(* A loop: "top": at the head of `while`; "sleep"; "plan": planning and    *)
(* fitting; "launch": its thread is in launch(); "back": the thread is     *)
(* done and the task not yet resumed; "ended"; "orphan": ended, with a     *)
(* thread still in launch().  `result` is what the thread brought back.    *)
Places == {"unused", "top", "sleep", "plan", "launch", "back", "ended", "orphan"}
Running == {"top", "sleep", "plan", "launch", "back"}
Unused == [at |-> "unused", cancelled |-> FALSE, attempts |-> 0,
           inFlight |-> FALSE, result |-> "none"]
Started == [at |-> "top", cancelled |-> FALSE, attempts |-> 0,
            inFlight |-> TRUE, result |-> "none"]

LoopRecords == [at : Places, cancelled : BOOLEAN, attempts : 0 .. MaxAttempts,
                inFlight : BOOLEAN,
                result : {"none", "launched", "conflict", "error"}]

TypeOK ==
    /\ dep \in [id : 1 .. MaxDeployments,
                st : {"launching", "ready", "crashed", "stopped"}]
    /\ events \in Seq({"ready", "failed", "operator"})
    /\ auto \in BOOLEAN /\ toggles \in 0 .. MaxToggles /\ consuming \in BOOLEAN
    /\ cur \in 0 .. MaxLoops
    /\ loop \in [Loops -> LoopRecords]
    /\ gaveUp \in BOOLEAN
    /\ relaunches \in 0 .. MaxDeployments

Init ==
    /\ dep = [id |-> 1, st |-> "launching"]
    /\ events = << >>
    /\ auto = TRUE /\ toggles = 0 /\ consuming = TRUE
    /\ cur = 0
    /\ loop = [k \in Loops |-> Unused]
    /\ gaveUp = FALSE
    /\ relaunches = 0

----------------------------------------------------------------------------
(* The manager, as seen from here.                                         *)

Ready ==
    /\ dep.st = "launching"
    /\ dep' = [dep EXCEPT !.st = "ready"]
    /\ events' = Append(events, "ready")
    /\ relaunches' = 0
    /\ UNCHANGED <<auto, toggles, consuming, cur, loop, gaveUp>>

\* A launch that fails, or a backend that dies: FAILED, with some reason.
Crash ==
    /\ dep.st \in Live
    /\ dep' = [dep EXCEPT !.st = "crashed"]
    /\ events' = Append(events, "failed")
    /\ gaveUp' = FALSE
    /\ UNCHANGED <<auto, toggles, consuming, cur, loop, relaunches>>

\* stop(): of a launch it is FAILED with the operator's reason; of a serving
\* deployment it ends in STOPPED, whose events the coordinator ignores.
OperatorStop ==
    /\ dep.st \in Live
    /\ dep' = [dep EXCEPT !.st = "stopped"]
    /\ events' = IF dep.st = "launching" THEN Append(events, "operator") ELSE events
    /\ UNCHANGED <<auto, toggles, consuming, cur, loop, gaveUp, relaunches>>

OperatorLaunch ==
    /\ dep.st \notin Live
    /\ dep.id < MaxDeployments
    /\ dep' = [id |-> dep.id + 1, st |-> "launching"]
    /\ relaunches' = 0
    /\ UNCHANGED <<events, auto, toggles, consuming, cur, loop, gaveUp>>

Toggle ==
    /\ toggles < MaxToggles
    /\ toggles' = toggles + 1
    /\ auto' = ~auto
    /\ UNCHANGED <<dep, events, consuming, cur, loop, gaveUp, relaunches>>

----------------------------------------------------------------------------
(* The consumer: _handle.                                                  *)

Cancel(K) == [k \in Loops |-> IF k \in K /\ loop[k].at \in Running
                              THEN [loop[k] EXCEPT !.cancelled = TRUE]
                              ELSE loop[k]]

\* READY: the state object goes and its task with it.
HandleReady ==
    /\ Head(events) = "ready"
    /\ cur' = 0
    /\ loop' = Cancel({cur})

\* Mutant: every crash starts a loop.
MutWanted == auto

\* A crash, with the setting on and no loop in flight, starts one.
Wanted == auto /\ (cur = 0 \/ ~loop[cur].inFlight)

HandleFailed ==
    /\ Head(events) = "failed"
    /\ IF Wanted
       THEN \E k \in Loops :
               /\ loop[k].at = "unused"
               /\ \A j \in 1 .. k - 1 : loop[j].at # "unused"
               /\ cur' = k
               /\ loop' = [loop EXCEPT ![k] = Started]
       ELSE UNCHANGED <<cur, loop>>

Handle ==
    /\ consuming /\ events # << >>
    /\ \/ HandleReady
       \/ HandleFailed
       \/ Head(events) = "operator" /\ UNCHANGED <<cur, loop>>
    /\ events' = Tail(events)
    /\ UNCHANGED <<dep, auto, toggles, consuming, gaveUp, relaunches>>

\* stop(): the consumer and the tasks of the state objects are cancelled.
Stop ==
    /\ consuming
    /\ consuming' = FALSE
    /\ cur' = 0
    /\ loop' = Cancel({cur})
    /\ UNCHANGED <<dep, events, auto, toggles, gaveUp, relaunches>>

----------------------------------------------------------------------------
(* The task: _retry_loop and _attempt_relaunch.                            *)

\* Mutant: no `finally`.
MutEnded(k) == [loop EXCEPT ![k].at = "ended"]

\* The `finally` clears the flag of the loop's own state object.
Ended(k) == [loop EXCEPT ![k].at = "ended", ![k].inFlight = FALSE]

At(k, place) == loop[k].at = place /\ ~loop[k].cancelled

\* Mutant: one attempt too many.
MutTop(k) ==
    /\ At(k, "top")
    /\ IF loop[k].attempts <= MaxAttempts
       THEN /\ loop' = IF auto THEN [loop EXCEPT ![k].at = "sleep"] ELSE Ended(k)
            /\ UNCHANGED gaveUp
       ELSE /\ loop' = Ended(k)
            /\ gaveUp' = TRUE
    /\ UNCHANGED <<dep, events, auto, toggles, consuming, cur, relaunches>>

\* The head of the loop: another round, or the budget is spent.
Top(k) ==
    /\ At(k, "top")
    /\ IF loop[k].attempts < MaxAttempts
       THEN /\ loop' = IF auto THEN [loop EXCEPT ![k].at = "sleep"] ELSE Ended(k)
            /\ UNCHANGED gaveUp
       ELSE /\ loop' = Ended(k)
            /\ gaveUp' = TRUE
    /\ UNCHANGED <<dep, events, auto, toggles, consuming, cur, relaunches>>

\* Mutant: an attempt that is not counted.
MutWake(k) ==
    /\ At(k, "sleep")
    /\ IF auto THEN loop' = [loop EXCEPT ![k].at = "plan"]
               ELSE loop' = Ended(k)
    /\ UNCHANGED <<dep, events, auto, toggles, consuming, cur, gaveUp, relaunches>>

\* The backoff is over: the setting is read again, and the crashed record.
Wake(k) ==
    /\ At(k, "sleep")
    /\ IF auto THEN loop' = [loop EXCEPT ![k].at = "plan", ![k].attempts = @ + 1]
               ELSE loop' = Ended(k)
    /\ UNCHANGED <<dep, events, auto, toggles, consuming, cur, gaveUp, relaunches>>

RecordGone(k) ==
    /\ At(k, "sleep") /\ auto
    /\ loop' = Ended(k)
    /\ gaveUp' = TRUE
    /\ UNCHANGED <<dep, events, auto, toggles, consuming, cur, relaunches>>

\* Planning fails, or the model no longer fits or is not supported.
PlanFails(k) ==
    /\ At(k, "plan")
    /\ loop' = [loop EXCEPT ![k].at = "top"]
    /\ UNCHANGED <<dep, events, auto, toggles, consuming, cur, gaveUp, relaunches>>

\* supported_by() or the check of the sharding raises: logged, and no retry.
Raises(k) ==
    /\ At(k, "plan")
    /\ loop' = Ended(k)
    /\ gaveUp' = TRUE
    /\ UNCHANGED <<dep, events, auto, toggles, consuming, cur, relaunches>>

CallLaunch(k) ==
    /\ At(k, "plan")
    /\ loop' = [loop EXCEPT ![k].at = "launch"]
    /\ UNCHANGED <<dep, events, auto, toggles, consuming, cur, gaveUp, relaunches>>

\* In the worker thread: launch() finds a conflict, raises, or launches.
ThreadLaunch(k) ==
    /\ loop[k].at \in {"launch", "orphan"}
    /\ \E result \in {"launched", "conflict", "error"} :
          /\ (result = "conflict") <=> (dep.st \in Live)
          /\ result = "launched" => dep.id < MaxDeployments
          /\ IF result = "launched"
             THEN /\ dep' = [id |-> dep.id + 1, st |-> "launching"]
                  /\ relaunches' = relaunches + 1
             ELSE UNCHANGED <<dep, relaunches>>
          /\ loop' = IF loop[k].at = "orphan" THEN [loop EXCEPT ![k].at = "ended"]
                     ELSE [loop EXCEPT ![k].at = "back", ![k].result = result]
    /\ UNCHANGED <<events, auto, toggles, consuming, cur, gaveUp>>

Resume(k) ==
    /\ At(k, "back")
    /\ loop' = IF loop[k].result = "error" THEN [loop EXCEPT ![k].at = "top"]
                                            ELSE Ended(k)
    /\ UNCHANGED <<dep, events, auto, toggles, consuming, cur, gaveUp, relaunches>>

\* CancelledError reaches the task; its thread, if it is in one, goes on.
Unwind(k) ==
    /\ loop[k].cancelled /\ loop[k].at \in Running
    /\ loop' = [Ended(k) EXCEPT ![k].at =
                   IF loop[k].at = "launch" THEN "orphan" ELSE "ended"]
    /\ UNCHANGED <<dep, events, auto, toggles, consuming, cur, gaveUp, relaunches>>

Step(k) ==
    \/ Top(k) \/ Wake(k) \/ RecordGone(k) \/ PlanFails(k) \/ Raises(k)
    \/ CallLaunch(k) \/ ThreadLaunch(k) \/ Resume(k) \/ Unwind(k)

Next ==
    \/ Ready \/ Crash \/ OperatorStop \/ OperatorLaunch \/ Toggle
    \/ Handle \/ Stop
    \/ \E k \in Loops : Step(k)

Spec == Init /\ [][Next]_vars

(* The event loop runs what is ready to run, sleeps end, and a thread      *)
(* returns from launch(), which only takes the manager's lock and writes a *)
(* file.                                                                   *)
Fairness == WF_vars(Handle) /\ \A k \in Loops : WF_vars(Step(k))

FairSpec == Spec /\ Fairness

----------------------------------------------------------------------------
(* Properties.                                                             *)

(* One retry loop at a time: an event that comes while a cancelled loop is *)
(* still unwinding may start a new one, and the old one's `finally` must   *)
(* not make the new one look finished.                                     *)
OneLoop ==
    \A j, k \in Loops :
        /\ loop[j].at \in Running /\ ~loop[j].cancelled
        /\ loop[k].at \in Running /\ ~loop[k].cancelled
        => j = k

(* in_flight of the current state object tells whether its loop is still   *)
(* running; a stale flag would either drop every later crash or let a      *)
(* second loop start.                                                      *)
FlagExact == cur # 0 => (loop[cur].inFlight <=> loop[cur].at \in Running)

(* The coordinator's books of its loops: one at work, a flag that tells    *)
(* so, and no loop past its attempts.                                      *)
LoopBooks == TypeOK /\ OneLoop /\ FlagExact

(* Every loop comes to an end, whatever its attempts run into.             *)
LoopsEnd ==
    \A k \in Loops : loop[k].at = "top" ~> loop[k].at \in {"ended", "orphan"}

(* "a permanently broken model ... must stop looping and surface to a      *)
(* human rather than retry forever" (restart.py): without a READY or a     *)
(* human's launch in between there are at most MaxAttempts relaunches.     *)
BudgetHolds == relaunches <= MaxAttempts

(* "relaunches ... when a deployment crashes rather than being stopped by  *)
(* an operator" (restart.py): what an operator stopped stays stopped.      *)
OperatorStopSticks ==
    [][dep.st = "stopped" /\ dep'.id # dep.id => relaunches' = 0]_vars

(* A crash is answered, as long as the setting stays on: the deployment is *)
(* relaunched, by someone, or the coordinator gives up in the open.        *)
CrashAnswered ==
    dep.st = "crashed" /\ auto /\ consuming
        ~> dep.st # "crashed" \/ gaveUp \/ ~auto \/ ~consuming
=============================================================================
