----------------------------- MODULE ParkingLot ----------------------------
(***************************************************************************)
(* gateway/parking.py: the bounded waiting room for requests whose model   *)
(* has no live target.  Each request waits in the line of its model, and   *)
(* only the head of a line asks the router for a target.                   *)
(*                                                                         *)
(* One event loop runs them all: an action is what happens between two     *)
(* awaits of park(), which are `await is_disconnected()` and the wait for  *)
(* the line to change.  Event.set() readies whoever waits at that moment;  *)
(* every waiter clears the event before it waits, so the event itself      *)
(* carries nothing from one wait to the next.                              *)
(***************************************************************************)
EXTENDS Integers, Sequences, FiniteSets, SequencesExt

CONSTANTS
    Waiters,       \* requests; each comes once
    Models,        \* served names
    ModelOf,       \* ModelOf[w]
    Large,         \* requests whose body is over park_max_body_bytes
    MaxWaiters,    \* park_max_waiters
    MaxPerModel    \* park_max_per_model

ASSUME ModelAssumption == ModelOf \in [Waiters -> Models] /\ Large \subseteq Waiters
ASSUME LotBoundsAssumption == MaxWaiters \in Nat /\ MaxPerModel \in Nat

VARIABLES
    queue,      \* queue[m]: the tickets of model m
    parked,     \* _parked
    closed,     \* _closed
    at,         \* where a request is
    late,       \* its deadline has passed
    asked,      \* it has called select() as the head of its line
    up          \* models select() has a target for

lotVars == <<queue, parked, closed, at, late, asked, up>>

(* "idle"; "top": ready to run from the head of `while`; "ask": in         *)
(* is_disconnected(); "wait": for the line to change; "served": left with  *)
(* a target; "out": turned away, or left without one.                      *)
Inside == {"top", "ask", "wait"}

LotTypeOK ==
    /\ queue \in [Models -> Seq(Waiters)]
    /\ parked \in 0 .. MaxWaiters
    /\ closed \in BOOLEAN
    /\ at \in [Waiters -> Inside \cup {"idle", "served", "out"}]
    /\ late \subseteq Waiters /\ asked \subseteq Waiters /\ up \subseteq Models

LotInit ==
    /\ queue = [m \in Models |-> << >>]
    /\ parked = 0
    /\ closed = FALSE
    /\ at = [w \in Waiters |-> "idle"]
    /\ late = {} /\ asked = {}
    /\ up = {}

IsHead(w) == Head(queue[ModelOf[w]]) = w

----------------------------------------------------------------------------

\* Mutant: one more than the line may hold.
MutAccepts(w) ==
    /\ ~closed /\ w \notin Large
    /\ parked < MaxWaiters
    /\ Len(queue[ModelOf[w]]) <= MaxPerModel

\* accepts(): overflow is refused, not queued.
Accepts(w) ==
    /\ ~closed /\ w \notin Large
    /\ parked < MaxWaiters
    /\ Len(queue[ModelOf[w]]) < MaxPerModel

\* _serve asks accepts() and enters the lot without an await in between.
Park(w) ==
    /\ at[w] = "idle" /\ Accepts(w)
    /\ queue' = [queue EXCEPT ![ModelOf[w]] = Append(@, w)]
    /\ parked' = parked + 1
    /\ at' = [at EXCEPT ![w] = "top"]
    /\ UNCHANGED <<closed, late, asked, up>>

TurnAway(w) ==
    /\ at[w] = "idle" /\ ~Accepts(w)
    /\ at' = [at EXCEPT ![w] = "out"]
    /\ UNCHANGED <<queue, parked, closed, late, asked, up>>

\* Event.set() on the lines of the models of M.
Woken(M) == [v \in Waiters |->
                IF at[v] = "wait" /\ ModelOf[v] \in M THEN "top" ELSE at[v]]

\* Mutant: the ticket goes, the count stays.
MutLeave(w, how) ==
    /\ queue' = [queue EXCEPT ![ModelOf[w]] = RemoveFirst(@, w)]
    /\ at' = [Woken({ModelOf[w]}) EXCEPT ![w] = how]
    /\ late' = late \ {w} /\ asked' = asked \ {w}
    /\ UNCHANGED parked

\* Mutant: the way out releases the count, and `finally` once more.
MutLeaveTwice(w, how) ==
    /\ queue' = [queue EXCEPT ![ModelOf[w]] = RemoveFirst(@, w)]
    /\ parked' = parked - 2
    /\ at' = [Woken({ModelOf[w]}) EXCEPT ![w] = how]
    /\ late' = late \ {w} /\ asked' = asked \ {w}

\* The `finally`: the ticket and the count go, and the line hears of it.
Leave(w, how) ==
    /\ queue' = [queue EXCEPT ![ModelOf[w]] = RemoveFirst(@, w)]
    /\ parked' = parked - 1
    /\ at' = [Woken({ModelOf[w]}) EXCEPT ![w] = how]
    /\ late' = late \ {w} /\ asked' = asked \ {w}

\* Mutant: whoever is awake may take the target.
MutLineTop(w) ==
    /\ at[w] = "top"
    /\ IF closed \/ ModelOf[w] \in up
       THEN Leave(w, IF closed THEN "out" ELSE "served")
       ELSE /\ at' = [at EXCEPT ![w] = "ask"]
            /\ asked' = IF IsHead(w) THEN asked \cup {w} ELSE asked
            /\ UNCHANGED <<queue, parked, late>>
    /\ UNCHANGED <<closed, up>>

\* The head of the loop: the lot is closed, or the head of the line has a
\* target, or the client is asked for.
LineTop(w) ==
    /\ at[w] = "top"
    /\ IF closed \/ (IsHead(w) /\ ModelOf[w] \in up)
       THEN Leave(w, IF closed THEN "out" ELSE "served")
       ELSE /\ at' = [at EXCEPT ![w] = "ask"]
            /\ asked' = IF IsHead(w) THEN asked \cup {w} ELSE asked
            /\ UNCHANGED <<queue, parked, late>>
    /\ UNCHANGED <<closed, up>>

\* Mutant: nobody looks at the deadline.
MutAnswered(w) ==
    /\ at[w] = "ask"
    /\ at' = [at EXCEPT ![w] = "wait"]
    /\ UNCHANGED <<queue, parked, closed, late, asked, up>>

\* The client is still there: give up at the deadline, else wait.
Answered(w) ==
    /\ at[w] = "ask"
    /\ IF w \in late
       THEN Leave(w, "out")
       ELSE /\ at' = [at EXCEPT ![w] = "wait"]
            /\ UNCHANGED <<queue, parked, late, asked>>
    /\ UNCHANGED <<closed, up>>

Disconnected(w) ==
    /\ at[w] = "ask"
    /\ Leave(w, "out")
    /\ UNCHANGED <<closed, up>>

\* The poll interval, or what is left of the grace, is over.
Poll(w) ==
    /\ at[w] = "wait"
    /\ at' = [at EXCEPT ![w] = "top"]
    /\ UNCHANGED <<queue, parked, closed, late, asked, up>>

\* park_grace_s has passed for w.
DeadlinePasses(w) ==
    /\ at[w] \in Inside /\ w \notin late
    /\ late' = late \cup {w}
    /\ UNCHANGED <<queue, parked, closed, at, asked, up>>

CloseLot ==
    /\ ~closed
    /\ closed' = TRUE
    /\ at' = Woken(Models)
    /\ UNCHANGED <<queue, parked, late, asked, up>>

\* A target comes back, or goes again.
Flap(m) ==
    /\ up' = IF m \in up THEN up \ {m} ELSE up \cup {m}
    /\ UNCHANGED <<queue, parked, closed, at, late, asked>>

Run(w) == LineTop(w) \/ Answered(w) \/ Poll(w)

LotNext ==
    \/ \E w \in Waiters :
          Park(w) \/ TurnAway(w) \/ Run(w) \/ Disconnected(w) \/ DeadlinePasses(w)
    \/ CloseLot
    \/ \E m \in Models : Flap(m)

LotSpec == LotInit /\ [][LotNext]_lotVars

\* The event loop runs what is ready, is_disconnected() returns, time passes.
LotFairness == \A w \in Waiters : WF_lotVars(Run(w)) /\ WF_lotVars(DeadlinePasses(w))

LotFairSpec == LotSpec /\ LotFairness

----------------------------------------------------------------------------
(* Properties.                                                             *)

(* _parked is the number of tickets, and a request holds one exactly while *)
(* it is in park(), whichever of the five exits it takes.                  *)
CountExact ==
    /\ parked = Cardinality({w \in Waiters : at[w] \in Inside})
    /\ \A m \in Models :
          /\ ToSet(queue[m]) = {w \in Waiters : at[w] \in Inside /\ ModelOf[w] = m}
          /\ IsInjective(queue[m])

(* Both bounds hold at once, with requests of several models coming in.    *)
WithinBounds == parked <= MaxWaiters /\ \A m \in Models : Len(queue[m]) <= MaxPerModel

(* park(): "a recovering node is handed to the request that has waited     *)
(* longest": a request never leaves with a target while one that came      *)
(* before it is still in line.                                             *)
LongestFirst ==
    [][\A w \in Waiters : at[w] # "served" /\ at'[w] = "served" =>
          \A v \in ToSet(queue'[ModelOf[w]]) \ {w} :
              \E i, j \in 1 .. Len(queue[ModelOf[w]]) :
                  i < j /\ queue[ModelOf[w]][i] = w /\ queue[ModelOf[w]][j] = v]_lotVars

(* "every way out of the lot is bounded": whoever enters leaves, so when   *)
(* nobody comes any more the lot is empty.                                 *)
EveryoneLeaves == []<>(\A w \in Waiters : at[w] \notin Inside)

(* What the parking lot promises whatever way a request leaves: the count  *)
(* is exact, both bounds hold, and a target goes to whoever waited longest.*)
LotPromise == [](LotTypeOK /\ CountExact /\ WithinBounds) /\ LongestFirst

(* _Queue.changed is "set whenever a waiter leaves, so the next in line    *)
(* wakes at once instead of sitting out the rest of its poll interval": no *)
(* request waits at the head of its line without having asked as the head. *)
HeadHasAsked == \A w \in Waiters : at[w] = "wait" /\ IsHead(w) => w \in asked
=============================================================================
