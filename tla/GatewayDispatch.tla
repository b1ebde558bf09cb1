-------------------------- MODULE GatewayDispatch --------------------------
(***************************************************************************)
(* How the gateway serves one model's requests from several targets:       *)
(* openai_api.py (_dispatch and the functions nested in it), proxy.py      *)
(* (forward, forward_provider, the body generators, discard and the        *)
(* janitor), with the circuit breaker (breaker.py), the KV commitments     *)
(* (admission.py) and the outstanding counts (stats.py) they keep.         *)
(*                                                                         *)
(* A request is offered to one target after another.  Its turn on target t *)
(* is leg[r][t]; _dispatch never offers a request twice to one target.     *)
(* A hedge races a second leg against a stalled one, and a response that   *)
(* dies before the client has seen a byte is finished from another leg.    *)
(*                                                                         *)
(* Everything runs on one event loop, so an action is a stretch of code    *)
(* between two awaits, or a part of one: where the code goes on without an *)
(* await (an outcome, then the next claim) the model lets other requests   *)
(* run in between, which only adds interleavings.                          *)
(***************************************************************************)
EXTENDS CircuitBreaker, FiniteSets, FiniteSetsExt

CONSTANTS
    Requests,      \* client requests for the model; each arrives once
    Targets,       \* targets that serve it
    Local,         \* those that are local text deployments, with a KV budget
    Cost,          \* Cost[r]: what admission charges for r
    KvBudget,      \* kv_budget of a deployment; 0: not known, no check
    MaxAttempts,   \* failover_max_attempts
    Hedging,       \* hedge_after_s is not None
    Churn,         \* bound: the targets that may come and go
    None           \* no target

ASSUME TargetsAssumption ==
    Local \subseteq Targets /\ Churn \subseteq Targets /\ None \notin Targets
ASSUME FiniteAssumption == IsFiniteSet(Requests) /\ IsFiniteSet(Targets)
ASSUME CostAssumption == Cost \in [Requests -> Nat \ {0}] /\ KvBudget \in Nat
ASSUME AttemptsAssumption == MaxAttempts \in Nat \ {0} /\ Hedging \in BOOLEAN

VARIABLES
    circ,          \* CircuitBreaker._circuits
    kv,            \* AdmissionController._committed
    outstanding,   \* TargetStats.outstanding
    up,            \* targets that are healthy and admitting, the breaker aside
    req,           \* what _dispatch knows of a request
    leg            \* leg[r][t]: the turn of target t with request r

vars == <<circ, kv, outstanding, up, req, leg>>

(* Where a leg is.  "claimed": the breaker let it begin; "connect": httpx  *)
(* gets it a connection; "send": it is sent, and waits for the response    *)
(* line, as long as that takes; "error", "reject": reading the body of a   *)
(* 5xx, of a 4xx; "hold": waiting for the first chunk; "ready": a response *)
(* whose body nobody has started to read; "stream": its body generator     *)
(* runs; "reopen": it died, and the generator waits for a replacement.     *)
(* What _attempt_on returns: "ready", "answer" (a complete response),      *)
(* "retry", "pool" (a retry for want of a connection of our own), "skip"   *)
(* (None), "refused" (a Response of the gateway's own).  Then "gone":      *)
(* settled; "cut": cancelled before there was a verdict on the transport,  *)
(* and settled; "stranded": never settled, and nobody will.                *)

Early == {"claimed", "connect"}
Unreached == Early \cup {"send"}
InProgress == Unreached \cup {"error", "reject", "hold"}
Usable == {"ready", "answer"}
Unusable == {"retry", "pool", "skip", "refused"}
Holding == {"connect", "send", "error", "reject", "hold", "ready", "stream", "reopen",
            "stranded"}
Places == InProgress \cup Usable \cup Unusable \cup Holding
            \cup {"no", "gone", "cut"}

Legs == [at : Places, probe : BOOLEAN]
NoLeg == [at |-> "no", probe |-> FALSE]

(* phase: "new"; "claim": the loop is about to pick a target; "wait": for  *)
(* its legs; "nowhere": _dispatch returned None; "body": the client has    *)
(* the response line; "over".  n is attempt_no, last tells whether `last`  *)
(* is set; main and mate are the targets of the leg that is awaited, or    *)
(* whose body is sent, and of the one beside it (the hedge, the            *)
(* replacement); hedged: _hedged got past its first wait; again: the body  *)
(* of main was made with a reopen; seen: whose bytes the client has.       *)

Dispatches == [phase  : {"new", "claim", "wait", "nowhere", "body", "over"},
               n      : 0 .. MaxAttempts,
               tried  : SUBSET Targets,
               main   : Targets \cup {None},
               mate   : Targets \cup {None},
               last   : BOOLEAN,
               parked : BOOLEAN,
               hedged : BOOLEAN,
               again  : BOOLEAN,
               seen   : SUBSET Targets]

Fresh == [phase |-> "new", n |-> 0, tried |-> {}, main |-> None, mate |-> None,
          last |-> FALSE, parked |-> FALSE, hedged |-> FALSE, again |-> FALSE,
          seen |-> {}]

TypeOK ==
    /\ circ \in [Targets -> Circuits]
    /\ kv \in [Targets -> Nat]
    /\ outstanding \in [Targets -> Nat]
    /\ up \subseteq Targets
    /\ req \in [Requests -> Dispatches]
    /\ leg \in [Requests -> [Targets -> Legs]]

Init ==
    /\ circ = [t \in Targets |-> Closed]
    /\ kv = [t \in Targets |-> 0]
    /\ outstanding = [t \in Targets |-> 0]
    /\ up = Targets
    /\ req = [r \in Requests |-> Fresh]
    /\ leg = [r \in Requests |-> [t \in Targets |-> NoLeg]]

----------------------------------------------------------------------------
(* Pieces of steps.                                                        *)

Circuit(t, c) == circ' = [circ EXCEPT ![t] = c]

\* The leg of r on t moves; `verdict` says that the breaker heard of it.
Move(r, t, at, verdict) ==
    leg' = [leg EXCEPT ![r][t] =
               [at |-> at, probe |-> @.probe /\ ~verdict]]

Down(n, k) == IF n > k THEN n - k ELSE 0

\* settle() of r's legs on the targets of S: stats, then on_finish.
Settle(r, S) ==
    /\ outstanding' = [t \in Targets |->
            IF t \in S THEN Down(outstanding[t], 1) ELSE outstanding[t]]
    /\ kv' = [t \in Targets |->
            IF t \in S \cap Local THEN Down(kv[t], Cost[r]) ELSE kv[t]]

Unsettled == UNCHANGED <<kv, outstanding>>

\* What select() can hand out: the policies pick among these, each in its way.
Offered(r) == {t \in up \ req[r].tried : ~Open(circ[t])}

\* Mutant: checks what is committed, without this request.
MutFits(r, t) == KvBudget = 0 \/ kv[t] <= KvBudget

\* check(): the commitments and this one stay within the budget.
Fits(r, t) == KvBudget = 0 \/ kv[t] + Cost[r] <= KvBudget

\* begin() of the breaker has let r have its turn on t.
Claimed(t) == [at |-> "claimed", probe |-> circ[t].bench = "cooled"]

(* The claim, and what _attempt_on does before its first await, on top of  *)
(* lg and c.  A turn that runs as a task of its own starts later; so does  *)
(* one on a provider, which awaits its key or its context manager first.   *)
Take(r, t, task, lg, c) ==
    LET claimed == [lg EXCEPT ![r][t] = Claimed(t)] IN
    \/ /\ task \/ t \notin Local
       /\ leg' = claimed
       /\ circ' = [c EXCEPT ![t] = Begun(@)]
       /\ Unsettled
    \/ /\ ~task /\ t \in Local /\ Fits(r, t)
       /\ leg' = [claimed EXCEPT ![r][t].at = "connect"]
       /\ circ' = [c EXCEPT ![t] = Begun(@)]
       /\ outstanding' = [outstanding EXCEPT ![t] = @ + 1]
       /\ kv' = [kv EXCEPT ![t] = @ + Cost[r]]
    \/ /\ ~task /\ t \in Local
       /\ leg' = [lg EXCEPT ![r][t] = [at |-> "refused", probe |-> FALSE]]
       /\ circ' = [c EXCEPT ![t] = Abandoned(Begun(@))]
       /\ Unsettled

----------------------------------------------------------------------------
(* openai_api.py: _dispatch.                                               *)

Arrive(r) ==
    /\ req[r].phase = "new"
    /\ req' = [req EXCEPT ![r].phase = "claim"]
    /\ UNCHANGED <<circ, kv, outstanding, up, leg>>

\* Mutant: the loop runs once too often.
MutClaim(r) ==
    /\ req[r].phase = "claim"
    /\ \E t \in {u \in Offered(r) : ~Busy(circ[u])} :
          /\ req[r].n <= MaxAttempts
          /\ req' = [req EXCEPT ![r] =
                [@ EXCEPT !.phase = "wait", !.main = t, !.mate = None,
                          !.tried = req[r].tried \cup {t},
                          !.hedged = FALSE, !.again = TRUE]]
          /\ Take(r, t, Hedging, leg, circ)
    /\ UNCHANGED up

(* The loop offers the request: _claim skips the targets of S, whose probe *)
(* is out, each at the price of an attempt, and claims t.                  *)
Claim(r) ==
    /\ req[r].phase = "claim"
    /\ \E S \in SUBSET {t \in Offered(r) : Busy(circ[t])} :
       \E t \in {u \in Offered(r) : ~Busy(circ[u])} :
          LET n == req[r].n + Cardinality(S) IN
          /\ n < MaxAttempts
          /\ req' = [req EXCEPT ![r] =
                [@ EXCEPT !.phase = "wait", !.n = n, !.main = t, !.mate = None,
                          !.tried = req[r].tried \cup S \cup {t},
                          !.hedged = FALSE, !.again = TRUE]]
          /\ Take(r, t, Hedging, leg, circ)
    /\ UNCHANGED up

(* The loop ends: it has run through its attempts, no policy offers        *)
(* anything (COST_AWARE passes over targets without a price), or the retry *)
(* budget refuses the claim, which is then given back.  With nothing to    *)
(* show, _dispatch returns None.                                           *)
ClaimNone(r) ==
    /\ req[r].phase = "claim"
    /\ req' = [req EXCEPT ![r].phase = IF req[r].last THEN "over" ELSE "nowhere"]
    /\ \/ UNCHANGED circ
       \/ \E t \in {u \in Offered(r) : ~Busy(circ[u])} :
             req[r].n > 0 /\ Circuit(t, Abandoned(Begun(circ[t])))
    /\ UNCHANGED <<kv, outstanding, up, leg>>

(* Nothing was reachable: the request is parked, once, until select() has  *)
(* something, and dispatched afresh; or it is refused.                     *)
Recover(r) ==
    /\ req[r].phase = "nowhere"
    /\ ~req[r].parked
    /\ \E t \in up : ~Open(circ[t])
    /\ req' = [req EXCEPT ![r] = [Fresh EXCEPT !.phase = "claim", !.parked = TRUE]]
    /\ leg' = [leg EXCEPT ![r] = [t \in Targets |-> NoLeg]]
    /\ UNCHANGED <<circ, kv, outstanding, up>>

Refuse(r) ==
    /\ req[r].phase = "nowhere"
    /\ req' = [req EXCEPT ![r].phase = "over"]
    /\ UNCHANGED <<circ, kv, outstanding, up, leg>>

----------------------------------------------------------------------------
(* One target's turn: _attempt_on, forward, forward_provider.              *)

\* Admission commits before anything is sent; a remote has nothing to commit.
Start(r, t) ==
    /\ leg[r][t].at = "claimed"
    /\ t \in Local => Fits(r, t)
    /\ Move(r, t, "connect", FALSE)
    /\ outstanding' = [outstanding EXCEPT ![t] = @ + 1]
    /\ kv' = IF t \in Local THEN [kv EXCEPT ![t] = @ + Cost[r]] ELSE kv
    /\ UNCHANGED <<circ, up, req>>

\* Mutant: a refusal keeps the claim.
MutTurned(r, t) ==
    /\ leg[r][t].at = "claimed"
    /\ \E at \in IF t \in Local THEN {"refused"} ELSE {"refused", "skip"} :
          Move(r, t, at, TRUE)
    /\ UNCHANGED <<circ, kv, outstanding, up, req>>

(* Nothing is sent and the claim is given back: admission refuses (over    *)
(* budget, or longer than the context), a key does not resolve; or an      *)
(* upload cannot be rewritten for a provider, which is no refusal.         *)
Turned(r, t) ==
    /\ leg[r][t].at = "claimed"
    /\ \E at \in IF t \in Local THEN {"refused"} ELSE {"refused", "skip"} :
          Move(r, t, at, TRUE)
    /\ Circuit(t, Abandoned(circ[t]))
    /\ UNCHANGED <<kv, outstanding, up, req>>

(* No connection from our own pool, which is no verdict on the target; or  *)
(* the provider service declines (None) or is misconfigured (an answer).   *)
Unsent(r, t) ==
    /\ leg[r][t].at = "connect"
    /\ \E at \in IF t \in Local THEN {"pool"} ELSE {"pool", "skip", "answer"} :
          Move(r, t, at, TRUE)
    /\ Settle(r, {t})
    /\ Circuit(t, Abandoned(circ[t]))
    /\ UNCHANGED <<up, req>>

Connected(r, t) ==
    /\ leg[r][t].at = "connect"
    /\ Move(r, t, "send", FALSE)
    /\ Unsettled /\ UNCHANGED <<circ, up, req>>

\* No connection, or it breaks before the response line.
Unreachable(r, t) ==
    /\ leg[r][t].at \in {"connect", "send"}
    /\ Move(r, t, "retry", TRUE)
    /\ Settle(r, {t})
    /\ Circuit(t, Failed(circ[t]))
    /\ UNCHANGED <<up, req>>

(* It answered, which is a success whatever it says.  The managed provider *)
(* path has no hold.                                                       *)
Answers(r, t) ==
    /\ leg[r][t].at = "send"
    /\ \E at \in {"error", "reject", "hold"}
                   \cup (IF t \in Local THEN {} ELSE {"ready"}) :
          Move(r, t, at, TRUE)
    /\ Circuit(t, Succeeded(circ[t]))
    /\ Unsettled /\ UNCHANGED <<up, req>>

\* The error body is read, to its end or until the connection breaks.
ErrorRead(r, t) ==
    /\ leg[r][t].at \in {"error", "reject"}
    /\ Move(r, t, IF leg[r][t].at = "error" THEN "retry" ELSE "answer", FALSE)
    /\ Settle(r, {t})
    /\ UNCHANGED <<circ, up, req>>

\* The first chunk, the end of an empty body, or the end of the hold.
HoldEnds(r, t) ==
    /\ leg[r][t].at = "hold"
    /\ Move(r, t, "ready", FALSE)
    /\ Unsettled /\ UNCHANGED <<circ, up, req>>

HoldDies(r, t) ==
    /\ leg[r][t].at = "hold"
    /\ Move(r, t, "retry", FALSE)
    /\ Settle(r, {t})
    /\ Circuit(t, Failed(circ[t]))
    /\ UNCHANGED <<up, req>>

----------------------------------------------------------------------------
(* _hedged: racing a second target.                                        *)

\* The leader stalls and a mate is claimed and raced against it.
Hedge(r) ==
    /\ Hedging
    /\ req[r].phase = "wait"
    /\ ~req[r].hedged
    /\ leg[r][req[r].main].at \in InProgress
    /\ \E t \in {u \in Offered(r) : ~Busy(circ[u])} :
          /\ req' = [req EXCEPT ![r] =
                [@ EXCEPT !.hedged = TRUE, !.mate = t, !.tried = req[r].tried \cup {t}]]
          /\ Take(r, t, TRUE, leg, circ)
    /\ UNCHANGED up

(* It stalls, and there is no mate (None), its probe is out, the budget is *)
(* spent, or may_hedge forbids the one that was claimed: the claim is      *)
(* given back, and the target stays tried.                                 *)
HedgeNone(r) ==
    /\ Hedging
    /\ req[r].phase = "wait"
    /\ ~req[r].hedged
    /\ leg[r][req[r].main].at \in InProgress
    /\ \E t \in Offered(r) \cup {None} :
          /\ req' = [req EXCEPT ![r] =
                [@ EXCEPT !.hedged = TRUE, !.tried = req[r].tried \cup ({t} \ {None})]]
          /\ IF t = None \/ Busy(circ[t])
             THEN UNCHANGED circ
             ELSE Circuit(t, Abandoned(Begun(circ[t])))
    /\ UNCHANGED <<kv, outstanding, up, leg>>

(* Where cancelling leaves a leg.  Before the request is sent, and while   *)
(* forward waits for the response line, the claim is not given back.       *)
(* forward settles in "send" and in "hold"; forward_provider does not, and *)
(* nothing does while an error body is being read.                         *)
Cancelled(r, t) ==
    CASE leg[r][t].at = "claimed" -> {"cut"}
      [] leg[r][t].at \in {"connect", "send"} ->
            IF t \in Local THEN {"cut"} ELSE {"cut", "stranded"}
      [] leg[r][t].at = "hold" -> {"gone"}
      [] leg[r][t].at \in {"error", "reject"} -> {"stranded"}

\* _discard, or cancellation if it is not done: what becomes of a leg that lost.
Discarded(r, t) ==
    IF leg[r][t].at \in InProgress THEN Cancelled(r, t)
    ELSE IF leg[r][t].at = "ready" THEN {"gone"} ELSE {leg[r][t].at}

\* Mutant: a response that lost the race is dropped without being discarded.
MutReleases(r, t, at) ==
    IF leg[r][t].at \in InProgress \cap Holding /\ at # "stranded" THEN {t} ELSE {}

\* The targets whose leg is settled when the leg of r on t goes to `at`.
Releases(r, t, at) ==
    IF leg[r][t].at \in Holding /\ at # "stranded" THEN {t} ELSE {}

\* One of the two has a usable response; the other is thrown away.
Win(r) ==
    /\ req[r].phase = "wait"
    /\ req[r].mate # None
    /\ \E w \in {req[r].main, req[r].mate} :
       LET l == IF w = req[r].main THEN req[r].mate ELSE req[r].main IN
          /\ leg[r][w].at \in Usable
          /\ req' = [req EXCEPT ![r] = [@ EXCEPT !.main = w, !.mate = None,
                        !.again = (w = req[r].main) /\ req[r].again]]
          /\ \E at \in Discarded(r, l) :
                /\ Move(r, l, at, FALSE)
                /\ Settle(r, Releases(r, l, at))
    /\ UNCHANGED <<circ, up>>

\* The first to finish has nothing to show: the other one is awaited.
Yield(r) ==
    /\ req[r].phase = "wait"
    /\ req[r].mate # None
    /\ \E w \in {req[r].main, req[r].mate} :
       LET l == IF w = req[r].main THEN req[r].mate ELSE req[r].main IN
          /\ leg[r][w].at \in Unusable
          /\ req' = [req EXCEPT ![r] = [@ EXCEPT !.main = l, !.mate = None,
                        !.again = (l = req[r].main) /\ req[r].again]]
    /\ UNCHANGED <<circ, kv, outstanding, up, leg>>

\* Mutant: only a failure of our own pool is kept to be shown.
MutOutcome(r) ==
    /\ req[r].phase = "wait"
    /\ req[r].mate = None
    /\ LET at == leg[r][req[r].main].at IN
       /\ at \in Usable \cup Unusable
       /\ req' = [req EXCEPT ![r] =
              [@ EXCEPT !.phase = CASE at = "ready" -> "body"
                                    [] at \in {"answer", "refused"} -> "over"
                                    [] OTHER -> "claim",
                        !.n = IF at \in Unusable \ {"refused"} THEN req[r].n + 1 ELSE req[r].n,
                        !.last = req[r].last \/ at = "pool"]]
    /\ UNCHANGED <<circ, kv, outstanding, up, leg>>

(* The outcome of the attempt: a response goes to the client, a refusal    *)
(* ends the request, anything else the next attempt, unless the deadline   *)
(* has passed and there is something to show.                              *)
Outcome(r) ==
    /\ req[r].phase = "wait"
    /\ req[r].mate = None
    /\ LET at == leg[r][req[r].main].at IN
       /\ at \in Usable \cup Unusable
       /\ \E phase \in CASE at = "ready" -> {"body"}
                         [] at \in {"answer", "refused"} -> {"over"}
                         [] at = "skip" -> {"claim"}
                         [] at \in {"retry", "pool"} -> {"claim", "over"} :
             req' = [req EXCEPT ![r] =
                [@ EXCEPT !.phase = phase,
                          !.n = IF phase = "claim" THEN req[r].n + 1 ELSE req[r].n,
                          !.last = req[r].last \/ at \in {"retry", "pool"}]]
    /\ UNCHANGED <<circ, kv, outstanding, up, leg>>

----------------------------------------------------------------------------
(* The body: stream_body, reopen, and the client.                          *)

Streaming(r) == req[r].phase = "body" /\ leg[r][req[r].main].at = "stream"

\* Starlette starts the body generator.
StartBody(r) ==
    /\ req[r].phase = "body"
    /\ leg[r][req[r].main].at = "ready"
    /\ Move(r, req[r].main, "stream", FALSE)
    /\ Unsettled /\ UNCHANGED <<circ, up, req>>

Chunk(r) ==
    /\ Streaming(r)
    /\ req' = [req EXCEPT ![r].seen = @ \cup {req[r].main}]
    /\ UNCHANGED <<circ, kv, outstanding, up, leg>>

Finish(r) ==
    /\ Streaming(r)
    /\ Move(r, req[r].main, "gone", FALSE)
    /\ Settle(r, {req[r].main})
    /\ req' = [req EXCEPT ![r].phase = "over"]
    /\ UNCHANGED <<circ, up>>

\* Mutant: however much of the body the client has seen.
MutReopensLate(r) == req[r].again /\ req[r].n + 1 < MaxAttempts

\* Mutant: one attempt too many.
MutReopensMore(r) == req[r].seen = {} /\ req[r].again /\ req[r].n < MaxAttempts

\* A response may be finished by another target: no byte seen, one try left.
Reopens(r) == req[r].seen = {} /\ req[r].again /\ req[r].n + 1 < MaxAttempts

\* Mutant: the exception leaves without the `finally`.
MutBodyDies(r) ==
    /\ Streaming(r)
    /\ Move(r, req[r].main, "gone", FALSE)
    /\ Unsettled
    /\ Circuit(req[r].main, Failed(circ[req[r].main]))
    /\ req' = [req EXCEPT ![r].phase = "over"]
    /\ UNCHANGED up

\* The upstream dies under its body and there is no replacement.
BodyDies(r) ==
    /\ Streaming(r)
    /\ Move(r, req[r].main, "gone", FALSE)
    /\ Settle(r, {req[r].main})
    /\ Circuit(req[r].main, Failed(circ[req[r].main]))
    /\ req' = [req EXCEPT ![r].phase = "over"]
    /\ UNCHANGED up

(* It dies and _claim has a replacement.  forward reports the failure now, *)
(* forward_provider when the replacement is decided.                       *)
Reopen(r) ==
    /\ Streaming(r)
    /\ Reopens(r)
    /\ \E t \in {u \in Offered(r) : ~Busy(circ[u])} :
          LET m == req[r].main IN
          /\ req' = [req EXCEPT ![r] = [@ EXCEPT !.mate = t, !.tried = req[r].tried \cup {t}]]
          /\ Take(r, t, FALSE, [leg EXCEPT ![r][m].at = "reopen"],
                  [circ EXCEPT ![m] = IF m \in Local THEN Failed(@) ELSE @])
    /\ UNCHANGED up

Reopening(r) == req[r].phase = "body" /\ leg[r][req[r].main].at = "reopen"

\* The failure of the leg that is being replaced, reported on the way out.
Report(m) == IF m \in Local THEN UNCHANGED circ ELSE Circuit(m, Failed(circ[m]))

\* The replacement's body takes over; it has no reopen of its own.
Replace(r) ==
    /\ Reopening(r)
    /\ leg[r][req[r].mate].at = "ready"
    /\ leg' = [leg EXCEPT ![r][req[r].main].at = "gone",
                          ![r][req[r].mate].at = "stream"]
    /\ Settle(r, {req[r].main})
    /\ Report(req[r].main)
    /\ req' = [req EXCEPT ![r] =
          [@ EXCEPT !.main = req[r].mate, !.mate = None, !.again = FALSE]]
    /\ UNCHANGED up

(* The replacement has no body, or a body of another content-type, which   *)
(* nobody discards: the failure stands.                                    *)
ReplaceNone(r) ==
    /\ Reopening(r)
    /\ leg[r][req[r].mate].at \in Usable \cup Unusable
    /\ leg' = [leg EXCEPT ![r][req[r].main].at = "gone",
                          ![r][req[r].mate].at = IF @ = "ready" THEN "stranded" ELSE @]
    /\ Settle(r, {req[r].main})
    /\ Report(req[r].main)
    /\ req' = [req EXCEPT ![r].phase = "over"]
    /\ UNCHANGED up

(* The client hangs up.  A generator that has started unwinds through its  *)
(* `finally`, and cancels what it awaits; one that has not is never run,   *)
(* and the janitor closes its connection without settling it.              *)
HangUp(r) ==
    /\ req[r].phase = "body"
    /\ req' = [req EXCEPT ![r].phase = "over"]
    /\ LET m == req[r].main
           t == req[r].mate IN
       CASE leg[r][m].at = "ready" ->
               Move(r, m, "stranded", FALSE) /\ Unsettled
         [] leg[r][m].at = "stream" ->
               Move(r, m, "gone", FALSE) /\ Settle(r, {m})
         [] leg[r][m].at = "reopen" ->
               \E at \in IF leg[r][t].at \in InProgress THEN Cancelled(r, t)
                         ELSE IF leg[r][t].at = "ready" THEN {"stranded"}
                         ELSE {leg[r][t].at} :
                  /\ leg' = [leg EXCEPT ![r][m].at = "gone", ![r][t].at = at]
                  /\ Settle(r, {m} \cup Releases(r, t, at))
    /\ UNCHANGED <<circ, up>>

----------------------------------------------------------------------------
(* The world around: a cooldown passes, a target stops or starts being     *)
(* healthy and admitting, or leaves the routing table, and rebuild()       *)
(* forgets its circuit (breaker.retain).                                   *)

\* upstream_connect_timeout_s is far shorter than breaker_cooldown_s: a turn
\* that began before the circuit opened has its connection, or has failed.
Cool(t) ==
    /\ circ[t].bench = "cooling"
    /\ \A r \in Requests : leg[r][t].at \notin Early
    /\ Circuit(t, Cooled(circ[t]))
    /\ UNCHANGED <<kv, outstanding, up, req, leg>>

Withdraw(t) ==
    /\ t \in up \cap Churn
    /\ up' = up \ {t}
    /\ circ' \in {circ, [circ EXCEPT ![t] = Closed]}
    /\ UNCHANGED <<kv, outstanding, req, leg>>

Return(t) ==
    /\ t \notin up
    /\ up' = up \cup {t}
    /\ UNCHANGED <<circ, kv, outstanding, req, leg>>

----------------------------------------------------------------------------

Dispatching(r) ==
    \/ Arrive(r) \/ Claim(r) \/ ClaimNone(r) \/ Recover(r) \/ Refuse(r)
    \/ Hedge(r) \/ HedgeNone(r) \/ Win(r) \/ Yield(r) \/ Outcome(r)

Attempting(r, t) ==
    \/ Start(r, t) \/ Turned(r, t) \/ Unsent(r, t) \/ Connected(r, t)
    \/ Unreachable(r, t)
    \/ Answers(r, t) \/ ErrorRead(r, t) \/ HoldEnds(r, t) \/ HoldDies(r, t)

Sending(r) ==
    \/ StartBody(r) \/ Chunk(r) \/ Finish(r) \/ BodyDies(r) \/ Reopen(r)
    \/ Replace(r) \/ ReplaceNone(r) \/ HangUp(r)

World(t) == Cool(t) \/ Withdraw(t) \/ Return(t)

Next ==
    \/ \E r \in Requests : Dispatching(r) \/ Sending(r)
    \/ \E r \in Requests, t \in Targets : Attempting(r, t)
    \/ \E t \in Targets : World(t)

Spec == Init /\ [][Next]_vars

----------------------------------------------------------------------------
(* Properties.                                                             *)

(* The books balance: what admission has committed on a deployment is what *)
(* the requests that hold a place there were charged, and a target's       *)
(* outstanding count is the number of them.  settle() runs at most once    *)
(* for a leg, whichever of its many exits it leaves by.                    *)
BooksBalance ==
    \A t \in Targets :
        LET held == {r \in Requests : leg[r][t].at \in Holding} IN
        /\ outstanding[t] = Cardinality(held)
        /\ t \in Local => kv[t] = MapThenSumSet(LAMBDA r : Cost[r], held)

(* Admission: the commitments on a deployment never exceed its budget,     *)
(* however check() and commit() of several requests, hedges and            *)
(* replacements interleave.                                                *)
WithinBudget == KvBudget > 0 => \A t \in Targets : kv[t] <= KvBudget

(* Rule 1 of proxy.py: a body the client has begun to read is never        *)
(* finished by another target.                                             *)
OneBody == \A r \in Requests : Cardinality(req[r].seen) <= 1

(* A circuit that says its probe is out is right, or a leg that owned the  *)
(* probe was cancelled before it had a verdict: there is no other way to   *)
(* lose one.                                                               *)
ProbeAccounted ==
    \A t \in Targets : circ[t].probing =>
        \E r \in Requests :
            leg[r][t].probe /\ leg[r][t].at \in Unreached \cup {"cut", "stranded"}

(* failover_max_attempts bounds the targets a request is offered to, the   *)
(* replacement of a dead body included; with hedging, twice as many.       *)
AttemptsBounded ==
    \A r \in Requests :
        Cardinality({t \in Targets : leg[r][t].at # "no"})
            <= (IF Hedging THEN 2 ELSE 1) * MaxAttempts

(* What a request may take: room on a deployment only within its budget,   *)
(* no more targets than it may be offered to, and one body, however        *)
(* failover, hedges and replacements of dead bodies interleave.            *)
RequestBounds == WithinBudget /\ AttemptsBounded /\ OneBody

(* With two hedged requests at once the books still balance, and a         *)
(* half-open circuit's probe is with whoever took it.                      *)
HedgeBooks == TypeOK /\ BooksBalance /\ ProbeAccounted

(* _dispatch: "Returns None only when nothing was ever sent", so that a    *)
(* request some target tried and failed is never parked and sent again,    *)
(* nor refused as one that had nowhere to go.                              *)
NoneMeansUnsent ==
    \A r \in Requests : req[r].phase = "nowhere" =>
        \A t \in Targets : leg[r][t].at # "retry"

(* "Without this, circuit.probing stays True forever and the target        *)
(* becomes permanently unselectable" (proxy.py): a probe that is out is    *)
(* with a request that still runs.                                         *)
ProbeNotStuck ==
    \A t \in Targets : circ[t].probing =>
        \E r \in Requests : leg[r][t].probe /\ leg[r][t].at \in Unreached

(* "A half-open circuit admits exactly one probe" (breaker.py).            *)
OneProbe ==
    \A t \in Targets :
        Cardinality({r \in Requests :
            leg[r][t].probe /\ leg[r][t].at \in Unreached}) <= 1

(* The leg that lost a race or a replacement holds nothing: "Attempt in    *)
(* proxy.py is what guarantees the release happens even on a hedge that    *)
(* lost" (gateway/README.md).                                              *)
LoserReleased ==
    \A r \in Requests : \A t \in req[r].tried \ {req[r].main, req[r].mate} :
        leg[r][t].at \notin Holding

(* "hold the commitment until the response completes" and no longer        *)
(* (gateway/README.md): when a request is over it holds nothing.           *)
NothingStranded ==
    \A r \in Requests : req[r].phase = "over" =>
        \A t \in Targets : leg[r][t].at \notin Holding
=============================================================================
