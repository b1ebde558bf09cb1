------------------------------- MODULE Launch -------------------------------
(***************************************************************************)
(* POST /api/plan and POST /api/deployments (gateway/internal_api.py): a   *)
(* request is parsed, planned and fitted in stages between which the loop  *)
(* runs other things, and machines and their memory change.  The planner   *)
(* and the fit are in Planner and Fit; here a plan is the machines it uses,*)
(* and its need is shared evenly between them.                             *)
(***************************************************************************)
EXTENDS Integers, Sequences, FiniteSetsExt, SequencesExt

CONSTANTS
    NodeIds,               \* the enrolled machines, in the order of their ids
    Ceiling,               \* static usable memory of each
    HardwareOf,            \* what homogeneous_groups() tells apart
    WeightBytes, CacheBytes,  \* of the model; per unit of context
    Window,                \* its native window
    Supports, Shards,      \* runtimes that load it; runtimes that shard
    LaunchCalls,           \* requests in flight
    LaunchRequests,        \* bodies they may carry
    UsedLevels             \* memory in use on a machine

Nodes == ToSet(NodeIds)

(* A body that reaches the route is a JSON object with these fields.       *)
ASSUME LaunchAssumption ==
    /\ NodeIds \in Seq(Nodes) /\ Ceiling \in [Nodes -> Nat] /\ UsedLevels \subseteq Nat
    /\ WeightBytes \in Nat /\ CacheBytes \in Nat /\ Window \in Nat \ {0}
    /\ \A body \in LaunchRequests :
          /\ DOMAIN body = {"kind", "name", "named", "nodes", "degree", "context", "dtype", "mixed", "over", "runtime"}
          /\ body.kind \in {"plan", "launch"} /\ body.nodes \in Seq(ToSet(body.nodes))
          /\ {body.named, body.dtype, body.mixed, body.over} \subseteq BOOLEAN
          /\ body.degree \in Int /\ body.context \in Nat

VARIABLES
    up,         \* machines that are healthy
    used,       \* used[n]: the latest sample, or Unsampled
    work,       \* work[c]: how far a call has come and what it has read
    placed      \* what the deployment manager has accepted

launchVars == <<up, used, work, placed>>

Unsampled == -1
Fresh == [stage |-> "idle", body |-> << >>, nodes |-> << >>, plan |-> << >>,
          budgets |-> << >>, answer |-> "none"]
LaunchCeil(a, b) == (a + b - 1) \div b

(* The members of a sequence that are in a set, in their order.            *)
Among(s, these) ==
    LET first[k \in 0 .. Len(s)] ==
            IF k = 0 THEN << >> ELSE IF s[k] \in these THEN Append(first[k - 1], s[k]) ELSE first[k - 1]
    IN first[Len(s)]

(* Some of a plan's machines are not like the others.                      *)
Unlike(plan) == \E m, n \in ToSet(plan) : HardwareOf[m] # HardwareOf[n]

----------------------------------------------------------------------------
(* What the pipeline computes from what it has read.                       *)

(* allocatable_bytes(): the ceiling less what is in use.                   *)
Allocatable(n) == IF used[n] < Ceiling[n] THEN Ceiling[n] - used[n] ELSE 0

MutLiveBudget(plan) == [n \in {m \in up : used[m] # Unsampled} |-> Allocatable(n)]

(* allocatable_map(): machines nobody can vouch for have no budget.        *)
LiveBudget(plan) == [n \in {m \in ToSet(plan) \cap up : used[m] # Unsampled} |-> Allocatable(n)]

(* _parse_node_ids() and _parse_degrees(): no value is the planner's choice.*)
WellFormed(body) ==
    /\ body.named => body.nodes # << >> /\ IsInjective(body.nodes)
    /\ body.degree >= 0

(* _select_nodes(): every machine named has to be there, healthy and with  *)
(* memory.                                                                 *)
SelectNodes(body, healthy) ==
    IF ~body.named THEN [ok |-> TRUE, nodes |-> Among(NodeIds, healthy)]
    ELSE [ok |-> \A n \in ToSet(body.nodes) : n \in healthy /\ Ceiling[n] > 0, nodes |-> body.nodes]

Need(context, ranks) == LaunchCeil(WeightBytes + context * CacheBytes, ranks)
Budget(plan, budgets) == Min({IF n \in DOMAIN budgets THEN budgets[n] ELSE Ceiling[n] : n \in ToSet(plan)})
Fits(plan, context, budgets) == Need(context, Len(plan)) <= Budget(plan, budgets)

(* Planner.alternatives(): the strongest group of like machines, or all of *)
(* a pool the operator named; as few of them as hold the weights.          *)
Group(nodes, n) == Among(nodes, {m \in Nodes : HardwareOf[m] = HardwareOf[n]})
GroupMemory(g) ==
    LET sum[k \in 0 .. Len(g)] == IF k = 0 THEN 0 ELSE sum[k - 1] + Ceiling[g[k]] IN sum[Len(g)]
StrongestGroup(nodes) ==
    CHOOSE g \in {Group(nodes, n) : n \in ToSet(nodes)} :
        \A h \in {Group(nodes, n) : n \in ToSet(nodes)} : GroupMemory(h) <= GroupMemory(g)
Recommended(nodes, pool) ==
    LET from == IF pool THEN nodes ELSE StrongestGroup(nodes)
        enough == {k \in 1 .. Len(from) : Fits(SubSeq(from, 1, k), 1, << >>)}
    IN SubSeq(from, 1, IF enough = {} THEN Len(from) ELSE Min(enough))

MutEveryNodeUsed(body, plan) == TRUE

(* _check_every_node_used(): asked for only when the operator has chosen   *)
(* both the machines and the degrees.                                      *)
EveryNodeUsed(body, plan) == body.named /\ body.degree > 0 => ToSet(plan) = ToSet(body.nodes)

LegalDegree(body, nodes) == body.degree <= Len(nodes)
PlanOf(body, nodes) ==
    IF body.degree = 0 THEN Recommended(nodes, body.named) ELSE SubSeq(nodes, 1, body.degree)

(* context_for(): what was asked, or the most that fits what was read.     *)
ContextOf(body, plan, budgets) ==
    LET fitting == {c \in 1 .. Window : Fits(plan, c, budgets)}
    IN IF body.context > 0 THEN body.context ELSE IF fitting = {} THEN 1 ELSE Max(fitting)

(* _plan_and_fit(): both verdicts, and whether unlike machines are pooled. *)
Outcome(body, plan, budgets) ==
    LET context == ContextOf(body, plan, budgets)
    IN [context |-> context,
        static  |-> Fits(plan, context, << >>),
        live    |-> IF budgets = << >> THEN "unknown"
                    ELSE IF Fits(plan, context, budgets) THEN "fits" ELSE "wont_fit",
        mixed   |-> body.named /\ Unlike(plan)]

MutServe(body, o) ==
    LET refused == IF o.live = "unknown" THEN ~o.static ELSE o.live = "wont_fit"
    IN [allowed |-> body.runtime \in Supports /\ ~refused, overrides |-> {}]

(* serve_decision(): the preview's answer to "may this be launched, and    *)
(* what must be ticked first".                                             *)
Serve(body, o) ==
    LET refused == IF o.live = "unknown" THEN ~o.static ELSE o.live = "wont_fit"
    IN IF body.runtime \notin Supports THEN [allowed |-> FALSE, overrides |-> {}]
       ELSE [allowed |-> ~refused,
             overrides |-> IF refused /\ o.live = "unknown" THEN {}
                           ELSE (IF refused THEN {"over"} ELSE {}) \cup (IF o.mixed THEN {"mixed"} ELSE {})]

(* sharding_refusal(): one process cannot run several ranks.               *)
CanShard(body, plan) == Len(plan) > 1 => body.runtime \in Shards

MutGate(body, plan, o) ==
    IF body.runtime \notin Supports THEN "runtime_unsupported"
    ELSE IF ~CanShard(body, plan) THEN "runtime_cannot_shard"
    ELSE IF o.mixed /\ ~body.mixed THEN "mixed_hardware_not_allowed"
    ELSE IF o.live = "wont_fit" /\ ~body.over THEN "live_memory_insufficient"
    ELSE "launch"

(* create_deployment(): the refusals of a launch, in their order.          *)
Gate(body, plan, o) ==
    IF body.runtime \notin Supports THEN "runtime_unsupported"
    ELSE IF ~CanShard(body, plan) THEN "runtime_cannot_shard"
    ELSE IF ~o.static THEN "wont_fit"
    ELSE IF o.mixed /\ ~body.mixed THEN "mixed_hardware_not_allowed"
    ELSE IF o.live = "wont_fit" /\ ~body.over THEN "live_memory_insufficient"
    ELSE "launch"

----------------------------------------------------------------------------
(* The stages of a call, each up to its next await.                        *)
Answer(c, code) == [work[c] EXCEPT !.stage = "done", !.answer = code]

(* The body; a dtype is for sizing only and is not launched.               *)
Begin(c, body) ==
    /\ work[c].stage = "idle"
    /\ work' = [work EXCEPT ![c] =
          LET w == [Fresh EXCEPT !.body = body, !.stage = "resolving"] IN
          IF body.kind = "launch" /\ body.dtype THEN [w EXCEPT !.stage = "done", !.answer = "dtype_not_launchable"]
          ELSE IF ~WellFormed(body) THEN [w EXCEPT !.stage = "done", !.answer = "invalid_request"]
          ELSE w]
    /\ UNCHANGED <<up, used, placed>>

(* The model is resolved, then the machines are read.                      *)
Resolve(c, found) ==
    LET chosen == SelectNodes(work[c].body, up) IN
    /\ work[c].stage = "resolving"
    /\ work' = [work EXCEPT ![c] =
          IF ~found THEN Answer(c, "plan_error")
          ELSE IF ~chosen.ok THEN Answer(c, "placement_refused")
          ELSE IF chosen.nodes = << >> THEN Answer(c, "plan_error")
          ELSE [@ EXCEPT !.stage = "planning", !.nodes = chosen.nodes]]
    /\ UNCHANGED <<up, used, placed>>

(* The plan is made of the machines as they were; then memory is read.     *)
PlanAndFit(c) ==
    LET w == work[c] plan == PlanOf(w.body, w.nodes) IN
    /\ w.stage = "planning"
    /\ work' = [work EXCEPT ![c] =
          IF ~LegalDegree(w.body, w.nodes) THEN Answer(c, "illegal_parallelism")
          ELSE IF ~EveryNodeUsed(w.body, plan) THEN Answer(c, "placement_underfilled")
          ELSE [@ EXCEPT !.stage = "fitting", !.plan = plan, !.budgets = LiveBudget(plan)]]
    /\ UNCHANGED <<up, used, placed>>

(* Both fits are computed; a preview answers, a launch passes its gates.   *)
Judge(c) ==
    LET w == work[c]
        o == Outcome(w.body, w.plan, w.budgets)
        gate == Gate(w.body, w.plan, o)
    IN /\ w.stage = "fitting"
       /\ work' = [work EXCEPT ![c] =
             IF w.body.kind = "plan" THEN Answer(c, IF Serve(w.body, o).allowed THEN "allowed" ELSE "refused")
             ELSE IF gate # "launch" THEN Answer(c, gate)
             ELSE [@ EXCEPT !.stage = "launching"]]
       /\ UNCHANGED <<up, used, placed>>

(* DeploymentManager.launch(): a name is served once; or the launch fails. *)
Hand(c, works) ==
    LET w == work[c] o == Outcome(w.body, w.plan, w.budgets) IN
    /\ w.stage = "launching"
    /\ IF ~works THEN work' = [work EXCEPT ![c] = Answer(c, "launch_failed")] /\ UNCHANGED placed
       ELSE IF \E d \in placed : d.name = w.body.name
       THEN work' = [work EXCEPT ![c] = Answer(c, "already_deployed")] /\ UNCHANGED placed
       ELSE /\ work' = [work EXCEPT ![c] = Answer(c, "created")]
            /\ placed' = placed \cup {[by |-> c, name |-> w.body.name, body |-> w.body, plan |-> w.plan,
                                       context |-> o.context,
                                       warned |-> (IF o.live = "wont_fit" THEN {"over"} ELSE {})
                                                  \cup (IF o.mixed THEN {"mixed"} ELSE {})
                                                  \cup (IF w.body.named \/ w.body.degree > 0 THEN {"operator"} ELSE {})]}
    /\ UNCHANGED <<up, used>>

Forget(c) ==
    /\ work[c].stage = "done"
    /\ work' = [work EXCEPT ![c] = Fresh]
    /\ UNCHANGED <<up, used, placed>>

(* The cluster meanwhile.                                                  *)
NodeFlaps(n) ==
    /\ up' = IF n \in up THEN up \ {n} ELSE up \cup {n}
    /\ UNCHANGED <<used, work, placed>>
Sample(n, u) ==
    /\ n \in up /\ used[n] # u
    /\ used' = [used EXCEPT ![n] = u]
    /\ UNCHANGED <<up, work, placed>>

LaunchInit ==
    /\ up = Nodes
    /\ used \in [Nodes -> {Unsampled} \cup UsedLevels]
    /\ work = [c \in LaunchCalls |-> Fresh]
    /\ placed = {}

LaunchSteps ==
    \E c \in LaunchCalls :
        \/ \E found \in BOOLEAN : Resolve(c, found)
        \/ PlanAndFit(c) \/ Judge(c)
        \/ \E works \in BOOLEAN : Hand(c, works)
LaunchBegins == \E c \in LaunchCalls : Forget(c) \/ \E body \in LaunchRequests : Begin(c, body)
LaunchWorld == \E n \in Nodes : NodeFlaps(n) \/ \E u \in UsedLevels : Sample(n, u)
LaunchNext == LaunchSteps \/ LaunchBegins \/ LaunchWorld

LaunchSpec == LaunchInit /\ [][LaunchNext]_launchVars

----------------------------------------------------------------------------
(* The calls and the accepted launches have their types.                   *)
LaunchTypeOK ==
    /\ up \subseteq Nodes
    /\ \A c \in LaunchCalls :
          /\ work[c].stage \in {"idle", "resolving", "planning", "fitting", "launching", "done"}
          /\ work[c].stage = "done" <=> work[c].answer # "none"
          /\ work[c].stage \in {"fitting", "launching"} => work[c].plan # << >>
          /\ DOMAIN work[c].budgets \subseteq ToSet(work[c].plan)

(* Nothing is launched that cannot run: whatever changed between the       *)
(* stages, its own plan holds it on idle machines, its runtime loads and,  *)
(* over several machines, shards it; the memory that was read is exceeded  *)
(* only where the operator said so.  Unlike machines are pooled where the  *)
(* operator named them and allowed it, or chose the degrees and named none;*)
(* the planner's own choice never pools them.                              *)
LaunchesCanRun ==
    \A d \in placed :
        /\ Fits(d.plan, d.context, << >>)
        /\ d.body.runtime \in Supports /\ (Len(d.plan) > 1 => d.body.runtime \in Shards)
        /\ Unlike(d.plan) => \/ d.body.named /\ d.body.mixed /\ "mixed" \in d.warned
                             \/ ~d.body.named /\ d.body.degree > 0
        /\ "over" \in d.warned => d.body.over
        /\ ~d.body.dtype

(* Documented by planner/topology.py ("they do not go in one pool by       *)
(* default", overridden "by naming the nodes explicitly"): degrees without *)
(* names pool every healthy machine, and no gate asks.                     *)
UnlikeOnlyIfAllowed == \A d \in placed : Unlike(d.plan) => d.body.named /\ d.body.mixed

(* The operator's choice is carried out as it was made: no named machine   *)
(* is left idle by named degrees, none is replaced by another.             *)
OperatorsChoice ==
    \A d \in placed :
        /\ d.body.named => ToSet(d.plan) \subseteq ToSet(d.body.nodes)
        /\ d.body.named /\ d.body.degree > 0 => ToSet(d.plan) = ToSet(d.body.nodes)
        /\ d.body.degree > 0 => Len(d.plan) = d.body.degree
        /\ d.body.context > 0 => d.context = d.body.context

(* The preview and the launch are one decision: with the state as it is    *)
(* now, what the preview allows is launched once every override it lists   *)
(* is ticked, and what it refuses with nothing to tick is refused.  A      *)
(* runtime that cannot shard is the exception: the preview does not ask.   *)
PlannedNow(body) == PlanOf(body, SelectNodes(body, up).nodes)
Plannable(body) ==
    LET chosen == SelectNodes(body, up)
    IN /\ WellFormed(body) /\ chosen.ok /\ chosen.nodes # << >>
       /\ LegalDegree(body, chosen.nodes) /\ EveryNodeUsed(body, PlannedNow(body))
Ticked(body, overrides) == [body EXCEPT !.over = "over" \in overrides, !.mixed = "mixed" \in overrides]
Agrees(body) ==
    Plannable(body) =>
        LET plan == PlannedNow(body)
            o == Outcome(body, plan, LiveBudget(plan))
            s == Serve(body, o)
            gate == Gate(Ticked(body, s.overrides), plan, o)
        IN /\ s.allowed => gate = "launch"
           /\ ~s.allowed /\ s.overrides = {} => gate # "launch"
ButtonHonest == \A body \in LaunchRequests : body.runtime \in Shards => Agrees(body)

(* Documented by the preview ("The one field the UI reads for the button").*)
ButtonAlwaysHonest == \A body \in LaunchRequests : Agrees(body)

(* Documented by the refusal node_unhealthy ("nothing can be placed on     *)
(* it"): a machine that is down when memory is read counts as idle.        *)
PlacedOnHealthy ==
    [][\A d \in placed' \ placed : ToSet(d.plan) \subseteq up]_launchVars

(* What the launch route promises while memory and the roster change       *)
(* between its stages: what is launched can run where it is put, the       *)
(* operator's choice is carried out as it was made, and the preview and    *)
(* the launch are one decision.                                            *)
LaunchPromise ==
    LaunchTypeOK /\ LaunchesCanRun /\ OperatorsChoice /\ ButtonHonest
=============================================================================
