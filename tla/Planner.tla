------------------------------- MODULE Planner -----------------------------
(***************************************************************************)
(* planner/planner.py with legality.py, topology.py, comm.py and           *)
(* fit_bridge.py: which parallel split of a model over which machines, in  *)
(* order of preference, and what is said for each.                         *)
(*                                                                         *)
(* The sentences are modelled by the claims they make.                     *)
(***************************************************************************)
EXTENDS Fit

CONSTANTS
    TpViable, EpViable,  \* GB/s of all-reduce each of them needs
    MinNodesForEp,       \* MIN_NODES_FOR_CROSS_NODE_EP
    LatencyCeiling,      \* LATENCY_CONCURRENCY_CEILING
    Scale,               \* resolution of step times
    PlanRequests         \* what is asked

ASSUME PlannerAssumption ==
    /\ KvBytes["bf16"] = 2
    /\ {TpViable, EpViable, MinNodesForEp, LatencyCeiling, Scale} \subseteq Nat

(* What can be asked: a model, machines that no two share an id, and what  *)
(* is known of the link between them.  Machines of one model are alike.    *)
MachinesOK(nodes) ==
    /\ nodes \in Seq(ToSet(nodes)) /\ nodes # << >>
    /\ \A n \in ToSet(nodes) : {n.ceiling, n.gpus, n.bandwidth, n.rank} \subseteq Nat
    /\ \A m, n \in ToSet(nodes) : (m.rank = n.rank => m = n) /\ (m.model = n.model => m.gpus = n.gpus)
SplittableOK(shape) ==
    ShapeOK(shape) /\ {"experts", "perToken"} \subseteq DOMAIN shape /\ {shape.experts, shape.perToken} \subseteq Nat
PlanAskOK(q) ==
    /\ DOMAIN q = {"shape", "nodes", "link", "latency", "seqs", "context", "kv", "pooled"}
    /\ SplittableOK(q.shape) /\ MachinesOK(q.nodes)
    /\ {q.link.gbps, q.link.p2p, q.link.latency} \subseteq Nat /\ {q.link.gdr, q.link.measured} \subseteq BOOLEAN
    /\ q.seqs \in Nat \ {0} /\ q.context \in Nat /\ {q.latency, q.pooled} \subseteq BOOLEAN
ASSUME PlanAskAssumption == \A q \in PlanRequests : PlanAskOK(q)

VARIABLES planAsk, planAnswer
planVars == <<planAsk, planAnswer>>

NoLink == [gbps |-> 0, p2p |-> 0, gdr |-> FALSE, latency |-> 0, measured |-> FALSE]
Degrees(tp, pp, ep, dp) == [tp |-> tp, pp |-> pp, ep |-> ep, dp |-> dp]

(* sorted(): by keys that are tuples of numbers, no two of them the same.  *)
Precedes(a, b) == \E k \in DOMAIN a : a[k] < b[k] /\ \A j \in 1 .. k - 1 : a[j] = b[j]
InOrder(S, key) ==
    LET before == [x \in S |-> Cardinality({y \in S : Precedes(key[y], key[x])})]
    IN [i \in 1 .. Cardinality(S) |-> CHOOSE x \in S : before[x] = i - 1]

----------------------------------------------------------------------------
(* legality.py                                                             *)
IsMoe(shape) == shape.experts > 0

MutValidTpDegrees(shape, most) == {1} \cup {d \in 2 .. most : shape.heads % d = 0}

ValidTpDegrees(shape, most) ==
    {1} \cup {d \in 2 .. most : shape.heads % d = 0 /\ shape.kvHeads % d = 0}
ValidEpDegrees(shape, most) ==
    {1} \cup {d \in 2 .. most : IsMoe(shape) /\ shape.experts % d = 0}
ValidPpDegrees(shape, most) == 1 .. AtLeast(1, AtMost(most, shape.layers))

(* enumerate_candidates(): in the code's order, tp then pp, then the wide  *)
(* expert splits.                                                          *)
EnumerateCandidates(shape, available, least, epAllowed) ==
    LET floor == AtLeast(1, AtMost(least, available))
        splits == {c \in {Degrees(tp, pp, 1, 1) : tp \in ValidTpDegrees(shape, available),
                                                  pp \in ValidPpDegrees(shape, available)} :
                        c.tp * c.pp \in floor .. available}
        experts == {Degrees(1, 1, w, w) :
                        w \in {w \in AtLeast(floor, MinNodesForEp) .. available :
                                    IsMoe(shape) /\ epAllowed /\ w <= shape.experts
                                    /\ shape.experts % w = 0}}
        all == splits \cup experts
    IN InOrder(all, [c \in all |-> <<c.ep, c.tp, c.pp>>])

(* check_degrees()                                                         *)
LegalDegrees(shape, c) ==
    /\ shape.heads % c.tp = 0 /\ shape.kvHeads % c.tp = 0
    /\ c.pp <= shape.layers
    /\ c.ep > 1 => IsMoe(shape) /\ shape.experts % c.ep = 0 /\ c.dp = c.ep

----------------------------------------------------------------------------
(* topology.py: machines alike go together, the strongest group first.     *)
(* model: device class, GPU, count, memory and bandwidth as one.           *)
(* exemplar: the least of a group, by memory and then bandwidth.           *)
MutExemplar(group) ==
    group[CHOOSE i \in DOMAIN group : \A j \in DOMAIN group : group[i].ceiling >= group[j].ceiling]

Exemplar(group) ==
    group[InOrder(DOMAIN group, [i \in DOMAIN group |-> <<group[i].ceiling, group[i].bandwidth, i>>])[1]]

HomogeneousGroups(nodes) ==
    LET models == {nodes[i].model : i \in DOMAIN nodes}
        first(m) == CHOOSE i \in DOMAIN nodes :
                        nodes[i].model = m /\ \A j \in 1 .. i - 1 : nodes[j].model # m
        alike(m) == {n \in ToSet(nodes) : n.model = m}
        members == [m \in models |-> InOrder(alike(m), [n \in alike(m) |-> <<n.rank>>])]
        memory(g) == SumOver([i \in DOMAIN g |-> g[i].ceiling])
        weakness(g, at) == <<-memory(g), -Len(g), -Exemplar(g).bandwidth, at>>
        order == InOrder(models, [m \in models |-> weakness(members[m], first(m))])
    IN [i \in DOMAIN order |-> members[order[i]]]

----------------------------------------------------------------------------
(* comm.py: what one decoded token costs.  Halves and seconds are scaled   *)
(* to whole numbers; Forever is float("inf").                              *)
Forever == 1000000
TensorExchanges(shape, tp) == IF tp <= 1 THEN 0 ELSE shape.layers * 2
TensorBytes(shape, tp, batch) ==
    IF tp <= 1 THEN 0 ELSE (shape.layers * 2 * 2 * shape.hidden * 2 * batch * (tp - 1)) \div tp
PipelineBytes(shape, pp, batch) == (pp - 1) * shape.hidden * 2 * batch
ExpertBytes(shape, ep, batch) ==
    IF ep <= 1 \/ ~IsMoe(shape) THEN 0
    ELSE (shape.layers * 2 * shape.hidden * 2 * batch * shape.perToken * (ep - 1)) \div ep
ExpertExchanges(shape, ep) == IF ep <= 1 \/ ~IsMoe(shape) THEN 0 ELSE shape.layers * 2

LinkSeconds(bytes, gbps, exchanges, latency) ==
    IF bytes <= 0 /\ exchanges <= 0 THEN 0
    ELSE (IF gbps > 0 THEN (bytes * Scale) \div gbps ELSE Forever) + exchanges * latency

(* The bubble of a pipeline that is not filled stretches the computation.  *)
ComputeSeconds(shape, node, c, inFlight) ==
    LET world == c.tp * c.pp * c.dp
        alone == (shape.active * Halves[shape.dtype] * Scale) \div (2 * node.bandwidth * world)
    IN IF node.bandwidth <= 0 THEN Forever
       ELSE IF (c.pp - 1) * 100 < 99 * (inFlight + c.pp - 1)
       THEN (alone * (inFlight + c.pp - 1)) \div inFlight
       ELSE alone * 100

EstimatedStepSeconds(shape, node, link, c, batch) ==
    ComputeSeconds(shape, node, c, batch)
    + IF ~link.measured \/ c.tp * c.pp * c.dp = 1 THEN 0
      ELSE LinkSeconds(TensorBytes(shape, c.tp, batch), link.gbps, TensorExchanges(shape, c.tp), link.latency)
           + LinkSeconds(PipelineBytes(shape, c.pp, batch), link.p2p, c.pp - 1, link.latency)
           + LinkSeconds(ExpertBytes(shape, c.ep, batch), link.p2p, ExpertExchanges(shape, c.ep), link.latency)

----------------------------------------------------------------------------
(* fit_bridge.py: the capacity question when the fit package cannot be     *)
(* imported; every n is charged as a pipeline of n stages.                 *)
MutBridgeNeeds(shape, context, seqs, kv, n) ==
    LET elem == IF kv \in DOMAIN KvBytes THEN KvBytes[kv] ELSE 2
        perToken == elem * IF shape.mla > 0 THEN shape.mla ELSE 2 * shape.kvHeads
        cache == perToken * (IF shape.mla = 0 /\ shape.full >= 0 THEN CachedLayerTokens(shape, context)
                             ELSE shape.layers * context) * seqs
    IN (shape.params * Halves[shape.dtype] + 2 * cache) \div (2 * n)
        + shape.vocab * seqs * 4 + Chunk * shape.hidden * 24
        + ReplicatedBytes(shape) + Overhead
        + IF n = 1 THEN 0 ELSE CommBuffer + IF IsMoe(shape) THEN EpBuffer ELSE 0

BridgeNeeds(shape, context, seqs, kv, n) ==
    LET elem == IF kv \in DOMAIN KvBytes THEN KvBytes[kv] ELSE 2
        perToken == elem * IF shape.mla > 0 THEN shape.mla ELSE 2 * shape.kvHeads
        windowed == shape.mla = 0 /\ shape.window > 0 /\ shape.full >= 0
        cache == perToken * (IF windowed THEN CachedLayerTokens(shape, context)
                             ELSE shape.layers * context) * seqs
    IN CeilDiv((shape.params * Halves[shape.dtype] + 2 * cache) * CeilDiv(shape.layers, n),
               2 * shape.layers)
        + shape.vocab * seqs * 4 + Chunk * shape.hidden * 24
        + ReplicatedBytes(shape) + Overhead
        + IF n = 1 THEN 0 ELSE CommBuffer + IF IsMoe(shape) THEN EpBuffer ELSE 0

BridgeMinNodes(shape, ceiling, context, seqs, kv) ==
    LET enough == {n \in 1 .. MaxNodes : BridgeNeeds(shape, context, seqs, kv, n) <= ceiling}
    IN IF enough = {} THEN MaxNodes ELSE CHOOSE n \in enough : \A m \in enough : n <= m

----------------------------------------------------------------------------
(* _facts(): what every decision below is made from.  The operator may     *)
(* pool unlike machines; otherwise only the strongest group is used.       *)
Facts(q) ==
    LET groups == HomogeneousGroups(q.nodes)
        group == IF q.pooled THEN q.nodes ELSE groups[1]
        sized == [shape |-> q.shape, kv |-> q.kv, weight |-> 0, context |-> q.context, seqs |-> q.seqs,
                  plan |-> << >>]
    IN [shape |-> q.shape, group |-> group, link |-> q.link, seqs |-> q.seqs,
        latency |-> q.latency /\ q.seqs <= LatencyCeiling,
        least |-> MinNodesRequired(sized, Exemplar(group).ceiling)]

TpPreferred(f) == f.link.measured /\ (f.link.gbps >= TpViable \/ f.latency)
CapacityImpossible(f) == f.least < 1
CapacityFloor(f) == IF CapacityImpossible(f) THEN Len(f.group) ELSE f.least
SecondReplicaPossible(f) == ~CapacityImpossible(f) /\ f.least * 2 <= Len(f.group)
CrossNodeEpAllowed(f) ==
    /\ IsMoe(f.shape) /\ f.link.measured /\ f.link.gbps >= EpViable /\ f.link.gdr
    /\ Len(f.group) >= MinNodesForEp

KindOf(c) ==
    IF c.tp * c.pp * c.dp = 1 THEN "single_node"
    ELSE IF c.ep > 1 THEN "expert"
    ELSE IF c.tp > 1 THEN IF c.pp > 1 THEN "hybrid" ELSE "tensor"
    ELSE "pipeline"

(* _family_rank(): one node if it will do; otherwise the link decides.     *)
FamilyRank(kind, f) ==
    CASE kind = "single_node" -> 0
      [] kind = "expert" -> 1
      [] kind = "hybrid" -> 3
      [] kind = "tensor" -> IF TpPreferred(f) THEN 2 ELSE 4
      [] kind = "pipeline" -> IF TpPreferred(f) THEN 4 ELSE 2

(* sort_key: family, then few or many machines, then speed; stable.        *)
Scored(c, at, f) ==
    LET world == c.tp * c.pp * c.dp
        seconds == AtMost(Forever, EstimatedStepSeconds(f.shape, Exemplar(f.group), f.link, c, f.seqs))
        breadth == IF SecondReplicaPossible(f) THEN world ELSE -world
    IN [degrees |-> c, kind |-> KindOf(c), key |-> <<FamilyRank(KindOf(c), f), breadth, seconds, at>>]

(* A winner on one machine takes all the GPUs there that divide the model. *)
MutWithinNode(s, f) ==
    [s EXCEPT !.degrees = IF s.kind = "single_node"
                          THEN Degrees(AtLeast(1, Exemplar(f.group).gpus), 1, 1, 1) ELSE @]

WithinNode(s, f) ==
    LET gpus == AtLeast(1, Exemplar(f.group).gpus)
        widest(ds) == CHOOSE d \in ds : \A e \in ds : e <= d
    IN [s EXCEPT !.degrees =
            IF s.kind # "single_node" \/ gpus = 1 THEN @
            ELSE IF IsMoe(f.shape) THEN Degrees(1, 1, widest(ValidEpDegrees(f.shape, gpus)), 1)
            ELSE Degrees(widest(ValidTpDegrees(f.shape, gpus)), 1, 1, 1)]

Score(f) ==
    LET found == EnumerateCandidates(f.shape, Len(f.group), CapacityFloor(f), CrossNodeEpAllowed(f))
        cands == IF found = << >> THEN <<Degrees(1, 1, 1, 1)>> ELSE found
        scored == {Scored(cands[i], i, f) : i \in DOMAIN cands}
        sorted == InOrder(scored, [s \in scored |-> s.key])
    IN [sorted EXCEPT ![1] = WithinNode(@, f)]

(* _nodes_for(): the ranks of a single-node plan are GPUs of one machine.  *)
MutNodesFor(s, f) == SubSeq(f.group, 1, AtMost(Len(f.group), s.degrees.tp * s.degrees.pp))

NodesFor(s, f) ==
    SubSeq(f.group, 1, IF s.kind = "single_node" THEN 1
                       ELSE AtMost(Len(f.group), s.degrees.tp * s.degrees.pp * s.degrees.dp))

(* _justification(): what is said for a plan.                              *)
Justification(s, f) ==
    IF s.kind = "single_node"
    THEN IF CapacityImpossible(f) THEN "nothing holds it"
         ELSE IF f.least > 1 THEN "one node cannot hold it" ELSE "one node holds it"
    ELSE IF s.kind = "expert" THEN "fast link with GPUDirect"
    ELSE IF ~f.link.measured THEN "link not measured"
    ELSE IF s.kind = "pipeline" THEN "link below threshold"
    ELSE IF f.latency /\ f.link.gbps < TpViable THEN "single stream"
    ELSE IF f.link.gbps < TpViable THEN "link below threshold"
    ELSE "link at threshold"

(* _capacity_warning(): that the fit check will refuse it.                 *)
CapacityWarning(f) == CapacityImpossible(f) \/ f.least > Len(f.group)

(* _rejection_line(): what is said against a plan that did not win.        *)
RejectionLine(s, winner, f) ==
    IF winner.kind = "single_node" /\ s.kind # "single_node" THEN "one node holds it"
    ELSE IF s.kind = "tensor" /\ winner.kind # "tensor"
    THEN IF ~f.link.measured THEN "link not measured"
         ELSE IF TpPreferred(f) THEN "too many collectives" ELSE "link below threshold"
    ELSE IF s.kind = "pipeline" /\ winner.kind # "pipeline"
    THEN IF f.latency THEN "single stream" ELSE "link fast enough for tensor"
    ELSE "ranks below"

(* _render()                                                               *)
Rendered(scored, f) ==
    [i \in DOMAIN scored |->
        [degrees |-> scored[i].degrees, kind |-> scored[i].kind, nodes |-> NodesFor(scored[i], f),
         claim |-> Justification(scored[i], f), warned |-> CapacityWarning(f),
         against |-> {RejectionLine(scored[j], scored[1], f) : j \in DOMAIN scored \ {i}}]]

(* alternatives(), whose first is plan().                                  *)
AlternativesFrom(f) == Rendered(Score(f), f)
Alternatives(q) == AlternativesFrom(Facts(q))

(* plan_for(): the operator's own degrees on the machines as named.        *)
RenderedOwn(scored, f, c, kind) ==
    LET known == {i \in DOMAIN scored : scored[i].degrees = c /\ scored[i].kind = kind}
        extra == [Scored(c, Len(scored) + 1, f) EXCEPT !.kind = kind]
        all == IF known # {} THEN scored ELSE Append(scored, extra)
        at == IF known # {} THEN CHOOSE i \in known : \A j \in known : i <= j ELSE Len(all)
    IN Rendered(all, f)[at]
PlanFrom(f, c, kind) == RenderedOwn(Score(f), f, c, kind)
PlanFor(q, c) ==
    PlanFrom(Facts([q EXCEPT !.pooled = TRUE]), c, IF Len(q.nodes) = 1 THEN "single_node" ELSE KindOf(c))

NoPlans == << >>
PlanInit == planAsk \in PlanRequests /\ planAnswer = NoPlans
PlanNext ==
    /\ planAnswer = NoPlans
    /\ \/ planAnswer' = Alternatives(planAsk)
       \/ \E tp, pp \in {1, 2}, ep \in {1, 4} :
            LET c == Degrees(tp, pp, ep, ep) IN
            /\ LegalDegrees(planAsk.shape, c)
            /\ planAnswer' = <<PlanFor(planAsk, c)>>
    /\ UNCHANGED planAsk
PlanSpec == PlanInit /\ [][PlanNext]_planVars

----------------------------------------------------------------------------
(* Properties.                                                             *)
Plans == {planAnswer[i] : i \in DOMAIN planAnswer}

(* Every plan offered divides the model as a runtime will accept, on       *)
(* machines of one kind unless the operator pooled them, and one that is   *)
(* the planner's own choice has a GPU for every rank; on one machine of a  *)
(* pool, on the weakest of the pool.                                       *)
RanksHeld(p) ==
    LET ranks == p.degrees.tp * p.degrees.pp * p.degrees.dp
    IN IF planAsk.pooled /\ p.kind = "single_node" THEN ranks <= AtLeast(1, Exemplar(planAsk.nodes).gpus)
       ELSE ranks <= SumOver([i \in DOMAIN p.nodes |-> AtLeast(1, p.nodes[i].gpus)])

PlansRunnable ==
    \A p \in Plans :
        /\ planAsk.shape.heads % p.degrees.tp = 0 /\ planAsk.shape.kvHeads % p.degrees.tp = 0
        /\ p.degrees.pp <= planAsk.shape.layers
        /\ p.degrees.ep > 1 => planAsk.shape.experts % p.degrees.ep = 0
        /\ Len(planAnswer) > 1 =>
            /\ RanksHeld(p)
            /\ planAsk.pooled \/ \A m, n \in ToSet(p.nodes) : m.model = n.model

(* The plan the planner puts first loads on its machines whenever it says  *)
(* that one node holds the model.                                          *)
OneNodeHolds ==
    \A p \in Plans : p.kind = "single_node" /\ p.claim = "one node holds it" =>
        Total(MemoryBreakdown(planAsk.shape, Degrees(1, 1, 1, 1), planAsk.context, planAsk.seqs, planAsk.kv, 0))
            <= p.nodes[1].ceiling

(* fit_bridge: "it may ask for one node more than strictly necessary,      *)
(* never one fewer".  Of a cache whose dtype is named.                     *)
BridgeConservative ==
    planAsk.kv # "auto" =>
        LET sized == [shape |-> planAsk.shape, kv |-> planAsk.kv, weight |-> 0, context |-> planAsk.context,
                      seqs |-> planAsk.seqs, plan |-> << >>]
            ceiling == planAsk.nodes[1].ceiling
            own == BridgeMinNodes(planAsk.shape, ceiling, planAsk.context, planAsk.seqs, planAsk.kv)
        IN own < MaxNodes => MinNodesRequired(sized, ceiling) \in 1 .. own

(* "Those ranks are GPUs in the same box": on the machine that is named,   *)
(* which in a pool of unlike machines is the first and not the weakest.    *)
PooledWinnerRuns ==
    Len(planAnswer) > 1 => LET p == planAnswer[1] IN
        p.degrees.tp * p.degrees.pp * p.degrees.dp <= SumOver([i \in DOMAIN p.nodes |-> AtLeast(1, p.nodes[i].gpus)])

(* second_replica_possible: "Whether the nodes this plan does not use could*)
(* host another replica".                                                  *)
SecondReplicaRoom ==
    Len(planAnswer) > 1 => LET f == Facts(planAsk) IN
        SecondReplicaPossible(f) => Len(f.group) - Len(planAnswer[1].nodes) >= f.least

(* What a plan's reason says of the link is so.                            *)
ReasonsTrue ==
    \A p \in Plans :
        /\ p.claim = "link below threshold" => planAsk.link.gbps < TpViable
        /\ p.claim = "link at threshold" => planAsk.link.gbps >= TpViable
        /\ p.claim = "fast link with GPUDirect" => planAsk.link.gdr

(* No warning: the fit check lets the first plan through.                  *)
WinnerHolds ==
    Len(planAnswer) > 1 /\ ~planAnswer[1].warned =>
        Total(MemoryBreakdown(planAsk.shape, planAnswer[1].degrees, planAsk.context, planAsk.seqs, planAsk.kv, 0))
            <= Exemplar(Facts(planAsk).group).ceiling

(* What the planner promises: every plan divides the model as a runtime    *)
(* will accept on machines that can carry it, one node is said to hold the *)
(* model only when it does, and the estimate it plans with asks for no     *)
(* node too few.                                                           *)
PlannerPromise ==
    PlansRunnable /\ OneNodeHolds /\ BridgeConservative
=============================================================================
