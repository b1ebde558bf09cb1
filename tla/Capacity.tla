------------------------------ MODULE Capacity -----------------------------
(***************************************************************************)
(* fit/capacity.py, gateway/capacity_api.py and gateway/livefit.py: the    *)
(* largest thing the machines can run, which published variant of a model  *)
(* to pull, and whether the Serve button works.                            *)
(***************************************************************************)
EXTENDS Planner

CONSTANTS
    MinUseful,        \* MIN_USEFUL_CONTEXT
    FallbackContext,  \* FALLBACK_CONTEXT
    CapacityRequests

ASSUME CapacityAssumption == {MinUseful, FallbackContext} \subseteq Nat \ {0}

(* What can be asked: a model and others beside it, how it is published,   *)
(* machines that no two share an id, and what was read of them.            *)
CapacityAskOK(q) ==
    /\ ShapeOK(q.shape) /\ q.beside \in Seq(ToSet(q.beside)) /\ \A s \in ToSet(q.beside) : ShapeOK(s)
    /\ {q.weight, q.native, q.context, q.seqs} \subseteq Nat
    /\ \A n \in ToSet(q.nodes) : {n.ceiling, n.host, n.rank} \subseteq Nat /\ n.gpus \in Int
    /\ \A m, n \in ToSet(q.nodes) : m.id = n.id \/ m.rank = n.rank => m = n
    /\ q.nodes \in Seq(ToSet(q.nodes))
    /\ \A id \in DOMAIN q.live : q.live[id] \in Int
    /\ q.variants \in Seq([dtype : DOMAIN Halves, bytes : Nat, launchable : BOOLEAN])
ASSUME CapacityAskAssumption == \A q \in CapacityRequests : CapacityAskOK(q)

VARIABLES capAsk, capAnswer
capVars == <<capAsk, capAnswer>>

----------------------------------------------------------------------------
(* capacity.py                                                             *)
(* _rungs(): as it ships, with its measured weight, and then every scheme  *)
(* below it in the ladder, priced by formula.                              *)
Rungs(shape, weight) ==
    LET below == {i \in DOMAIN Ladder : \E j \in 1 .. i - 1 : Ladder[j] = shape.dtype}
        first == CHOOSE i \in below : \A j \in below : i <= j
    IN <<[dtype |-> shape.dtype, weight |-> weight]>>
       \o IF below = {} THEN << >>
          ELSE [k \in 1 .. Len(Ladder) - first + 1 |-> [dtype |-> Ladder[first + k - 1], weight |-> 0]]

(* _clamp_context(): within the model's own window.                        *)
ClampContext(largest, native) ==
    LET ceiling == IF native > 0 THEN native ELSE FallbackContext
    IN IF largest > 0 THEN AtMost(ceiling, largest) ELSE ceiling

OnRung(r, rung) == [r EXCEPT !.shape.dtype = rung.dtype, !.weight = rung.weight]
MaxContextOn(r, rung) == LargestContext(OnRung(r, rung), Usable(r))

(* context_for(): of one model as it is.                                   *)
ContextFor(r) == ClampContext(LargestContext(r, Usable(r)), r.native)

MutLadderPick(most, native) ==
    LET chosen(i) == ClampContext(most[i], native)
        useful == {i \in DOMAIN most : chosen(i) >= MinUseful}
        least(s) == CHOOSE i \in s : \A j \in s : i <= j
    IN IF useful # {} THEN chosen(least(useful)) ELSE chosen(1)

(* ladder_context(): the best rung that leaves a workable context, failing *)
(* that the first that leaves any; a rung that holds nothing is skipped.   *)
(* most[i]: the largest context on rung i.                                 *)
LadderPick(most, native) ==
    LET chosen(i) == ClampContext(most[i], native)
        holds == {i \in DOMAIN most : most[i] > 0}
        useful == {i \in holds : chosen(i) >= MinUseful}
        least(s) == CHOOSE i \in s : \A j \in s : i <= j
    IN IF useful # {} THEN chosen(least(useful))
       ELSE IF holds # {} THEN chosen(least(holds)) ELSE Step

LadderContext(r, rungs) == LadderPick([i \in DOMAIN rungs |-> MaxContextOn(r, rungs[i])], r.native)

(* _walk(): one context for the whole ladder; the first rung that fits.    *)
FirstThatFits(rungs, verdicts) ==
    LET fit == {i \in DOMAIN rungs : verdicts[i] # "wont_fit"}
        at == IF fit = {} THEN 1 ELSE CHOOSE i \in fit : \A j \in fit : i <= j
    IN [verdict |-> verdicts[at], rung |-> rungs[at]]

WalkAt(r, rungs, context) ==
    LET taken == FirstThatFits(rungs,
                    [i \in DOMAIN rungs |-> VerdictOf([OnRung(r, rungs[i]) EXCEPT !.context = context])])
    IN [verdict |-> taken.verdict, rung |-> taken.rung, context |-> context, params |-> r.shape.params]

Walk(r, rungs) == WalkAt(r, rungs, IF r.context > 0 THEN r.context ELSE LadderContext(r, rungs))

(* largest_runnable(): the most parameters among what fits, the first of   *)
(* equals.                                                                 *)
BestRow(rows) ==
    LET fits == {i \in DOMAIN rows : rows[i].verdict # "wont_fit"}
    IN IF fits = {} THEN 0 ELSE InOrder(fits, [i \in fits |-> <<-rows[i].params, i>>])[1]

----------------------------------------------------------------------------
(* capacity_api.py: which machines are asked about.                        *)
(* _host_budget(): with no GPU anywhere, what the hosts have in memory.    *)
HostBudget(nodes) ==
    [id \in {n.id : n \in {m \in nodes : m.host > 0}} |-> (CHOOSE n \in nodes : n.id = id).host]

(* _order_profiles(): this machine, then the roomiest.                     *)
MutOrderProfiles(q, nodes) == InOrder(nodes, [n \in nodes |-> <<-n.ceiling, n.rank>>])

OrderProfiles(q, nodes) ==
    InOrder(nodes, [n \in nodes |-> <<IF n.id = q.local THEN 0 ELSE 1, -n.ceiling, n.rank>>])

Scoped(q) == {n \in ToSet(q.nodes) : q.named = {} \/ n.id \in q.named}
Gpus(q) == {n \in Scoped(q) : n.ceiling > 0}
OnHosts(q) == Gpus(q) = {}
Candidates(q) == IF OnHosts(q) THEN {n \in Scoped(q) : n.host > 0} ELSE Gpus(q)

(* What the capacity probe is about: one machine unless some were named;   *)
(* the variant list is about all of them.                                  *)
Profiles(q) ==
    LET ordered == OrderProfiles(q, Candidates(q))
    IN IF q.kind = "capacity" /\ q.named = {} THEN SubSeq(ordered, 1, AtMost(1, Len(ordered)))
       ELSE ordered

(* allocatable_map(): a machine nothing has measured is left out.          *)
LiveBudgets(q) ==
    IF OnHosts(q) THEN HostBudget(ToSet(Profiles(q)))
    ELSE [id \in {n.id : n \in ToSet(Profiles(q))} \cap DOMAIN q.live |-> q.live[id]]

(* _plan_for() and probe_plan(): as wide as the model divides.             *)
PlanOver(ids, degrees) ==
    LET tp == CHOOSE d \in degrees : \A e \in degrees : e <= d
    IN [tp |-> tp, pp |-> 1, ep |-> 1, dp |-> 1, nodes |-> SubSeq(ids, 1, tp)]

ProbePlan(shape, profiles) ==
    PlanOver([i \in DOMAIN profiles |-> profiles[i].id], ValidTpDegrees(shape, Len(profiles)))

AskedOf(q, shape, weight, live) ==
    [shape |-> shape, weight |-> weight, native |-> q.native, context |-> q.context, seqs |-> q.seqs, kv |-> q.kv,
     plan |-> ProbePlan(shape, Profiles(q)), nodes |-> Profiles(q), live |-> live]
Asked(q, live) == AskedOf(q, q.shape, q.weight, live)

(* GET /api/capacity, of a model and of those named beside it, each split  *)
(* as it divides: by what is free now and by the ceiling.                  *)
NothingToAsk == [error |-> "no_nodes"]
Side(rows) ==
    [verdict |-> rows[1].verdict, rung |-> rows[1].rung, context |-> rows[1].context, best |-> BestRow(rows)]
SideOf(q, live) ==
    LET models == <<q.shape>> \o q.beside
        weight(i) == IF i = 1 THEN q.weight ELSE 0
    IN Side([i \in DOMAIN models |-> Walk(AskedOf(q, models[i], weight(i), live), Rungs(models[i], weight(i)))])

CapacityOf(q, live) ==
    [probed |-> Profiles(q)[1].id,
     live   |-> IF DOMAIN live = {} THEN << >> ELSE <<SideOf(q, live)>>,
     static |-> IF OnHosts(q) THEN << >> ELSE <<SideOf(q, << >>)>>]

----------------------------------------------------------------------------
(* GET /api/models/variants: every published variant as it ships, all at   *)
(* one context, found over them in order of quality.                       *)
Quality(i, q) == Halves[q.variants[i].dtype]
VariantRungs(q) ==
    LET order == InOrder(DOMAIN q.variants, [i \in DOMAIN q.variants |-> <<-Quality(i, q), i>>])
    IN [k \in DOMAIN order |-> [dtype |-> q.variants[order[k]].dtype, weight |-> q.variants[order[k]].bytes]]

VariantContext(q) ==
    IF q.context > 0 THEN q.context ELSE LadderContext(Asked(q, LiveBudgets(q)), VariantRungs(q))

(* The model's window is not part of a variant's verdict.                  *)
VariantRow(q, r, i) ==
    LET rung == [dtype |-> q.variants[i].dtype, weight |-> q.variants[i].bytes]
    IN [at |-> i, verdict |-> VerdictOf(OnRung(r, rung)), context |-> r.context,
        bytes |-> q.variants[i].bytes, launchable |-> q.variants[i].launchable,
        quality |-> Quality(i, q), rung |-> rung]
VariantRows(q, r) == {VariantRow(q, r, i) : i \in DOMAIN q.variants}
VariantsAsked(q) == [Asked(q, LiveBudgets(q)) EXCEPT !.native = 0, !.context = VariantContext(q)]

(* _rank_key(): what fits first, the largest first; the nearest miss first *)
(* of what does not.                                                       *)
Tier(row) == CASE row.verdict = "fits" -> 0 [] row.verdict = "fits_degraded" -> 1 [] OTHER -> 2
MutRankKey(row) == <<Tier(row), row.bytes, row.quality, row.at>>

RankKey(row) ==
    IF Tier(row) = 2 THEN <<2, row.bytes, row.quality, row.at>>
    ELSE <<Tier(row), -row.bytes, -row.quality, row.at>>

VariantsOf(q) ==
    LET rows == VariantRows(q, VariantsAsked(q)) IN InOrder(rows, [row \in rows |-> RankKey(row)])

(* _recommend(): the first row that fits and can be launched here.         *)
Recommend(rows) ==
    LET usable == {i \in DOMAIN rows : Tier(rows[i]) < 2 /\ rows[i].launchable}
    IN IF usable = {} THEN << >> ELSE <<rows[CHOOSE i \in usable : \A j \in usable : i <= j]>>

----------------------------------------------------------------------------
(* livefit.py: dual_check() and serve_decision().  gates: permissions of   *)
(* other kinds that are asked for beside it.                               *)
DualCheck(q, live) ==
    LET on(budgets) == VerdictOf([Asked(q, budgets) EXCEPT !.context = AtLeast(1, q.context)])
    IN [static |-> on(<< >>), live |-> IF DOMAIN live = {} THEN "unknown" ELSE on(live)]

ServeDecision(both, gates) ==
    LET governing == IF both.live # "unknown" THEN both.live ELSE both.static
        refused == governing = "wont_fit"
        overridable == refused /\ both.live # "unknown"
    IN [allowed |-> ~refused,
        overrides |-> IF refused /\ ~overridable THEN {}
                      ELSE gates \cup IF overridable THEN {"allow_over_live_memory"} ELSE {}]
ServeAnswer(both, gates) == [both |-> both, decision |-> ServeDecision(both, gates)]

----------------------------------------------------------------------------
NotAnswered == [of |-> "nothing"]
CapacityInit == capAsk \in CapacityRequests /\ capAnswer = NotAnswered
CapacityNext ==
    /\ capAnswer = NotAnswered
    /\ UNCHANGED capAsk
    /\ \/ Profiles(capAsk) = << >> /\ capAnswer' = NothingToAsk
       \/ Profiles(capAsk) # << >> /\ capAsk.kind = "capacity" /\ capAnswer' = CapacityOf(capAsk, LiveBudgets(capAsk))
       \/ Profiles(capAsk) # << >> /\ capAsk.kind = "variants" /\ capAnswer' = [rows |-> VariantsOf(capAsk)]
       \/ Profiles(capAsk) # << >> /\ capAsk.kind = "serve"
            /\ \E gates \in SUBSET {"allow_mixed_hardware"} :
                capAnswer' = ServeAnswer(DualCheck(capAsk, LiveBudgets(capAsk)), gates)
CapacitySpec == CapacityInit /\ [][CapacityNext]_capVars

----------------------------------------------------------------------------
(* Properties.                                                             *)
Sides == IF "static" \in DOMAIN capAnswer
         THEN {<<capAnswer.static[i], << >> >> : i \in DOMAIN capAnswer.static}
              \cup {<<capAnswer.live[i], LiveBudgets(capAsk)>> : i \in DOMAIN capAnswer.live}
         ELSE {}

(* The context the probe picks for itself never makes it refuse a model    *)
(* that some rung of the ladder could have served, and is a workable one   *)
(* if there is any; and then the probe names a model that runs.            *)
LadderNotWasted ==
    capAsk.context = 0 => \A side \in Sides :
        LET rungs == Rungs(capAsk.shape, capAsk.weight)
            most(i) == MaxContextOn(Asked(capAsk, side[2]), rungs[i])
            limit == IF capAsk.native > 0 THEN capAsk.native ELSE FallbackContext
        IN /\ (\E i \in DOMAIN rungs : most(i) > 0) 
                => side[1].verdict # "wont_fit" /\ side[1].best > 0
           /\ (\E i \in DOMAIN rungs : most(i) >= MinUseful) /\ limit >= MinUseful
                => side[1].context >= MinUseful

(* "the machine somebody ... is standing in front of": the answer is about *)
(* the coordinator whenever it can be, and otherwise the roomiest; it is   *)
(* never about a machine that was not named.                               *)
ProbedRight ==
    "probed" \in DOMAIN capAnswer =>
        LET p == CHOOSE n \in ToSet(capAsk.nodes) : n.id = capAnswer.probed IN
        /\ capAsk.named # {} => p.id \in capAsk.named
        /\ \A n \in Candidates(capAsk) :
            p.id # capAsk.local => n.id # capAsk.local /\ n.ceiling <= p.ceiling

(* The variant recommended is one the gate lets through where it is to     *)
(* run, and no larger launchable one is; the model's window apart.         *)
RecommendedRuns ==
    "rows" \in DOMAIN capAnswer =>
        LET runs == {row \in VariantRows(capAsk, VariantsAsked(capAsk)) : row.launchable /\ Tier(row) < 2}
            best == Recommend(capAnswer.rows)
        IN /\ (best = << >>) = (runs = {})
           /\ best # << >> => \A row \in runs : row.verdict = best[1].verdict => row.bytes <= best[1].bytes

(* check(): "the runtime refuses to start past a model's own window": what *)
(* the variant list says fits, the gate lets through.                      *)
VariantsWithinWindow ==
    "rows" \in DOMAIN capAnswer => \A i \in DOMAIN capAnswer.rows :
        Tier(capAnswer.rows[i]) < 2 /\ capAsk.native > 0 => capAnswer.rows[i].context <= capAsk.native

(* serve_decision(): "A static WONT_FIT means the model does not fit this  *)
(* hardware at all, and no amount of waiting or operator insistence        *)
(* changes that".                                                          *)
StaticRefusalFinal ==
    "both" \in DOMAIN capAnswer /\ capAnswer.both.static = "wont_fit" => capAnswer.decision.overrides = {}

(* What the capacity answers promise: the context the probe picks refuses  *)
(* no model some rung could have served, the answer is about the machine   *)
(* it should be about, and the variant recommended is the largest that     *)
(* runs.                                                                   *)
CapacityPromise ==
    LadderNotWasted /\ ProbedRight /\ RecommendedRuns
=============================================================================
