-------------------------------- MODULE Fit --------------------------------
(***************************************************************************)
(* fit/calculator.py and fit/kv.py: will this model, under this plan, run  *)
(* in the memory of these machines, and what would make it.                *)
(*                                                                         *)
(* One request is asked and answered.  The numbers are the code's formulas *)
(* over small shapes; its floats are exact fractions here.                 *)
(***************************************************************************)
EXTENDS Integers, Sequences, SequencesExt

CONSTANTS
    Halves,        \* Halves[d]: BYTES_PER_PARAM of dtype d, in half bytes
    KvBytes,       \* KvBytes[d]: KV_ELEM_BYTES; not every dtype has one
    Ladder,        \* QUANT_SUGGESTION_ORDER, best quality first
    Chunk, Step, MaxContext, MaxNodes,  \* the search's grain and ceilings
    CommBuffer, EpBuffer, Overhead,     \* fixed costs
    TpsFloor,      \* DEGRADED_TPS_THRESHOLD, of the bandwidth's unit
    FitRequests    \* what is asked

ASSUME TablesAssumption ==
    /\ Halves \in [DOMAIN Halves -> Nat] /\ KvBytes \in [DOMAIN KvBytes -> Nat \ {0}]
    /\ {"bf16", "fp8"} \subseteq DOMAIN KvBytes /\ KvBytes["fp8"] = 1
    /\ Ladder \in Seq(DOMAIN Halves)
    /\ {Chunk, CommBuffer, EpBuffer, Overhead, MaxNodes, TpsFloor} \subseteq Nat
    /\ Step \in Nat \ {0} /\ MaxContext \in Nat /\ MaxContext >= Step

(* What can be asked: a shape of a model, a split of it, and machines.     *)
ShapeOK(s) ==
    /\ {"params", "active", "vision", "heads", "kvHeads", "layers", "mla", "window", "full", "hidden",
        "vocab", "dtype"} \subseteq DOMAIN s
    /\ {s.params, s.active, s.vision, s.mla, s.window, s.hidden, s.vocab} \subseteq Nat
    /\ {s.heads, s.kvHeads, s.layers} \subseteq Nat \ {0}
    /\ s.full \in Int /\ s.dtype \in DOMAIN Halves
SplitOK(plan) == {plan.tp, plan.pp, plan.ep, plan.dp} \subseteq Nat \ {0}
AskOK(r) ==
    /\ DOMAIN r = {"shape", "plan", "context", "seqs", "kv", "weight", "native", "nodes", "live"}
    /\ ShapeOK(r.shape) /\ SplitOK(r.plan)
    /\ {r.context, r.seqs, r.weight, r.native} \subseteq Nat
    /\ r.plan.nodes \in Seq(ToSet(r.plan.nodes))
    /\ r.nodes \in Seq(ToSet(r.nodes)) /\ r.nodes # << >>
    /\ \A n \in ToSet(r.nodes) : n.ceiling \in Nat
    /\ \A id \in DOMAIN r.live : r.live[id] \in Int
ASSUME FitAssumption == \A r \in FitRequests : AskOK(r)

VARIABLES fitAsk, fitAnswer
fitVars == <<fitAsk, fitAnswer>>

AtLeast(n, m) == IF n >= m THEN n ELSE m
AtMost(n, m) == IF n <= m THEN n ELSE m
CeilDiv(n, d) == (n + d - 1) \div d
SumOver(values) == MapThenSumSet(LAMBDA i : values[i], DOMAIN values)

----------------------------------------------------------------------------
(* kv.py.  "auto" is the model's own dtype where the cache can be kept in  *)
(* it; anything unknown is charged as bf16.                                *)
KvElem(kv, shape) ==
    LET d == IF kv = "auto" THEN shape.dtype ELSE kv IN
    IF d \in DOMAIN KvBytes THEN KvBytes[d] ELSE KvBytes["bf16"]

(* A latent (MLA) is cached once for all heads.                            *)
PerLayerPerToken(shape, kv) ==
    KvElem(kv, shape) * IF shape.mla > 0 THEN shape.mla ELSE 2 * shape.kvHeads

(* Windowed layers keep no more than the window; full = -1: all alike.     *)
CachedLayerTokens(shape, context) ==
    LET full == IF shape.window = 0 THEN shape.layers
                ELSE AtMost(AtLeast(shape.full, 0), shape.layers)
    IN full * context + (shape.layers - full) * AtMost(shape.window, context)

KvCacheBytes(shape, context, seqs, kv) ==
    PerLayerPerToken(shape, kv) * CachedLayerTokens(shape, context) * seqs

(* stage_fraction(): layers on the busiest pipeline stage, of all.         *)
Busiest(shape, pp) == CeilDiv(shape.layers, pp)

(* kv_divisor(): KV heads are replicated past their number, a latent is    *)
(* never split.                                                            *)
HeadSplit(shape, plan) == IF shape.mla > 0 THEN 1 ELSE AtMost(plan.tp, shape.kvHeads)

----------------------------------------------------------------------------
(* The terms of one rank's budget.  weight_bytes, when known, is the       *)
(* measured checkpoint; the vision tower is replicated on every rank.      *)
Vision(shape) == AtMost(shape.vision, shape.params)

WeightBytesPerRank(shape, plan, weight) ==
    LET halves == IF weight > 0
                  THEN AtLeast(0, 2 * weight - Vision(shape) * Halves[shape.dtype])
                  ELSE (shape.params - Vision(shape)) * Halves[shape.dtype]
    IN (halves * Busiest(shape, plan.pp)) \div (2 * shape.layers * plan.tp)

ReplicatedBytes(shape) == (Vision(shape) * Halves[shape.dtype]) \div 2

ActivationBytes(shape, seqs, context) ==
    shape.vocab * AtLeast(1, seqs) * 4 + AtMost(Chunk, AtLeast(1, context)) * shape.hidden * 24

WorldSize(plan) == plan.tp * plan.pp * plan.dp

CommBufferBytes(plan) ==
    IF WorldSize(plan) <= 1 /\ plan.ep <= 1 THEN 0
    ELSE CommBuffer + IF plan.ep > 1 THEN EpBuffer ELSE 0

(* memory_breakdown()                                                      *)
MemoryBreakdown(shape, plan, context, seqs, kv, weight) ==
    [weights     |-> WeightBytesPerRank(shape, plan, weight),
     kv          |-> (KvCacheBytes(shape, context, seqs, kv) * Busiest(shape, plan.pp))
                        \div (shape.layers * HeadSplit(shape, plan)),
     activations |-> ActivationBytes(shape, seqs, context),
     comm        |-> CommBufferBytes(plan),
     replicated  |-> ReplicatedBytes(shape),
     framework   |-> Overhead]

Total(b) == b.weights + b.kv + b.activations + b.comm + b.replicated + b.framework

FitsAt(r, context, seqs, usable) ==
    Total(MemoryBreakdown(r.shape, r.plan, context, seqs, r.kv, r.weight)) <= usable

----------------------------------------------------------------------------
(* The machines.  _participating(): the plan's, in its order; all of them  *)
(* when it names none that is known.                                       *)
Called(r, id) == {n \in ToSet(r.nodes) : n.id = id}
Participating(r) ==
    LET chosen[k \in 0 .. Len(r.plan.nodes)] ==
            IF k = 0 THEN << >>
            ELSE IF Called(r, r.plan.nodes[k]) = {} THEN chosen[k - 1]
            ELSE Append(chosen[k - 1], CHOOSE n \in Called(r, r.plan.nodes[k]) : TRUE)
        named == chosen[Len(r.plan.nodes)]
    IN IF named = << >> THEN r.nodes ELSE named

(* _budget(): what a node can hand out now if it has been read, its static *)
(* ceiling otherwise; the first node with the least of it binds.           *)
NodeBudget(r, n) == IF n.id \in DOMAIN r.live THEN r.live[n.id] ELSE n.ceiling

MutBinding(r) ==
    LET used == Participating(r)
    IN used[CHOOSE i \in DOMAIN used : \A j \in DOMAIN used : used[i].ceiling <= used[j].ceiling]

Binding(r) ==
    LET used == Participating(r)
        least(i) == \A j \in DOMAIN used : NodeBudget(r, used[i]) <= NodeBudget(r, used[j])
    IN used[CHOOSE i \in DOMAIN used : least(i) /\ \A j \in 1 .. i - 1 : ~least(j)]

Usable(r) == NodeBudget(r, Binding(r))

Ranks(r) ==
    LET used == Participating(r) IN SumOver([i \in DOMAIN used |-> AtLeast(1, used[i].gpus)])

(* predict_decode_tps() against the floor: bandwidth over what one token   *)
(* reads.                                                                  *)
TooSlow(r) ==
    LET used == Participating(r)
        reads == r.shape.active * Halves[r.shape.dtype]
                    + 2 * KvCacheBytes(r.shape, r.context, 1, r.kv)
    IN \E i \in DOMAIN used : used[i].bandwidth < TpsFloor * reads

----------------------------------------------------------------------------
(* Searches.  Bisect(): the loops of _largest_context() and                *)
(* _largest_max_seqs(), which know that low fits and high does not; a      *)
(* distance is gone after as many rounds.                                  *)
Narrowed(at, fitting) ==
    LET mid == (at.lo + at.hi + 1) \div 2
    IN IF at.lo >= at.hi THEN at
       ELSE IF mid \in fitting THEN [lo |-> mid, hi |-> at.hi] ELSE [lo |-> at.lo, hi |-> mid - 1]

Bisect(low, high, fitting) ==
    LET round[k \in 0 .. high - low] ==
            IF k = 0 THEN [lo |-> low, hi |-> high] ELSE Narrowed(round[k - 1], fitting)
    IN round[high - low].lo

LargestMaxSeqs(r, usable, ceiling) ==
    LET fitting == {seqs \in 1 .. ceiling : FitsAt(r, r.context, seqs, usable)}
    IN IF 1 \notin fitting THEN 0
       ELSE IF ceiling \in fitting THEN ceiling ELSE Bisect(1, ceiling, fitting)

MutLargestContext(r, usable) ==
    LET top == (MaxContext \div Step) - 1
        fitting == {units \in 1 .. top : FitsAt(r, units * Step, r.seqs, usable)}
    IN IF 1 \notin fitting THEN 0
       ELSE Step * IF top \in fitting THEN top ELSE Bisect(1, top, fitting)

LargestContext(r, usable) ==
    LET top == MaxContext \div Step
        fitting == {units \in 1 .. top : FitsAt(r, units * Step, r.seqs, usable)}
    IN IF 1 \notin fitting THEN 0
       ELSE Step * IF top \in fitting THEN top ELSE Bisect(1, top, fitting)

(* _candidate_shards(n) and min_nodes_required(): the fewest nodes like    *)
(* the binding one; -1 when no number up to the limit will do.             *)
CandidateShards(n, shape) ==
    {[tp |-> tp, pp |-> n \div tp, ep |-> 1, dp |-> 1, nodes |-> << >>] :
        tp \in {d \in 1 .. n : /\ n % d = 0 /\ n \div d <= shape.layers
                               /\ shape.heads % d = 0 /\ shape.kvHeads % d = 0}}

HeldBy(r, n, usable) ==
    \E plan \in CandidateShards(n, r.shape) : FitsAt([r EXCEPT !.plan = plan], r.context, r.seqs, usable)

MutMinNodesRequired(r, usable) ==
    LET enough == {n \in 1 .. MaxNodes : HeldBy(r, n, Binding(r).ceiling)}
    IN IF enough = {} THEN -1 ELSE CHOOSE n \in enough : \A m \in enough : n <= m

MinNodesRequired(r, usable) ==
    LET enough == {n \in 1 .. MaxNodes : HeldBy(r, n, usable)}
    IN IF enough = {} THEN -1 ELSE CHOOSE n \in enough : \A m \in enough : n <= m

(* _suggest_quant(): the first dtype of the ladder that is smaller and     *)
(* whose weights fit beside every other term as it is.                     *)
SuggestQuant(r, b, usable) ==
    LET room == usable - (Total(b) - b.weights)
        held == (r.shape.params - Vision(r.shape)) * Busiest(r.shape, r.plan.pp)
        fine(d) == /\ Halves[d] < Halves[r.shape.dtype]
                   /\ held * Halves[d] <= room * 2 * r.shape.layers * r.plan.tp
    IN IF room <= 0 \/ held <= 0 \/ \A i \in DOMAIN Ladder : ~fine(Ladder[i]) THEN "none"
       ELSE Ladder[CHOOSE i \in DOMAIN Ladder : fine(Ladder[i]) /\ \A j \in 1 .. i - 1 : ~fine(Ladder[j])]

----------------------------------------------------------------------------
(* _diagnose(): which term is to blame, and the fixes its sentence offers. *)
NoFixes == [context |-> 0, seqs |-> 0, fp8 |-> FALSE, quant |-> "none", nodes |-> -1]

(* _nodes_phrase()                                                         *)
NodesFix(r, usable) == IF Binding(r).ceiling <= 0 THEN -1 ELSE MinNodesRequired(r, usable)

WeightsReason(r, b, usable) ==
    [NoFixes EXCEPT !.nodes = NodesFix(r, usable), !.quant = SuggestQuant(r, b, usable)]

(* _kv_reason(): the fp8 cache is offered as fitting only if it would.     *)
KvReason(r, b, usable) ==
    [NoFixes EXCEPT !.context = LargestContext(r, usable),
                    !.seqs = LargestMaxSeqs(r, usable, r.seqs - 1),
                    !.fp8 = /\ KvElem(r.kv, r.shape) > 1
                            /\ (Total(b) - b.kv) * KvElem(r.kv, r.shape) + b.kv
                                    <= usable * KvElem(r.kv, r.shape),
                    !.nodes = NodesFix(r, usable)]

CombinedReason(r, b, usable) ==
    [NoFixes EXCEPT !.nodes = NodesFix(r, usable), !.quant = SuggestQuant(r, b, usable),
                    !.seqs = LargestMaxSeqs(r, usable, r.seqs - 1)]

(* _combined_reason() says of a term that is more than half of it all that *)
(* shedding it would not be enough.                                        *)
Dominant(b) == {t \in DOMAIN b : 2 * b[t] > Total(b)}

MutDiagnose(r, b, usable) ==
    IF Total(b) - b.kv > usable
    THEN [term |-> "weights", fixes |-> WeightsReason(r, b, usable)]
    ELSE [term |-> "kv_cache", fixes |-> KvReason(r, b, usable)]

Diagnose(r, b, usable) ==
    IF b.weights + b.replicated > usable
    THEN [term |-> "weights", fixes |-> WeightsReason(r, b, usable)]
    ELSE IF Total(b) - b.kv <= usable /\ b.kv > 0
    THEN [term |-> "kv_cache", fixes |-> KvReason(r, b, usable)]
    ELSE [term |-> "combined", fixes |-> CombinedReason(r, b, usable)]

(* check(), by the question that decides: are there ranks for the plan,    *)
(* room for the terms, is the context in the model's window, is it fast.   *)
Breakdown(r) == MemoryBreakdown(r.shape, r.plan, r.context, r.seqs, r.kv, r.weight)

Cause(r, usable) ==
    IF WorldSize(r.plan) > Ranks(r) THEN "ranks"
    ELSE IF Total(Breakdown(r)) > usable THEN "memory"
    ELSE IF r.native > 0 /\ r.context > r.native THEN "context"
    ELSE IF TooSlow(r) THEN "bandwidth" ELSE "none"

Verdict(cause) ==
    CASE cause \in {"ranks", "memory", "context"} -> "wont_fit"
      [] cause = "bandwidth" -> "fits_degraded"
      [] cause = "none" -> "fits"

VerdictOf(r) == Verdict(Cause(r, Usable(r)))

(* limit: max_context_that_fits, 0 for None.                               *)
Check(r) ==
    LET usable == Usable(r)
        cause == Cause(r, usable)
        most == LargestContext(r, usable)
        diagnosis == CASE cause = "memory" -> Diagnose(r, Breakdown(r), usable)
                       [] cause = "ranks" -> [term |-> "combined", fixes |-> NoFixes]
                       [] OTHER -> [term |-> cause, fixes |-> NoFixes]
    IN [verdict |-> Verdict(cause), breakdown |-> Breakdown(r), usable |-> usable,
        limit |-> CASE cause = "ranks" -> 0 [] cause = "context" -> AtMost(most, r.native) [] OTHER -> most,
        term |-> diagnosis.term, fixes |-> diagnosis.fixes]

NoAnswer == [verdict |-> "none"]
FitInit == fitAsk \in FitRequests /\ fitAnswer = NoAnswer
FitNext == fitAnswer = NoAnswer /\ fitAnswer' = Check(fitAsk) /\ UNCHANGED fitAsk
FitSpec == FitInit /\ [][FitNext]_fitVars

----------------------------------------------------------------------------
(* Properties.                                                             *)
Answered == fitAnswer # NoAnswer

(* A model that is said to fit has room on every machine of the plan, by   *)
(* what each can hand out now, whichever of them was thought to bind.      *)
VerdictHolds ==
    Answered /\ fitAnswer.verdict # "wont_fit" =>
        /\ \A n \in ToSet(Participating(fitAsk)) : Total(fitAnswer.breakdown) <= NodeBudget(fitAsk, n)
        /\ fitAsk.native > 0 => fitAsk.context <= fitAsk.native

(* The binary search finds the context a search of every one would find.   *)
LargestContextExact ==
    Answered => LET ok(c) == FitsAt(fitAsk, c, fitAsk.seqs, fitAnswer.usable)
                    found == {c \in 1 .. MaxContext : c % Step = 0 /\ ok(c)}
                    most == LargestContext(fitAsk, fitAnswer.usable)
                IN IF found = {} THEN most = 0
                   ELSE most \in found /\ \A c \in found : c <= most

(* Every fix a refusal offers works when it is followed, alone, on the     *)
(* machines as they are; a new dtype does if it leaves the cache's alone.  *)
Followed(fix, r) ==
    CASE fix = "context" -> [r EXCEPT !.context = fitAnswer.fixes.context]
      [] fix = "seqs"    -> [r EXCEPT !.seqs = fitAnswer.fixes.seqs]
      [] fix = "fp8"     -> [r EXCEPT !.kv = "fp8"]
      [] fix = "quant"   -> [r EXCEPT !.shape.dtype = fitAnswer.fixes.quant, !.weight = 0]
Offered ==
    {fix \in {"context", "seqs", "fp8", "quant"} :
        \/ fix = "context" /\ fitAnswer.fixes.context > 0
        \/ fix = "seqs" /\ fitAnswer.fixes.seqs > 0
        \/ fix = "fp8" /\ fitAnswer.fixes.fp8
        \/ fix = "quant" /\ fitAnswer.fixes.quant # "none" /\ fitAsk.kv # "auto"}

AdviceWorks ==
    Answered =>
        /\ \A fix \in Offered : LET r == Followed(fix, fitAsk) IN FitsAt(r, r.context, r.seqs, fitAnswer.usable)
        /\ fitAnswer.fixes.nodes > 0 => HeldBy(fitAsk, fitAnswer.fixes.nodes, fitAnswer.usable)
        /\ fitAnswer.fixes.context > 0 => fitAnswer.fixes.context < fitAsk.context

(* "Context and concurrency cannot fix this": when the weights are blamed, *)
(* no request for this model under this plan would have been let through.  *)
WeightsBlamedRightly ==
    Answered /\ fitAnswer.verdict = "wont_fit" /\ fitAnswer.term = "weights" =>
        \A c \in 1 .. fitAsk.context, n \in 1 .. fitAsk.seqs : ~FitsAt(fitAsk, c, n, fitAnswer.usable)

(* _combined_reason(): "the rest still needs ... so shedding it alone will *)
(* not close the gap".                                                     *)
SheddingNotEnough ==
    Answered /\ fitAnswer.verdict = "wont_fit" /\ fitAnswer.term = "combined" =>
        \A t \in Dominant(fitAnswer.breakdown) :
            Total(fitAnswer.breakdown) - fitAnswer.breakdown[t] > fitAnswer.usable

(* What the fit gate promises of every request: a model said to fit has    *)
(* room on every machine of the plan, the largest context is the one a     *)
(* full search finds, every fix works when it is followed, and the weights *)
(* are blamed only when nothing else would help.                           *)
FitPromise ==
    VerdictHolds /\ LargestContextExact /\ AdviceWorks /\ WeightsBlamedRightly
=============================================================================
