--------------------------- MODULE PlanningProofs ---------------------------
(***************************************************************************)
(* What is worked out before a model is launched: the fit gate, the        *)
(* planner and the capacity answers, for any model, plan, machines, links  *)
(* and tables of sizes.                                                    *)
(***************************************************************************)
EXTENDS Capacity, NumberFacts, TLAPS

----------------------------------------------------------------------------
(* The search.  Rounds(f, ...): f is what the loop goes through.           *)

Rounds(f, low, high, fitting) ==
    f = [k \in 0 .. high - low |->
            IF k = 0 THEN [lo |-> low, hi |-> high] ELSE Narrowed(f[k - 1], fitting)]
RoundsFcn(low, high, fitting) == CHOOSE f : Rounds(f, low, high, fitting)

LEMMA BisectUnfolds ==
    ASSUME NEW low, NEW high, NEW fitting
    PROVE  Bisect(low, high, fitting) = RoundsFcn(low, high, fitting)[high - low].lo
  BY DEF Bisect, RoundsFcn, Rounds

Spans == [lo : Int, hi : Int]

LEMMA NarrowedIs ==
    ASSUME NEW at \in Spans, NEW fitting
    PROVE  Narrowed(at, fitting) \in Spans
  <1> DEFINE mid == (at.lo + at.hi + 1) \div 2
  <1>1. at.lo \in Int /\ at.hi \in Int /\ mid \in Int
    BY DEF Spans
  <1>2. Narrowed(at, fitting) = IF at.lo >= at.hi THEN at
                                ELSE IF mid \in fitting THEN [lo |-> mid, hi |-> at.hi] ELSE [lo |-> at.lo, hi |-> mid - 1]
    BY DEF Narrowed
  <1> HIDE DEF mid
  <1> QED BY <1>1, <1>2 DEF Spans

LEMMA RoundsExist ==
    ASSUME NEW low \in Int, NEW high \in Int, low <= high, NEW fitting
    PROVE  Rounds(RoundsFcn(low, high, fitting), low, high, fitting)
  <1> DEFINE L == high - low
             base == [lo |-> low, hi |-> high]
             G == [k \in 1 .. L |-> [v \in Spans |-> Narrowed(v, fitting)]]
  <1>1. L \in Nat /\ base \in Spans
    BY DEF Spans
  <1>2. G \in [1 .. L -> [Spans -> Spans]]
    BY NarrowedIs
  <1>3. \A k \in 1 .. L, v \in Spans : G[k][v] = Narrowed(v, fitting)
    OBVIOUS
  <1> HIDE DEF G, L, base
  <1>4. PICK f : Follows(f, L, Spans, base, G)
    BY <1>1, <1>2, RecursionHolds
  <1>5. f \in [0 .. L -> Spans] /\ f[0] = base /\ \A k \in 1 .. L : f[k] = G[k][f[k - 1]]
    BY <1>4 DEF Follows
  <1>6. \A k \in 1 .. L : f[k] = Narrowed(f[k - 1], fitting)
    <2>1. \A k \in 1 .. L : f[k - 1] \in Spans
      BY <1>1, <1>5
    <2> QED BY <1>3, <1>5, <2>1
  <1>7. f = [k \in 0 .. L |-> IF k = 0 THEN base ELSE Narrowed(f[k - 1], fitting)]
    <2>1. \A k \in 0 .. L : f[k] = IF k = 0 THEN base ELSE Narrowed(f[k - 1], fitting)
      <3>1. \A k \in 0 .. L : k = 0 \/ (k # 0 /\ k \in 1 .. L)
        BY <1>1
      <3> QED BY <3>1, <1>5, <1>6
    <2> QED BY <1>5, <2>1
  <1>8. Rounds(f, low, high, fitting)
    BY <1>7 DEF Rounds, L, base
  <1> HIDE DEF Rounds
  <1> QED BY <1>8 DEF RoundsFcn

(* The middle of a span that is not a point.                               *)
LEMMA MiddleIs ==
    ASSUME NEW a \in Int, NEW b \in Int, a < b
    PROVE  (a + b + 1) \div 2 \in a + 1 .. b
  OBVIOUS

(* A search that starts where it fits, among values that fit whenever a    *)
(* greater one does, ends at the greatest that fits.                       *)
LEMMA BisectFinds ==
    ASSUME NEW low \in Int, NEW high \in Int, low <= high, NEW fitting, low \in fitting,
           \A x, y \in low .. high : x <= y /\ y \in fitting => x \in fitting
    PROVE  /\ Bisect(low, high, fitting) \in low .. high
           /\ Bisect(low, high, fitting) \in fitting
           /\ \A x \in low .. high : x \in fitting => x <= Bisect(low, high, fitting)
  <1> DEFINE L == high - low
             f == RoundsFcn(low, high, fitting)
             Near(at) == /\ at \in Spans /\ low <= at.lo /\ at.lo <= at.hi /\ at.hi <= high
                         /\ at.lo \in fitting /\ \A x \in low .. high : x \in fitting => x <= at.hi
             Right(k) == Near(f[k]) /\ f[k].hi - f[k].lo <= L - k
             X == {k \in Nat : k <= L => Right(k)}
  <1>1. L \in Nat
    OBVIOUS
  <1>2. Rounds(f, low, high, fitting)
    BY RoundsExist
  <1> HIDE DEF f
  <1>3. f[0] = [lo |-> low, hi |-> high] /\ \A k \in 1 .. L : f[k] = Narrowed(f[k - 1], fitting)
    <2>1. f = [k \in 0 .. L |-> IF k = 0 THEN [lo |-> low, hi |-> high] ELSE Narrowed(f[k - 1], fitting)]
      BY <1>2 DEF Rounds
    <2> HIDE DEF L
    <2>2. 0 \in 0 .. L /\ \A k \in 1 .. L : k \in 0 .. L /\ k # 0
      BY <1>1
    <2> QED BY <2>1, <2>2
  <1>4. ASSUME NEW at, Near(at), at.lo < at.hi
        PROVE  Near(Narrowed(at, fitting)) /\ Narrowed(at, fitting).hi - Narrowed(at, fitting).lo < at.hi - at.lo
    <2> DEFINE mid == (at.lo + at.hi + 1) \div 2  next == Narrowed(at, fitting)
    <2>1. at.lo \in Int /\ at.hi \in Int /\ ~(at.lo >= at.hi)
      BY <1>4 DEF Spans
    <2>2. mid \in at.lo + 1 .. at.hi
      BY <1>4, <2>1, MiddleIs
    <2>3. next = IF mid \in fitting THEN [lo |-> mid, hi |-> at.hi] ELSE [lo |-> at.lo, hi |-> mid - 1]
      BY <2>1 DEF Narrowed
    <2> HIDE DEF mid, next
    <2>4. CASE mid \in fitting
      <3>1. next.lo = mid /\ next.hi = at.hi /\ next \in Spans
        BY <2>1, <2>2, <2>3, <2>4 DEF Spans
      <3>2. Near(next)
        BY <1>4, <2>1, <2>2, <2>4, <3>1
      <3> QED BY <2>1, <2>2, <3>1, <3>2 DEF next
    <2>5. CASE mid \notin fitting
      <3>1. next.lo = at.lo /\ next.hi = mid - 1 /\ next \in Spans
        BY <2>1, <2>2, <2>3, <2>5 DEF Spans
      <3>2. mid \in low .. high
        BY <1>4, <2>1, <2>2
      <3>3. \A x \in low .. high : x \in fitting => x <= mid - 1
        BY <2>5, <3>2
      <3>4. Near(next)
        BY <1>4, <2>1, <2>2, <3>1, <3>3
      <3> QED BY <2>1, <2>2, <3>1, <3>4 DEF next
    <2> QED BY <2>4, <2>5
  <1>5. 0 \in X
    <2>1. f[0] \in Spans /\ f[0].lo = low /\ f[0].hi = high
      BY <1>3 DEF Spans
    <2>2. Near(f[0])
      BY <2>1
    <2> HIDE DEF Near
    <2> QED BY <2>1, <2>2
  <1>6. ASSUME NEW k \in Nat, k \in X PROVE k + 1 \in X
    <2> SUFFICES ASSUME k + 1 <= L PROVE Right(k + 1)
      OBVIOUS
    <2>1. Near(f[k]) /\ f[k].hi - f[k].lo <= L - k
      BY <1>1, <1>6
    <2>2. f[k + 1] = Narrowed(f[k], fitting)
      BY <1>1, <1>3
    <2>3. f[k].lo \in Int /\ f[k].hi \in Int /\ f[k].lo <= f[k].hi
      BY <2>1 DEF Spans
    <2>4. CASE f[k].lo < f[k].hi
      <3>1. Near(f[k + 1]) /\ f[k + 1].hi - f[k + 1].lo < f[k].hi - f[k].lo
        BY <1>4, <2>1, <2>2, <2>4
      <3>2. f[k + 1].lo \in Int /\ f[k + 1].hi \in Int
        BY <3>1 DEF Spans
      <3>3. f[k + 1].hi - f[k + 1].lo <= L - (k + 1)
        BY <1>1, <2>1, <2>3, <3>1, <3>2
      <3> HIDE DEF Near
      <3> QED BY <3>1, <3>3
    <2>5. CASE ~(f[k].lo < f[k].hi)
      <3>1. f[k + 1] = f[k] /\ f[k].lo = f[k].hi
        BY <2>2, <2>3, <2>5 DEF Narrowed
      <3>2. f[k + 1].hi - f[k + 1].lo <= L - (k + 1)
        BY <1>1, <2>3, <3>1
      <3> HIDE DEF Near
      <3> QED BY <2>1, <3>1, <3>2
    <2> QED BY <2>4, <2>5
  <1>7. Right(L)
    <2>1. L \in X
      <3> HIDE DEF X
      <3> QED BY <1>1, <1>5, <1>6, InductiveSet
    <2> HIDE DEF Right
    <2> QED BY <1>1, <2>1
  <1>8. Bisect(low, high, fitting) = f[L].lo
    BY BisectUnfolds DEF f
  <1>9. f[L].lo \in Int /\ f[L].hi = f[L].lo
    BY <1>1, <1>7 DEF Spans
  <1> HIDE DEF L
  <1> QED BY <1>7, <1>8, <1>9

----------------------------------------------------------------------------
(* The terms of the budget are numbers, and none is less for a longer      *)
(* context or for more sequences.                                          *)

LEMMA LeastIs ==
    ASSUME NEW a \in Int, NEW b \in Int
    PROVE  /\ AtMost(a, b) \in {a, b} /\ AtMost(a, b) <= a /\ AtMost(a, b) <= b
           /\ AtLeast(a, b) \in {a, b} /\ AtLeast(a, b) >= a /\ AtLeast(a, b) >= b
  BY DEF AtMost, AtLeast

LEMMA ShapeIs ==
    ASSUME NEW s, ShapeOK(s)
    PROVE  /\ s.params \in Nat /\ s.active \in Nat /\ s.vision \in Nat /\ s.mla \in Nat /\ s.window \in Nat
           /\ s.hidden \in Nat /\ s.vocab \in Nat /\ s.heads \in Nat \ {0} /\ s.kvHeads \in Nat \ {0}
           /\ s.layers \in Nat \ {0} /\ s.full \in Int /\ s.dtype \in DOMAIN Halves /\ Halves[s.dtype] \in Nat
  BY TablesAssumption DEF ShapeOK

LEMMA SplitIs ==
    ASSUME NEW plan, SplitOK(plan)
    PROVE  plan.tp \in Nat \ {0} /\ plan.pp \in Nat \ {0} /\ plan.ep \in Nat \ {0} /\ plan.dp \in Nat \ {0}
  BY DEF SplitOK

LEMMA TablesAre ==
    /\ Chunk \in Nat /\ CommBuffer \in Nat /\ EpBuffer \in Nat /\ Overhead \in Nat /\ MaxNodes \in Nat
    /\ \A d \in DOMAIN KvBytes : KvBytes[d] \in Nat \ {0}
    /\ KvBytes["fp8"] = 1 /\ "fp8" \in DOMAIN KvBytes /\ "bf16" \in DOMAIN KvBytes
  BY TablesAssumption

LEMMA ElemIs == ASSUME NEW kv, NEW s PROVE KvElem(kv, s) \in Nat \ {0}
  <1> DEFINE d == IF kv = "auto" THEN s.dtype ELSE kv
  <1>1. KvElem(kv, s) = IF d \in DOMAIN KvBytes THEN KvBytes[d] ELSE KvBytes["bf16"]
    BY DEF KvElem
  <1> HIDE DEF d
  <1> QED BY <1>1, TablesAre

Heads(s) == IF s.mla > 0 THEN s.mla ELSE 2 * s.kvHeads

LEMMA TokenIs ==
    ASSUME NEW s, ShapeOK(s), NEW kv
    PROVE  PerLayerPerToken(s, kv) = KvElem(kv, s) * Heads(s) /\ Heads(s) \in Nat /\ PerLayerPerToken(s, kv) \in Nat
  <1>1. Heads(s) \in Nat
    BY ShapeIs DEF Heads
  <1>2. PerLayerPerToken(s, kv) = KvElem(kv, s) * Heads(s)
    BY DEF PerLayerPerToken, Heads
  <1> QED BY <1>1, <1>2, ElemIs, ProductIs

LEMMA CachedGrows ==
    ASSUME NEW s, ShapeOK(s), NEW c \in Nat, NEW e \in Nat, c <= e
    PROVE  /\ CachedLayerTokens(s, c) \in Nat /\ CachedLayerTokens(s, e) \in Nat
           /\ CachedLayerTokens(s, c) <= CachedLayerTokens(s, e)
  <1> DEFINE full == IF s.window = 0 THEN s.layers ELSE AtMost(AtLeast(s.full, 0), s.layers)
             rest == s.layers - full
             m == AtMost(s.window, c)  n == AtMost(s.window, e)
  <1>1. s.layers \in Nat /\ s.full \in Int /\ s.window \in Nat
    BY ShapeIs
  <1>2. full \in Nat /\ rest \in Nat
    BY <1>1 DEF AtMost, AtLeast
  <1>3. m \in Nat /\ n \in Nat /\ m <= n
    BY <1>1 DEF AtMost
  <1>4. CachedLayerTokens(s, c) = full * c + rest * m /\ CachedLayerTokens(s, e) = full * e + rest * n
    BY DEF CachedLayerTokens
  <1> HIDE DEF full, rest, m, n
  <1>5. full * c <= full * e /\ full * c \in Nat /\ full * e \in Nat
        /\ rest * m <= rest * n /\ rest * m \in Nat /\ rest * n \in Nat
    BY <1>2, <1>3, ProductLess
  <1> QED BY <1>4, <1>5

LEMMA CacheGrows ==
    ASSUME NEW s, ShapeOK(s), NEW kv, NEW c \in Nat, NEW e \in Nat, c <= e, NEW m \in Nat, NEW n \in Nat, m <= n
    PROVE  /\ KvCacheBytes(s, c, m, kv) \in Nat /\ KvCacheBytes(s, e, n, kv) \in Nat
           /\ KvCacheBytes(s, c, m, kv) <= KvCacheBytes(s, e, n, kv)
  <1> DEFINE p == PerLayerPerToken(s, kv)  t == CachedLayerTokens(s, c)  u == CachedLayerTokens(s, e)
  <1>1. p \in Nat /\ t \in Nat /\ u \in Nat /\ t <= u
    BY TokenIs, CachedGrows
  <1>2. KvCacheBytes(s, c, m, kv) = p * t * m /\ KvCacheBytes(s, e, n, kv) = p * u * n
    BY DEF KvCacheBytes
  <1> HIDE DEF p, t, u
  <1>3. p * t <= p * u /\ p * t \in Nat /\ p * u \in Nat
    BY <1>1, ProductLess
  <1>4. p * t * m <= p * u * n /\ p * t * m \in Nat /\ p * u * n \in Nat
    BY <1>3, ProductLess
  <1> QED BY <1>2, <1>4

LEMMA ActivationsGrow ==
    ASSUME NEW s, ShapeOK(s), NEW c \in Nat, NEW e \in Nat, c <= e, NEW m \in Nat, NEW n \in Nat, m <= n
    PROVE  /\ ActivationBytes(s, m, c) \in Nat /\ ActivationBytes(s, n, e) \in Nat
           /\ ActivationBytes(s, m, c) <= ActivationBytes(s, n, e)
  <1> DEFINE v == s.vocab  h == s.hidden
             a == AtLeast(1, m)  b == AtLeast(1, n)
             x == AtMost(Chunk, AtLeast(1, c))  y == AtMost(Chunk, AtLeast(1, e))
  <1>1. v \in Nat /\ h \in Nat /\ Chunk \in Nat
    BY ShapeIs, TablesAre
  <1>2. a \in Nat /\ b \in Nat /\ a <= b /\ x \in Nat /\ y \in Nat /\ x <= y
    BY <1>1 DEF AtMost, AtLeast
  <1>3. ActivationBytes(s, m, c) = v * a * 4 + x * h * 24 /\ ActivationBytes(s, n, e) = v * b * 4 + y * h * 24
    BY DEF ActivationBytes
  <1> HIDE DEF v, h, a, b, x, y
  <1>4. v * a <= v * b /\ v * a \in Nat /\ v * b \in Nat /\ x * h <= y * h /\ x * h \in Nat /\ y * h \in Nat
    BY <1>1, <1>2, ProductLess
  <1> QED BY <1>3, <1>4

LEMMA BusiestIs ==
    ASSUME NEW s, ShapeOK(s), NEW plan, SplitOK(plan)
    PROVE  Busiest(s, plan.pp) \in Nat /\ HeadSplit(s, plan) \in Nat \ {0}
  <1> DEFINE l == s.layers  p == plan.pp
  <1>1. l \in Nat /\ p \in Nat \ {0} /\ plan.tp \in Nat \ {0} /\ s.kvHeads \in Nat \ {0}
    BY ShapeIs, SplitIs
  <1>2. Busiest(s, p) = (l + p - 1) \div p
    BY DEF Busiest, CeilDiv
  <1>3. HeadSplit(s, plan) \in Nat \ {0}
    BY <1>1 DEF HeadSplit, AtMost
  <1> HIDE DEF l, p
  <1>4. l + p - 1 \in Nat
    BY <1>1
  <1>5. (l + p - 1) \div p \in Nat
    BY <1>1, <1>4, Divides
  <1> QED BY <1>2, <1>3, <1>5 DEF p

LEMMA WeightsAre ==
    ASSUME NEW s, ShapeOK(s), NEW plan, SplitOK(plan), NEW weight \in Nat
    PROVE  WeightBytesPerRank(s, plan, weight) \in Nat /\ ReplicatedBytes(s) \in Nat
  <1> DEFINE v == Vision(s)  d == Halves[s.dtype]  b == Busiest(s, plan.pp)
             halves == IF weight > 0 THEN AtLeast(0, 2 * weight - v * d) ELSE (s.params - v) * d
             all == 2 * s.layers * plan.tp
  <1>1. v \in Nat /\ s.params - v \in Nat /\ d \in Nat /\ b \in Nat
    BY ShapeIs, BusiestIs DEF Vision, AtMost
  <1>2. s.layers \in Nat \ {0} /\ plan.tp \in Nat \ {0}
    BY ShapeIs, SplitIs
  <1>3. WeightBytesPerRank(s, plan, weight) = (halves * b) \div all /\ ReplicatedBytes(s) = (v * d) \div 2
    BY DEF WeightBytesPerRank, ReplicatedBytes
  <1>4. all \in Nat \ {0}
    <2>1. 2 * s.layers \in Nat \ {0}
      BY <1>2
    <2> QED BY <1>2, <2>1, PositiveProduct
  <1> HIDE DEF all, v, d, b
  <1>5. v * d \in Nat /\ (s.params - v) * d \in Nat
    BY <1>1, ProductIs
  <1>6. halves \in Nat
    <2>1. 2 * weight - v * d \in Int
      BY <1>5
    <2> QED BY <1>5, <2>1 DEF AtLeast
  <1> HIDE DEF halves
  <1>7. halves * b \in Nat
    BY <1>1, <1>6, ProductIs
  <1>8. (halves * b) \div all \in Nat /\ (v * d) \div 2 \in Nat
    BY <1>4, <1>5, <1>7, Divides
  <1> QED BY <1>3, <1>8

LEMMA CommIs == ASSUME NEW plan PROVE CommBufferBytes(plan) \in Nat
  BY TablesAre DEF CommBufferBytes

KvShare(s, plan, context, seqs, kv) ==
    (KvCacheBytes(s, context, seqs, kv) * Busiest(s, plan.pp)) \div (s.layers * HeadSplit(s, plan))

LEMMA ShareGrows ==
    ASSUME NEW s, ShapeOK(s), NEW plan, SplitOK(plan), NEW kv,
           NEW c \in Nat, NEW e \in Nat, c <= e, NEW m \in Nat, NEW n \in Nat, m <= n
    PROVE  /\ KvShare(s, plan, c, m, kv) \in Nat /\ KvShare(s, plan, e, n, kv) \in Nat
           /\ KvShare(s, plan, c, m, kv) <= KvShare(s, plan, e, n, kv)
  <1> DEFINE k == KvCacheBytes(s, c, m, kv)  j == KvCacheBytes(s, e, n, kv)
             b == Busiest(s, plan.pp)  d == s.layers * HeadSplit(s, plan)
  <1>1. k \in Nat /\ j \in Nat /\ k <= j
    BY CacheGrows
  <1>2. b \in Nat /\ d \in Nat \ {0}
    <2>1. s.layers \in Nat \ {0} /\ HeadSplit(s, plan) \in Nat \ {0} /\ b \in Nat
      BY ShapeIs, BusiestIs
    <2> QED BY <2>1, PositiveProduct
  <1>3. KvShare(s, plan, c, m, kv) = (k * b) \div d /\ KvShare(s, plan, e, n, kv) = (j * b) \div d
    BY DEF KvShare
  <1> HIDE DEF k, j, b, d
  <1>4. k * b <= j * b /\ k * b \in Nat /\ j * b \in Nat
    BY <1>1, <1>2, ProductLess
  <1> QED BY <1>2, <1>3, <1>4, FloorLess

LEMMA BreakdownIs ==
    ASSUME NEW s, ShapeOK(s), NEW plan, SplitOK(plan), NEW kv, NEW c \in Nat, NEW m \in Nat, NEW weight \in Nat,
           NEW b, b = MemoryBreakdown(s, plan, c, m, kv, weight)
    PROVE  /\ b.weights = WeightBytesPerRank(s, plan, weight) /\ b.weights \in Nat
           /\ b.kv = KvShare(s, plan, c, m, kv) /\ b.kv \in Nat
           /\ b.activations = ActivationBytes(s, m, c) /\ b.activations \in Nat
           /\ b.comm = CommBufferBytes(plan) /\ b.comm \in Nat
           /\ b.replicated = ReplicatedBytes(s) /\ b.replicated \in Nat
           /\ b.framework = Overhead /\ b.framework \in Nat
           /\ Total(b) = b.weights + b.kv + b.activations + b.comm + b.replicated + b.framework
  <1>1. /\ b.weights = WeightBytesPerRank(s, plan, weight) /\ b.kv = KvShare(s, plan, c, m, kv)
        /\ b.activations = ActivationBytes(s, m, c) /\ b.comm = CommBufferBytes(plan)
        /\ b.replicated = ReplicatedBytes(s) /\ b.framework = Overhead
    BY DEF MemoryBreakdown, KvShare
  <1>2. /\ WeightBytesPerRank(s, plan, weight) \in Nat /\ KvShare(s, plan, c, m, kv) \in Nat
        /\ ActivationBytes(s, m, c) \in Nat /\ CommBufferBytes(plan) \in Nat /\ ReplicatedBytes(s) \in Nat
        /\ Overhead \in Nat
    <2>1. c <= c /\ m <= m
      OBVIOUS
    <2>2. KvShare(s, plan, c, m, kv) \in Nat
      BY <2>1, ShareGrows
    <2>3. ActivationBytes(s, m, c) \in Nat
      BY <2>1, ActivationsGrow
    <2> QED BY <2>2, <2>3, WeightsAre, CommIs, TablesAre
  <1>3. Total(b) = b.weights + b.kv + b.activations + b.comm + b.replicated + b.framework
    BY DEF Total
  <1> QED BY <1>1, <1>2, <1>3

(* What does not fit does not fit with a longer context or more sequences. *)
LEMMA FitsLess ==
    ASSUME NEW r, ShapeOK(r.shape), SplitOK(r.plan), r.weight \in Nat, NEW usable \in Int,
           NEW c \in Nat, NEW e \in Nat, c <= e, NEW m \in Nat, NEW n \in Nat, m <= n,
           FitsAt(r, e, n, usable)
    PROVE  FitsAt(r, c, m, usable)
  <1> DEFINE a == MemoryBreakdown(r.shape, r.plan, c, m, r.kv, r.weight)
             b == MemoryBreakdown(r.shape, r.plan, e, n, r.kv, r.weight)
  <1>1. Total(b) <= usable
    BY DEF FitsAt
  <1>2. KvShare(r.shape, r.plan, c, m, r.kv) <= KvShare(r.shape, r.plan, e, n, r.kv)
        /\ ActivationBytes(r.shape, m, c) <= ActivationBytes(r.shape, n, e)
    BY ShareGrows, ActivationsGrow
  <1> HIDE DEF a, b
  <1>a. /\ a.weights = WeightBytesPerRank(r.shape, r.plan, r.weight) /\ a.kv = KvShare(r.shape, r.plan, c, m, r.kv)
        /\ a.activations = ActivationBytes(r.shape, m, c) /\ a.comm = CommBufferBytes(r.plan)
        /\ a.replicated = ReplicatedBytes(r.shape) /\ a.framework = Overhead
    BY BreakdownIs DEF a
  <1>b. /\ b.weights = WeightBytesPerRank(r.shape, r.plan, r.weight) /\ b.kv = KvShare(r.shape, r.plan, e, n, r.kv)
        /\ b.activations = ActivationBytes(r.shape, n, e) /\ b.comm = CommBufferBytes(r.plan)
        /\ b.replicated = ReplicatedBytes(r.shape) /\ b.framework = Overhead
    BY BreakdownIs DEF b
  <1>3. /\ a.weights = b.weights /\ a.comm = b.comm /\ a.replicated = b.replicated /\ a.framework = b.framework
        /\ a.kv <= b.kv /\ a.activations <= b.activations
    BY ONLY <1>2, <1>a, <1>b
  <1>4. /\ a.weights \in Nat /\ a.kv \in Nat /\ a.activations \in Nat /\ a.comm \in Nat
        /\ a.replicated \in Nat /\ a.framework \in Nat /\ b.kv \in Nat /\ b.activations \in Nat
        /\ Total(a) = a.weights + a.kv + a.activations + a.comm + a.replicated + a.framework
        /\ Total(b) = b.weights + b.kv + b.activations + b.comm + b.replicated + b.framework
    BY BreakdownIs DEF a, b
  <1>5. Total(a) <= Total(b) /\ Total(a) \in Int /\ Total(b) \in Int
    BY <1>3, <1>4
  <1>6. Total(a) <= usable
    BY <1>1, <1>5
  <1> QED BY <1>6 DEF FitsAt, a

----------------------------------------------------------------------------
(* What the two searches answer.                                           *)

LEMMA LargestContextIs ==
    ASSUME NEW r, ShapeOK(r.shape), SplitOK(r.plan), r.weight \in Nat, r.seqs \in Nat, NEW usable \in Int,
           NEW most, most = LargestContext(r, usable)
    PROVE  /\ most \in Nat /\ most <= MaxContext
           /\ \/ most = 0 /\ \A c \in 1 .. MaxContext : c % Step = 0 => ~FitsAt(r, c, r.seqs, usable)
              \/ /\ most > 0 /\ most % Step = 0 /\ FitsAt(r, most, r.seqs, usable)
                 /\ \A c \in 1 .. MaxContext : c % Step = 0 /\ FitsAt(r, c, r.seqs, usable) => c <= most
  <1> DEFINE top == MaxContext \div Step
             fitting == {units \in 1 .. top : FitsAt(r, units * Step, r.seqs, usable)}
             found == IF top \in fitting THEN top ELSE Bisect(1, top, fitting)
  <1>1. most = IF 1 \notin fitting THEN 0 ELSE Step * found
    BY DEF LargestContext
  <1>2. Step \in Nat \ {0} /\ MaxContext \in Nat /\ MaxContext >= Step /\ top \in Nat
        /\ Step * top <= MaxContext /\ MaxContext < Step * top + Step
    <2>1. Step \in Nat \ {0} /\ MaxContext \in Nat /\ MaxContext >= Step
      BY TablesAssumption
    <2> QED BY <2>1, Divides
  <1> HIDE DEF top
  <1>3. ASSUME NEW x \in Nat, NEW y \in Nat, x <= y, FitsAt(r, y * Step, r.seqs, usable)
        PROVE  FitsAt(r, x * Step, r.seqs, usable)
    <2>1. x * Step <= y * Step /\ x * Step \in Nat /\ y * Step \in Nat
      BY <1>2, <1>3, ProductLess
    <2> QED BY <1>3, <2>1, FitsLess
  <1>4. \A u : u \in fitting <=> u \in 1 .. top /\ FitsAt(r, u * Step, r.seqs, usable)
    OBVIOUS
  <1>5. \A x, y \in 1 .. top : x <= y /\ y \in fitting => x \in fitting
    <2> SUFFICES ASSUME NEW x \in 1 .. top, NEW y \in 1 .. top, x <= y, y \in fitting PROVE x \in fitting
      OBVIOUS
    <2> HIDE DEF fitting
    <2>1. FitsAt(r, x * Step, r.seqs, usable)
      BY <1>2, <1>3, <1>4
    <2> QED BY <1>4, <2>1
  <1>6. ASSUME NEW c \in 1 .. MaxContext, c % Step = 0
        PROVE  \E u \in 1 .. top : c = u * Step
    <2>0. c \in Nat
      BY <1>2
    <2>1. PICK q \in Nat : \E v \in 0 .. Step - 1 : c = Step * q + v /\ c % Step = v
      BY <1>2, <2>0, Divided
    <2>2. c = Step * q
      BY <1>2, <1>6, <2>1
    <2>3. q # 0
      BY <1>2, <1>6, <2>2
    <2>4. q <= top
      <3> SUFFICES ASSUME top + 1 <= q PROVE FALSE
        BY <1>2
      <3>1. Step * (top + 1) <= Step * q
        BY <1>2, TimesGrows
      <3>2. Step * (top + 1) = Step * top + Step /\ Step * top \in Int
        BY <1>2
      <3> QED BY <1>2, <1>6, <2>2, <3>1, <3>2
    <2>5. c = q * Step
      BY <1>2, <2>2
    <2> QED BY <1>2, <2>3, <2>4, <2>5
  <1> HIDE DEF fitting
  <1>7. CASE 1 \notin fitting
    <2>1. most = 0
      BY <1>1, <1>7
    <2>2. ASSUME NEW c \in 1 .. MaxContext, c % Step = 0, FitsAt(r, c, r.seqs, usable) PROVE FALSE
      <3>1. PICK u \in 1 .. top : c = u * Step
        BY <1>6, <2>2
      <3>2. u \in fitting /\ 1 \in 1 .. top
        BY <1>2, <1>4, <2>2, <3>1
      <3> QED BY <1>2, <1>5, <1>7, <3>2
    <2> QED BY <1>2, <2>1, <2>2
  <1>8. CASE 1 \in fitting
    <2>1. 1 \in 1 .. top
      BY <1>4, <1>8
    <2>2. found \in 1 .. top /\ found \in fitting /\ \A x \in 1 .. top : x \in fitting => x <= found
      <3>1. CASE top \in fitting
        BY <1>2, <1>4, <3>1
      <3>2. CASE top \notin fitting
        <4>1. 1 <= top /\ top \in Int
          BY <1>2, <2>1
        <4>2. /\ Bisect(1, top, fitting) \in 1 .. top /\ Bisect(1, top, fitting) \in fitting
              /\ \A x \in 1 .. top : x \in fitting => x <= Bisect(1, top, fitting)
          BY <1>5, <1>8, <4>1, BisectFinds
        <4> QED BY <3>2, <4>2
      <3> QED BY <3>1, <3>2
    <2>3. most = Step * found
      BY <1>1, <1>8
    <2> HIDE DEF found
    <2>4. found \in Nat \ {0} /\ found <= top /\ Step * found = found * Step
      BY <1>2, <2>2
    <2>5. most \in Nat \ {0} /\ most <= MaxContext
      <3>1. Step * found <= Step * top
        BY <1>2, <2>4, TimesGrows
      <3>2. Step * found \in Nat \ {0}
        BY <1>2, <2>4, PositiveProduct
      <3>3. Step * top \in Int
        BY <1>2
      <3> QED BY <1>2, <2>3, <3>1, <3>2, <3>3
    <2>6. FitsAt(r, most, r.seqs, usable)
      BY <1>4, <2>2, <2>3, <2>4
    <2>7. most % Step = 0
      <3>1. PICK q \in Nat : \E v \in 0 .. Step - 1 : most = Step * q + v /\ most % Step = v
        BY <1>2, <2>5, Divided
      <3>2. PICK v \in 0 .. Step - 1 : most = Step * q + v /\ most % Step = v
        BY <3>1
      <3>3. Step * q + v = Step * found + 0 /\ 0 \in 0 .. Step - 1 /\ q \in Int /\ found \in Int
        BY <1>2, <2>3, <2>4, <3>2
      <3>4. v = 0
        BY <1>2, <3>2, <3>3, OneRemainder
      <3> QED BY <3>2, <3>4
    <2>8. ASSUME NEW c \in 1 .. MaxContext, c % Step = 0, FitsAt(r, c, r.seqs, usable) PROVE c <= most
      <3>1. PICK u \in 1 .. top : c = u * Step
        BY <1>6, <2>8
      <3>2. u \in fitting /\ u \in Nat /\ u <= found
        BY <1>2, <1>4, <2>2, <2>8, <3>1
      <3>3. u * Step <= found * Step
        BY <1>2, <2>4, <3>2, ProductLess
      <3> QED BY <2>3, <2>4, <3>1, <3>3
    <2> QED BY <2>5, <2>6, <2>7, <2>8
  <1> QED BY <1>7, <1>8

LEMMA LargestSeqsIs ==
    ASSUME NEW r, ShapeOK(r.shape), SplitOK(r.plan), r.weight \in Nat, r.context \in Nat, NEW usable \in Int,
           NEW ceiling \in Int, NEW most, most = LargestMaxSeqs(r, usable, ceiling), most > 0
    PROVE  most \in Nat /\ FitsAt(r, r.context, most, usable)
  <1> DEFINE fitting == {seqs \in 1 .. ceiling : FitsAt(r, r.context, seqs, usable)}
  <1>1. most = IF 1 \notin fitting THEN 0 ELSE IF ceiling \in fitting THEN ceiling ELSE Bisect(1, ceiling, fitting)
    BY DEF LargestMaxSeqs
  <1>2. \A u : u \in fitting <=> u \in 1 .. ceiling /\ FitsAt(r, r.context, u, usable)
    OBVIOUS
  <1>3. \A x, y \in 1 .. ceiling : x <= y /\ y \in fitting => x \in fitting
    <2> SUFFICES ASSUME NEW x \in 1 .. ceiling, NEW y \in 1 .. ceiling, x <= y, y \in fitting PROVE x \in fitting
      OBVIOUS
    <2> HIDE DEF fitting
    <2>1. x \in Nat /\ y \in Nat /\ FitsAt(r, r.context, y, usable)
      BY <1>2
    <2>2. FitsAt(r, r.context, x, usable)
      BY <2>1, FitsLess
    <2> QED BY <1>2, <2>2
  <1> HIDE DEF fitting
  <1>4. 1 \in fitting
    BY <1>1
  <1>5. 1 <= ceiling
    BY <1>2, <1>4
  <1>6. CASE ceiling \in fitting
    BY <1>1, <1>2, <1>4, <1>5, <1>6
  <1>7. CASE ceiling \notin fitting
    <2>1. Bisect(1, ceiling, fitting) \in fitting
      BY <1>3, <1>4, <1>5, BisectFinds
    <2> QED BY <1>1, <1>2, <1>4, <1>7, <2>1
  <1> QED BY <1>6, <1>7

----------------------------------------------------------------------------
(* The machines.  Taking(f, r): f is what _participating() goes through.   *)

Taking(f, r) ==
    f = [k \in 0 .. Len(r.plan.nodes) |->
            IF k = 0 THEN << >>
            ELSE IF Called(r, r.plan.nodes[k]) = {} THEN f[k - 1]
            ELSE Append(f[k - 1], CHOOSE n \in Called(r, r.plan.nodes[k]) : TRUE)]
TakingFcn(r) == CHOOSE f : Taking(f, r)

LEMMA ParticipatingUnfolds ==
    ASSUME NEW r
    PROVE  Participating(r) = IF TakingFcn(r)[Len(r.plan.nodes)] = << >> THEN r.nodes
                              ELSE TakingFcn(r)[Len(r.plan.nodes)]
  BY DEF Participating, TakingFcn, Taking

Taken(r, g) ==
    /\ g[0] = << >> /\ \A k \in 0 .. Len(r.plan.nodes) : g[k] \in Seq(ToSet(r.nodes))
    /\ \A k \in 1 .. Len(r.plan.nodes) :
          Called(r, r.plan.nodes[k]) # {} => \E n \in ToSet(r.nodes) : g[k] = Append(g[k - 1], n)

LEMMA TakingHolds ==
    ASSUME NEW r, AskOK(r)
    PROVE  Taken(r, TakingFcn(r))
  <1> DEFINE L == Len(r.plan.nodes)
             S == ToSet(r.nodes)
             V == Seq(S)
             next(k, v) == IF Called(r, r.plan.nodes[k]) = {} THEN v
                           ELSE Append(v, CHOOSE n \in Called(r, r.plan.nodes[k]) : TRUE)
             G == [k \in 1 .. L |-> [v \in V |-> next(k, v)]]
             g == TakingFcn(r)
  <1>1. L \in Nat /\ << >> \in V
    BY DEF AskOK
  <1>2. \A k : Called(r, r.plan.nodes[k]) # {} => (CHOOSE n \in Called(r, r.plan.nodes[k]) : TRUE) \in S
    BY DEF Called
  <1>3. \A k : \A v \in V : next(k, v) \in V
    <2> SUFFICES ASSUME NEW k, NEW v \in V PROVE next(k, v) \in V
      OBVIOUS
    <2> DEFINE n == CHOOSE n \in Called(r, r.plan.nodes[k]) : TRUE
    <2>1. Called(r, r.plan.nodes[k]) # {} => n \in S
      BY <1>2
    <2> HIDE DEF n, S
    <2>2. Called(r, r.plan.nodes[k]) # {} => Append(v, n) \in V
      BY <2>1
    <2> QED BY <2>2 DEF n
  <1> HIDE DEF next
  <1>4. G \in [1 .. L -> [V -> V]] /\ \A k \in 1 .. L, v \in V : G[k][v] = next(k, v)
    BY <1>3
  <1> HIDE DEF G, L, V
  <1>5. PICK f : Follows(f, L, V, << >>, G)
    BY <1>1, <1>4, RecursionHolds
  <1>6. f \in [0 .. L -> V] /\ f[0] = << >> /\ \A k \in 1 .. L : f[k] = G[k][f[k - 1]]
    BY <1>5 DEF Follows
  <1>7. \A k \in 1 .. L : f[k] = next(k, f[k - 1])
    <2>1. \A k \in 1 .. L : f[k - 1] \in V
      BY <1>1, <1>6
    <2> QED BY <1>4, <1>6, <2>1
  <1>8. f = [k \in 0 .. L |-> IF k = 0 THEN << >> ELSE next(k, f[k - 1])]
    <2>1. \A k \in 0 .. L : f[k] = IF k = 0 THEN << >> ELSE next(k, f[k - 1])
      <3>1. \A k \in 0 .. L : k = 0 \/ (k # 0 /\ k \in 1 .. L)
        BY <1>1
      <3> QED BY <3>1, <1>6, <1>7
    <2> QED BY <1>6, <2>1
  <1>9. Taking(f, r)
    BY <1>8 DEF Taking, next, L
  <1>10. Taking(g, r)
    <2> HIDE DEF Taking
    <2> QED BY <1>9 DEF TakingFcn
  <1> HIDE DEF g
  <1>11. g = [k \in 0 .. L |-> IF k = 0 THEN << >> ELSE next(k, g[k - 1])]
    BY <1>10 DEF Taking, next, L
  <1>12. g[0] = << >> /\ \A k \in 1 .. L : g[k] = next(k, g[k - 1])
    <2>1. 0 \in 0 .. L /\ \A k \in 1 .. L : k \in 0 .. L /\ k # 0
      BY <1>1
    <2> QED BY <1>11, <2>1
  <1>13. \A k \in 0 .. L : g[k] \in V
    <2>1. \A k \in 1 .. L : g[k - 1] \in V => g[k] \in V
      BY <1>3, <1>12
    <2>2. g[0] \in V
      BY <1>1, <1>12
    <2> QED BY <1>1, <2>1, <2>2, Along
  <1>14. ASSUME NEW k \in 1 .. L, Called(r, r.plan.nodes[k]) # {} PROVE \E n \in S : g[k] = Append(g[k - 1], n)
    BY <1>2, <1>12, <1>14 DEF next
  <1>15. Taken(r, g)
    BY <1>12, <1>13, <1>14 DEF Taken, L, V
  <1> QED BY <1>15 DEF g

LEMMA ParticipatingIs ==
    ASSUME NEW r, AskOK(r)
    PROVE  Participating(r) \in Seq(ToSet(r.nodes)) /\ Participating(r) # << >>
  <1> DEFINE L == Len(r.plan.nodes)  g == TakingFcn(r)
  <1>1. L \in Nat /\ r.nodes \in Seq(ToSet(r.nodes)) /\ r.nodes # << >>
    BY DEF AskOK
  <1> HIDE DEF g
  <1>2. g[L] \in Seq(ToSet(r.nodes))
    <2>1. \A k \in 0 .. L : g[k] \in Seq(ToSet(r.nodes))
      <3>1. Taken(r, g)
        BY TakingHolds DEF g
      <3> QED BY <3>1 DEF Taken
    <2> QED BY <1>1, <2>1
  <1>3. Participating(r) = IF g[L] = << >> THEN r.nodes ELSE g[L]
    BY ParticipatingUnfolds DEF g
  <1> QED BY <1>1, <1>2, <1>3

(* All the machines of a plan take part when every one of them is known.   *)
LEMMA ParticipatingAll ==
    ASSUME NEW r, AskOK(r), r.plan.nodes # << >>,
           \A k \in 1 .. Len(r.plan.nodes) : Called(r, r.plan.nodes[k]) # {}
    PROVE  Len(Participating(r)) = Len(r.plan.nodes)
  <1> DEFINE L == Len(r.plan.nodes)  g == TakingFcn(r)  h == [k \in 0 .. L |-> IF Len(g[k]) = k THEN 1 ELSE 0]
  <1>1. L \in Nat \ {0}
    BY DEF AskOK
  <1> HIDE DEF g
  <1>2. /\ g[0] = << >> /\ \A k \in 0 .. L : g[k] \in Seq(ToSet(r.nodes))
        /\ \A k \in 1 .. L : \E n \in ToSet(r.nodes) : g[k] = Append(g[k - 1], n)
    <2>1. Taken(r, g)
      BY TakingHolds DEF g
    <2> QED BY <2>1 DEF Taken
  <1> HIDE DEF L
  <1>3. h[0] \in {1}
    <2>1. Len(g[0]) = 0 /\ 0 \in 0 .. L
      BY <1>1, <1>2
    <2> QED BY <2>1
  <1>4. \A k \in 1 .. L : h[k - 1] \in {1} => h[k] \in {1}
    <2> SUFFICES ASSUME NEW k \in 1 .. L, h[k - 1] \in {1} PROVE h[k] \in {1}
      OBVIOUS
    <2>1. k \in 0 .. L /\ k - 1 \in 0 .. L /\ k \in Int
      BY <1>1
    <2>2. Len(g[k - 1]) = k - 1
      BY <2>1
    <2>3. PICK n \in ToSet(r.nodes) : g[k] = Append(g[k - 1], n)
      BY <1>2
    <2>4. Len(g[k]) = Len(g[k - 1]) + 1
      BY <1>2, <2>1, <2>3
    <2>5. Len(g[k]) = k
      BY <2>1, <2>2, <2>4
    <2> QED BY <2>1, <2>5
  <1>5. Len(g[L]) = L
    <2>1. L \in 0 .. L /\ L \in Nat
      BY <1>1
    <2>2. h[L] \in {1}
      <3> HIDE DEF h
      <3> QED BY <1>1, <1>3, <1>4, <2>1, Along
    <2> QED BY <2>1, <2>2
  <1>6. g[L] # << >>
    BY <1>1, <1>5
  <1>7. Participating(r) = g[L]
    BY <1>6, ParticipatingUnfolds DEF g, L
  <1> QED BY <1>5, <1>7 DEF L

LEMMA BindingIs ==
    ASSUME NEW r, AskOK(r)
    PROVE  /\ Usable(r) \in Int
           /\ \A n \in ToSet(Participating(r)) : Usable(r) <= NodeBudget(r, n)
  <1> DEFINE row == Participating(r)
             budget == [i \in 1 .. Len(row) |-> NodeBudget(r, row[i])]
             least(i) == \A j \in DOMAIN row : NodeBudget(r, row[i]) <= NodeBudget(r, row[j])
             I == {i \in DOMAIN row : least(i)}
             at == CHOOSE i \in DOMAIN row : least(i) /\ \A j \in 1 .. i - 1 : ~least(j)
  <1>1. row \in Seq(ToSet(r.nodes)) /\ row # << >>
    BY ParticipatingIs
  <1>2. DOMAIN row = 1 .. Len(row) /\ Len(row) \in Nat \ {0} /\ \A i \in 1 .. Len(row) : row[i] \in ToSet(r.nodes)
    BY <1>1
  <1>3. \A n \in ToSet(r.nodes) : NodeBudget(r, n) \in Int
    BY DEF AskOK, NodeBudget
  <1>4. Usable(r) = NodeBudget(r, row[at])
    BY DEF Usable, Binding
  <1>5. \A i \in 1 .. Len(row) : NodeBudget(r, row[i]) \in Int /\ budget[i] = NodeBudget(r, row[i])
    BY <1>2, <1>3
  <1> HIDE DEF row
  <1>6. I # {} /\ I \subseteq Nat
    <2>1. \A i \in 1 .. Len(row) : budget[i] \in Int
      BY <1>5
    <2> HIDE DEF budget
    <2>2. PICK i \in 1 .. Len(row) : \A j \in 1 .. Len(row) : budget[i] <= budget[j]
      BY <1>2, <2>1, LeastOfRow
    <2>3. least(i)
      BY <1>2, <1>5, <2>2
    <2> QED BY <1>2, <2>2, <2>3
  <1>7. \E i \in DOMAIN row : least(i) /\ \A j \in 1 .. i - 1 : ~least(j)
    <2>1. Min(I) \in I /\ \A y \in I : Min(I) <= y
      BY <1>6, LeastOfNaturals
    <2>2. \A j \in 1 .. Min(I) - 1 : ~least(j)
      <3> SUFFICES ASSUME NEW j \in 1 .. Min(I) - 1, least(j) PROVE FALSE
        OBVIOUS
      <3>1. Min(I) \in 1 .. Len(row)
        BY <1>2, <2>1
      <3>2. j \in DOMAIN row /\ j < Min(I)
        BY <1>2, <3>1
      <3>3. j \in I
        BY <3>2
      <3>4. Min(I) <= j
        BY <2>1, <3>3
      <3> QED BY <3>1, <3>2, <3>4
    <2> QED BY <2>1, <2>2
  <1>8. at \in DOMAIN row /\ least(at)
    <2> HIDE DEF least
    <2> QED BY <1>7
  <1>9. \A n \in ToSet(row) : NodeBudget(r, row[at]) <= NodeBudget(r, n)
    BY <1>8 DEF ToSet
  <1>10. NodeBudget(r, row[at]) \in Int
    BY <1>2, <1>5, <1>8
  <1> QED BY <1>4, <1>9, <1>10 DEF row

----------------------------------------------------------------------------
(* The fixes.  Each is followed alone: a term it shrinks makes the room.   *)

(* An fp8 cache holds a byte where the old one held more.                  *)
LEMMA Fp8Works ==
    ASSUME NEW r, AskOK(r), NEW usable \in Int, NEW b, b = Breakdown(r),
           (Total(b) - b.kv) * KvElem(r.kv, r.shape) + b.kv <= usable * KvElem(r.kv, r.shape)
    PROVE  FitsAt([r EXCEPT !.kv = "fp8"], r.context, r.seqs, usable)
  <1> DEFINE s == r.shape  e == KvElem(r.kv, s)  h == Heads(s)  T == CachedLayerTokens(s, r.context)
             B == Busiest(s, r.plan.pp)  d == s.layers * HeadSplit(s, r.plan)
             x == ((h * T) * r.seqs) * B
             n == [r EXCEPT !.kv = "fp8"]
             c == MemoryBreakdown(s, r.plan, r.context, r.seqs, "fp8", r.weight)
  <1>1. ShapeOK(s) /\ SplitOK(r.plan) /\ r.context \in Nat /\ r.seqs \in Nat /\ r.weight \in Nat
    BY DEF AskOK
  <1>2. n.shape = s /\ n.plan = r.plan /\ n.weight = r.weight /\ n.kv = "fp8"
    BY DEF AskOK
  <1>3. e \in Nat \ {0} /\ h \in Nat /\ T \in Nat /\ B \in Nat /\ d \in Nat \ {0}
    <2>1. s.layers \in Nat \ {0} /\ HeadSplit(s, r.plan) \in Nat \ {0} /\ B \in Nat
      BY <1>1, ShapeIs, BusiestIs
    <2>2. d \in Nat \ {0}
      BY <2>1, PositiveProduct
    <2>3. r.context <= r.context
      BY <1>1
    <2>4. T \in Nat
      BY <1>1, <2>3, CachedGrows
    <2> QED BY <1>1, <2>1, <2>2, <2>4, ElemIs, TokenIs
  <1>4. KvElem("fp8", s) = 1
    BY TablesAre DEF KvElem
  <1>5. KvShare(s, r.plan, r.context, r.seqs, r.kv) = ((e * h) * T * r.seqs * B) \div d
    BY <1>1, TokenIs DEF KvShare, KvCacheBytes
  <1>6. KvShare(s, r.plan, r.context, r.seqs, "fp8") = ((1 * h) * T * r.seqs * B) \div d
    BY <1>1, <1>4, TokenIs DEF KvShare, KvCacheBytes
  <1>b. /\ b.weights = WeightBytesPerRank(s, r.plan, r.weight) /\ b.kv = KvShare(s, r.plan, r.context, r.seqs, r.kv)
        /\ b.activations = ActivationBytes(s, r.seqs, r.context) /\ b.comm = CommBufferBytes(r.plan)
        /\ b.replicated = ReplicatedBytes(s) /\ b.framework = Overhead
        /\ Total(b) = b.weights + b.kv + b.activations + b.comm + b.replicated + b.framework
        /\ {b.weights, b.kv, b.activations, b.comm, b.replicated, b.framework} \subseteq Nat
    BY <1>1, BreakdownIs DEF Breakdown
  <1>c. /\ c.weights = WeightBytesPerRank(s, r.plan, r.weight) /\ c.kv = KvShare(s, r.plan, r.context, r.seqs, "fp8")
        /\ c.activations = ActivationBytes(s, r.seqs, r.context) /\ c.comm = CommBufferBytes(r.plan)
        /\ c.replicated = ReplicatedBytes(s) /\ c.framework = Overhead
        /\ Total(c) = c.weights + c.kv + c.activations + c.comm + c.replicated + c.framework
        /\ {c.weights, c.kv, c.activations, c.comm, c.replicated, c.framework} \subseteq Nat
    BY <1>1, BreakdownIs
  <1>7. (Total(b) - b.kv) * e + b.kv <= usable * e
    OBVIOUS
  <1>8. FitsAt(n, r.context, r.seqs, usable) <=> Total(c) <= usable
    BY <1>2 DEF FitsAt
  <1>9. x \in Nat /\ (e * h) * T * r.seqs * B = e * x /\ (1 * h) * T * r.seqs * B = x
    <2> DEFINE q == r.seqs
    <2>1. q \in Nat
      BY <1>1
    <2> HIDE DEF e, h, T, q, B
    <2>2. (h * T) * q \in Nat
      BY <1>3, <2>1, ProductIs
    <2>3. x \in Nat
      BY <1>3, <2>2, ProductIs DEF q
    <2>4. (e * h) * T * q * B = e * (((h * T) * q) * B) /\ (1 * h) * T * q * B = ((h * T) * q) * B
      BY <1>3, <2>1
    <2>5. x = ((h * T) * q) * B
      BY DEF q
    <2> HIDE DEF x
    <2>6. (e * h) * T * q * B = e * x /\ (1 * h) * T * q * B = x
      BY <2>4, <2>5
    <2> QED BY <2>3, <2>6 DEF q
  <1> HIDE DEF c, x, e, d, n
  <1>10. b.kv = (e * x) \div d /\ c.kv = x \div d
    BY <1>5, <1>6, <1>9, <1>b, <1>c
  <1>11. e * c.kv <= b.kv
    BY <1>3, <1>9, <1>10, FloorTimes
  <1>12. Total(c) = (Total(b) - b.kv) + c.kv /\ Total(b) - b.kv \in Int /\ c.kv \in Int /\ b.kv \in Int
    BY ONLY <1>b, <1>c
  <1> DEFINE rest == Total(b) - b.kv
  <1> HIDE DEF rest
  <1>13. rest * e + b.kv <= usable * e /\ Total(c) = rest + c.kv /\ rest \in Int
    BY <1>7, <1>12 DEF rest
  <1>14. e * Total(c) <= e * usable
    <2>1. e * (rest + c.kv) = rest * e + e * c.kv /\ rest * e \in Int /\ e * c.kv \in Int /\ usable * e = e * usable
          /\ e * usable \in Int
      BY <1>3, <1>12, <1>13
    <2> QED BY <1>11, <1>12, <1>13, <2>1
  <1>15. Total(c) <= usable
    BY <1>3, <1>12, <1>13, <1>14, NotMoreThan
  <1> QED BY <1>8, <1>15 DEF n

(* A smaller dtype, when the cache's is named, leaves the other terms or   *)
(* shrinks them.                                                           *)
LEMMA QuantWorks ==
    ASSUME NEW r, AskOK(r), r.kv # "auto", NEW usable \in Int, NEW b, b = Breakdown(r),
           NEW q, q = SuggestQuant(r, b, usable), q # "none"
    PROVE  FitsAt([r EXCEPT !.shape.dtype = q, !.weight = 0], r.context, r.seqs, usable)
  <1> DEFINE s == r.shape  z == [s EXCEPT !.dtype = q]
             n == [r EXCEPT !.shape.dtype = q, !.weight = 0]
             room == usable - (Total(b) - b.weights)
             B == Busiest(s, r.plan.pp)
             v == Vision(s)
             held == (s.params - v) * B
             fine(d) == Halves[d] < Halves[s.dtype] /\ held * Halves[d] <= room * 2 * s.layers * r.plan.tp
             c == MemoryBreakdown(z, r.plan, r.context, r.seqs, r.kv, 0)
  <1>1. ShapeOK(s) /\ SplitOK(r.plan) /\ r.context \in Nat /\ r.seqs \in Nat /\ r.weight \in Nat
    BY DEF AskOK
  <1>2. q = IF room <= 0 \/ held <= 0 \/ \A i \in DOMAIN Ladder : ~fine(Ladder[i]) THEN "none"
            ELSE Ladder[CHOOSE i \in DOMAIN Ladder : fine(Ladder[i]) /\ \A j \in 1 .. i - 1 : ~fine(Ladder[j])]
    BY DEF SuggestQuant
  <1>3. q \in DOMAIN Halves /\ fine(q)
    <2> DEFINE I == {i \in DOMAIN Ladder : fine(Ladder[i])}
    <2>1. DOMAIN Ladder \subseteq Nat /\ \A i \in DOMAIN Ladder : Ladder[i] \in DOMAIN Halves
      BY TablesAssumption
    <2> HIDE DEF fine, room, held
    <2>2. I # {} /\ I \subseteq Nat
      BY <1>2, <2>1
    <2>3. \E i \in DOMAIN Ladder : fine(Ladder[i]) /\ \A j \in 1 .. i - 1 : ~fine(Ladder[j])
      <3>1. PICK i \in I : \A j \in 1 .. i - 1 : j \notin I
        <4> HIDE DEF I
        <4> QED BY <2>2, FirstFound
      <3>2. \A j \in 1 .. i - 1 : j \in DOMAIN Ladder
        BY <3>1, TablesAssumption
      <3> QED BY <3>1, <3>2
    <2> QED BY <1>2, <2>1, <2>3
  <1>4. n.shape = z /\ n.plan = r.plan /\ n.weight = 0 /\ n.kv = r.kv
    BY DEF AskOK
  <1>5. /\ z.dtype = q /\ z.params = s.params /\ z.active = s.active /\ z.vision = s.vision /\ z.heads = s.heads
        /\ z.kvHeads = s.kvHeads /\ z.layers = s.layers /\ z.mla = s.mla /\ z.window = s.window /\ z.full = s.full
        /\ z.hidden = s.hidden /\ z.vocab = s.vocab /\ DOMAIN z = DOMAIN s
    BY <1>1 DEF ShapeOK
  <1>6. FitsAt(n, r.context, r.seqs, usable) <=> Total(c) <= usable
    BY <1>4 DEF FitsAt
  <1> HIDE DEF z, n
  <1>7. ShapeOK(z)
    BY <1>1, <1>3, <1>5 DEF ShapeOK
  <1>8. Busiest(z, r.plan.pp) = B /\ Vision(z) = v /\ HeadSplit(z, r.plan) = HeadSplit(s, r.plan)
    BY <1>5 DEF Busiest, Vision, HeadSplit
  <1>9. KvShare(z, r.plan, r.context, r.seqs, r.kv) = KvShare(s, r.plan, r.context, r.seqs, r.kv)
    <2>1. KvElem(r.kv, z) = KvElem(r.kv, s)
      BY DEF KvElem
    <2>2. PerLayerPerToken(z, r.kv) = PerLayerPerToken(s, r.kv)
          /\ CachedLayerTokens(z, r.context) = CachedLayerTokens(s, r.context)
      BY <1>5, <2>1 DEF PerLayerPerToken, CachedLayerTokens
    <2> QED BY <1>5, <1>8, <2>2 DEF KvShare, KvCacheBytes
  <1>10. ActivationBytes(z, r.seqs, r.context) = ActivationBytes(s, r.seqs, r.context)
    BY <1>5 DEF ActivationBytes
  <1>11. v \in Nat /\ s.params - v \in Nat /\ B \in Nat /\ s.layers \in Nat \ {0} /\ r.plan.tp \in Nat \ {0}
         /\ Halves[q] \in Nat /\ Halves[s.dtype] \in Nat /\ Halves[q] <= Halves[s.dtype]
    <2>1. v \in Nat /\ s.params - v \in Nat
      BY <1>1, ShapeIs DEF Vision, AtMost
    <2>2. B \in Nat /\ s.layers \in Nat \ {0} /\ r.plan.tp \in Nat \ {0}
      BY <1>1, BusiestIs, ShapeIs, SplitIs
    <2>3. Halves[q] \in Nat /\ Halves[s.dtype] \in Nat
      BY <1>3, <1>1, ShapeIs, TablesAssumption
    <2> QED BY <1>3, <2>1, <2>2, <2>3
  <1>b. /\ b.weights = WeightBytesPerRank(s, r.plan, r.weight) /\ b.kv = KvShare(s, r.plan, r.context, r.seqs, r.kv)
        /\ b.activations = ActivationBytes(s, r.seqs, r.context) /\ b.comm = CommBufferBytes(r.plan)
        /\ b.replicated = ReplicatedBytes(s) /\ b.framework = Overhead
        /\ Total(b) = b.weights + b.kv + b.activations + b.comm + b.replicated + b.framework
        /\ {b.weights, b.kv, b.activations, b.comm, b.replicated, b.framework} \subseteq Nat
    BY <1>1, BreakdownIs DEF Breakdown
  <1>c. /\ c.weights = WeightBytesPerRank(z, r.plan, 0) /\ c.kv = KvShare(z, r.plan, r.context, r.seqs, r.kv)
        /\ c.activations = ActivationBytes(z, r.seqs, r.context) /\ c.comm = CommBufferBytes(r.plan)
        /\ c.replicated = ReplicatedBytes(z) /\ c.framework = Overhead
        /\ Total(c) = c.weights + c.kv + c.activations + c.comm + c.replicated + c.framework
        /\ {c.weights, c.kv, c.activations, c.comm, c.replicated, c.framework} \subseteq Nat
    BY <1>1, <1>7, BreakdownIs
  <1>12. c.replicated <= b.replicated
    <2>1. v * Halves[q] <= v * Halves[s.dtype] /\ v * Halves[q] \in Nat /\ v * Halves[s.dtype] \in Nat
      BY <1>11, ProductLess
    <2>2. (v * Halves[q]) \div 2 <= (v * Halves[s.dtype]) \div 2
      BY <2>1, FloorLess
    <2>3. ReplicatedBytes(z) = (v * Halves[q]) \div 2 /\ ReplicatedBytes(s) = (v * Halves[s.dtype]) \div 2
      BY <1>5, <1>8 DEF ReplicatedBytes
    <2> QED BY <1>b, <1>c, <2>2, <2>3
  <1>r. room \in Int
    BY <1>b
  <1>13. c.weights <= room
    <2> DEFINE hq == Halves[q]  l == s.layers  t == r.plan.tp  p == s.params - v  all == 2 * l * t
    <2>1. WeightBytesPerRank(z, r.plan, 0) = ((p * hq) * B) \div all
      BY <1>5, <1>8 DEF WeightBytesPerRank
    <2>2. held * hq <= room * 2 * l * t
      BY <1>3
    <2>3. hq \in Nat /\ l \in Nat \ {0} /\ t \in Nat \ {0} /\ p \in Nat
      BY <1>11
    <2>4. held = p * B
      OBVIOUS
    <2> HIDE DEF hq, l, t, p, B, room, held
    <2>5. all \in Nat \ {0}
      <3>1. 2 * l \in Nat \ {0}
        BY <2>3
      <3> QED BY <2>3, <3>1, PositiveProduct
    <2>6. (p * hq) * B = (p * B) * hq /\ room * 2 * l * t = (2 * l * t) * room
      BY <1>11, <1>r, <2>3
    <2>7. (p * hq) * B \in Nat
      BY <1>11, <2>3, ProductIs
    <2>8. (p * hq) * B <= all * room
      BY <2>2, <2>4, <2>6
    <2> HIDE DEF all
    <2>9. ((p * hq) * B) \div all <= room
      BY <1>r, <2>5, <2>7, <2>8, FloorBound
    <2> QED BY <1>c, <2>1, <2>9
  <1> HIDE DEF c
  <1>14. c.kv = b.kv /\ c.activations = b.activations /\ c.comm = b.comm /\ c.framework = b.framework
    BY ONLY <1>9, <1>10, <1>b, <1>c
  <1>15. Total(c) <= usable
    BY ONLY <1>12, <1>13, <1>14, <1>b, <1>c, usable \in Int
  <1> QED BY <1>6, <1>15 DEF n

(* A shorter context, or fewer sequences, is asked of the same model.      *)
LEMMA ShorterAsk ==
    ASSUME NEW r, AskOK(r), NEW x, NEW usable, FitsAt(r, x, r.seqs, usable), NEW c, c = [r EXCEPT !.context = x]
    PROVE  FitsAt(c, c.context, c.seqs, usable)
  <1>1. /\ c.shape = r.shape /\ c.plan = r.plan /\ c.kv = r.kv /\ c.weight = r.weight
        /\ c.context = x /\ c.seqs = r.seqs
    BY DEF AskOK
  <1> QED BY <1>1 DEF FitsAt

LEMMA SmallerAsk ==
    ASSUME NEW r, AskOK(r), NEW x, NEW usable, FitsAt(r, r.context, x, usable), NEW c, c = [r EXCEPT !.seqs = x]
    PROVE  FitsAt(c, c.context, c.seqs, usable)
  <1>1. /\ c.shape = r.shape /\ c.plan = r.plan /\ c.kv = r.kv /\ c.weight = r.weight
        /\ c.context = r.context /\ c.seqs = x
    BY DEF AskOK
  <1> QED BY <1>1 DEF FitsAt

(* The number of nodes advised holds the model.                            *)
LEMMA NodesWorks ==
    ASSUME NEW r, AskOK(r), NEW usable, NodesFix(r, usable) > 0
    PROVE  HeldBy(r, NodesFix(r, usable), usable)
  <1> DEFINE enough == {n \in 1 .. MaxNodes : HeldBy(r, n, usable)}
             fewest == CHOOSE n \in enough : \A m \in enough : n <= m
  <1>1. NodesFix(r, usable) = -1 \/ NodesFix(r, usable) = MinNodesRequired(r, usable)
    BY DEF NodesFix
  <1>2. MinNodesRequired(r, usable) = IF enough = {} THEN -1 ELSE fewest
    BY DEF MinNodesRequired
  <1>3. enough # {} /\ NodesFix(r, usable) = fewest
    <2> HIDE DEF enough, fewest
    <2>1. ~(-1 > 0)
      OBVIOUS
    <2> QED BY <1>1, <1>2, <2>1
  <1>4. \A n \in enough : n \in Nat /\ HeldBy(r, n, usable)
    OBVIOUS
  <1> HIDE DEF enough
  <1>5. \E n \in enough : \A m \in enough : n <= m
    <2>1. enough \subseteq Nat
      BY <1>4
    <2> QED BY <1>3, <2>1, LeastOfNaturals
  <1>6. fewest \in enough
    BY <1>5
  <1> QED BY <1>3, <1>4, <1>6

(* What a refusal can offer, and when.                                     *)
Unfixed(f) == f.context = 0 /\ f.seqs = 0 /\ f.fp8 = FALSE /\ f.quant = "none" /\ f.nodes = -1
Fixed(f, r, b, usable) ==
    /\ f.context \in {0, LargestContext(r, usable)}
    /\ f.seqs \in {0, LargestMaxSeqs(r, usable, r.seqs - 1)}
    /\ f.fp8 => (Total(b) - b.kv) * KvElem(r.kv, r.shape) + b.kv <= usable * KvElem(r.kv, r.shape)
    /\ f.quant \in {"none", SuggestQuant(r, b, usable)}
    /\ f.nodes \in {-1, NodesFix(r, usable)}

LEMMA ReasonsAre ==
    ASSUME NEW r, NEW b, NEW usable
    PROVE  /\ Unfixed(NoFixes)
           /\ Fixed(WeightsReason(r, b, usable), r, b, usable)
           /\ Fixed(KvReason(r, b, usable), r, b, usable)
           /\ Fixed(CombinedReason(r, b, usable), r, b, usable)
  <1>1. Unfixed(NoFixes)
    BY DEF Unfixed, NoFixes
  <1>2. Fixed(WeightsReason(r, b, usable), r, b, usable)
    <2> DEFINE f == WeightsReason(r, b, usable)
    <2>1. f.context = 0 /\ f.seqs = 0 /\ f.fp8 = FALSE /\ f.quant = SuggestQuant(r, b, usable)
          /\ f.nodes = NodesFix(r, usable)
      BY DEF WeightsReason, NoFixes
    <2> HIDE DEF f
    <2>2. Fixed(f, r, b, usable)
      BY <2>1 DEF Fixed
    <2> QED BY <2>2 DEF f
  <1>3. Fixed(KvReason(r, b, usable), r, b, usable)
    <2> DEFINE f == KvReason(r, b, usable)
               fine == /\ KvElem(r.kv, r.shape) > 1
                       /\ (Total(b) - b.kv) * KvElem(r.kv, r.shape) + b.kv <= usable * KvElem(r.kv, r.shape)
    <2>1. f.context = LargestContext(r, usable) /\ f.seqs = LargestMaxSeqs(r, usable, r.seqs - 1)
          /\ f.fp8 = fine /\ f.quant = "none" /\ f.nodes = NodesFix(r, usable)
      BY DEF KvReason, NoFixes
    <2>2. fine => (Total(b) - b.kv) * KvElem(r.kv, r.shape) + b.kv <= usable * KvElem(r.kv, r.shape)
      OBVIOUS
    <2> HIDE DEF f, fine
    <2>3. Fixed(f, r, b, usable)
      BY <2>1, <2>2 DEF Fixed
    <2> QED BY <2>3 DEF f
  <1>4. Fixed(CombinedReason(r, b, usable), r, b, usable)
    <2> DEFINE f == CombinedReason(r, b, usable)
    <2>1. f.context = 0 /\ f.seqs = LargestMaxSeqs(r, usable, r.seqs - 1) /\ f.fp8 = FALSE
          /\ f.quant = SuggestQuant(r, b, usable) /\ f.nodes = NodesFix(r, usable)
      BY DEF CombinedReason, NoFixes
    <2> HIDE DEF f
    <2>2. Fixed(f, r, b, usable)
      BY <2>1 DEF Fixed
    <2> QED BY <2>2 DEF f
  <1> QED BY <1>1, <1>2, <1>3, <1>4

LEMMA DiagnoseIs ==
    ASSUME NEW r, NEW b, NEW usable, NEW d, d = Diagnose(r, b, usable)
    PROVE  Fixed(d.fixes, r, b, usable) /\ (d.term = "weights" => b.weights + b.replicated > usable)
  BY ReasonsAre DEF Diagnose

LEMMA CheckIs ==
    ASSUME NEW r, AskOK(r), NEW a, a = Check(r)
    PROVE  /\ a.usable = Usable(r) /\ a.breakdown = Breakdown(r)
           /\ a.verdict # "wont_fit" => /\ Total(Breakdown(r)) <= Usable(r)
                                        /\ r.native > 0 => r.context <= r.native
           /\ \/ Unfixed(a.fixes)
              \/ Total(Breakdown(r)) > Usable(r) /\ Fixed(a.fixes, r, Breakdown(r), Usable(r))
           /\ a.verdict = "wont_fit" /\ a.term = "weights" =>
                 Breakdown(r).weights + Breakdown(r).replicated > Usable(r)
  <1> DEFINE u == Usable(r)  b == Breakdown(r)  cause == Cause(r, u)  most == LargestContext(r, u)
             diagnosis == CASE cause = "memory" -> Diagnose(r, b, u)
                            [] cause = "ranks" -> [term |-> "combined", fixes |-> NoFixes]
                            [] OTHER -> [term |-> cause, fixes |-> NoFixes]
  <1>1. /\ a.verdict = Verdict(cause) /\ a.breakdown = b /\ a.usable = u
        /\ a.term = diagnosis.term /\ a.fixes = diagnosis.fixes
    BY DEF Check
  <1>2. /\ cause \in {"ranks", "memory", "context", "bandwidth", "none"}
        /\ cause = "memory" => Total(b) > u
        /\ cause \in {"bandwidth", "none"} => ~(Total(b) > u) /\ ~(r.native > 0 /\ r.context > r.native)
    BY DEF Cause
  <1>3. Total(b) \in Int /\ u \in Int /\ r.native \in Int /\ r.context \in Int
    <2>1. ShapeOK(r.shape) /\ SplitOK(r.plan) /\ r.context \in Nat /\ r.seqs \in Nat /\ r.weight \in Nat
          /\ r.native \in Nat
      BY DEF AskOK
    <2>2. b = MemoryBreakdown(r.shape, r.plan, r.context, r.seqs, r.kv, r.weight)
      BY DEF Breakdown
    <2> HIDE DEF b
    <2>3. Total(b) \in Int
      BY <2>1, <2>2, BreakdownIs
    <2> QED BY <2>1, <2>3, BindingIs
  <1> HIDE DEF u, b, cause
  <1>4. a.verdict # "wont_fit" => cause \in {"bandwidth", "none"}
    BY <1>1, <1>2 DEF Verdict
  <1>5. CASE cause = "memory"
    <2>1. Fixed(diagnosis.fixes, r, b, u) /\ (diagnosis.term = "weights" => b.weights + b.replicated > u)
      BY <1>5, DiagnoseIs
    <2> QED BY <1>1, <1>2, <1>4, <1>5, <2>1 DEF u, b
  <1>6. CASE cause # "memory"
    <2>1. diagnosis.fixes = NoFixes /\ diagnosis.term # "weights"
      BY <1>2, <1>6
    <2>2. Unfixed(a.fixes)
      BY <1>1, <2>1, ReasonsAre
    <2>3. a.verdict # "wont_fit" => Total(b) <= u /\ (r.native > 0 => r.context <= r.native)
      BY <1>2, <1>3, <1>4
    <2> QED BY <1>1, <2>1, <2>2, <2>3 DEF u, b
  <1> QED BY <1>5, <1>6

----------------------------------------------------------------------------
(* One question, one answer: what has been answered is the check's.        *)
FitInv == fitAsk \in FitRequests /\ (fitAnswer = NoAnswer \/ fitAnswer = Check(fitAsk))

LEMMA FitInvHolds == FitSpec => []FitInv
  <1>1. FitInit => FitInv
    BY DEF FitInit, FitInv
  <1>2. FitInv /\ [FitNext]_fitVars => FitInv'
    BY DEF FitInv, FitNext, fitVars
  <1> QED BY <1>1, <1>2, PTL DEF FitSpec

LEMMA FitAnswerIs ==
    ASSUME FitInv, Answered
    PROVE  /\ AskOK(fitAsk) /\ fitAnswer = Check(fitAsk)
           /\ ShapeOK(fitAsk.shape) /\ SplitOK(fitAsk.plan) /\ fitAsk.context \in Nat /\ fitAsk.seqs \in Nat
           /\ fitAsk.weight \in Nat /\ fitAnswer.usable \in Int
  <1>1. AskOK(fitAsk) /\ fitAnswer = Check(fitAsk)
    BY FitAssumption DEF FitInv, Answered
  <1>2. fitAnswer.usable \in Int
    BY <1>1, CheckIs, BindingIs
  <1> QED BY <1>1, <1>2 DEF AskOK

LEMMA VerdictIs == ASSUME FitInv PROVE VerdictHolds
  <1> SUFFICES ASSUME Answered, fitAnswer.verdict # "wont_fit"
               PROVE  /\ \A n \in ToSet(Participating(fitAsk)) :
                            Total(fitAnswer.breakdown) <= NodeBudget(fitAsk, n)
                      /\ fitAsk.native > 0 => fitAsk.context <= fitAsk.native
    BY DEF VerdictHolds
  <1> DEFINE r == fitAsk
  <1>1. AskOK(r) /\ fitAnswer = Check(r)
    BY FitAnswerIs
  <1>2. /\ fitAnswer.breakdown = Breakdown(r) /\ Total(Breakdown(r)) <= Usable(r)
        /\ r.native > 0 => r.context <= r.native
    BY <1>1, CheckIs
  <1>3. Total(Breakdown(r)) \in Int
    <2>1. ShapeOK(r.shape) /\ SplitOK(r.plan) /\ r.context \in Nat /\ r.seqs \in Nat /\ r.weight \in Nat
      BY FitAnswerIs
    <2> QED BY <2>1, BreakdownIs DEF Breakdown
  <1>4. ASSUME NEW n \in ToSet(Participating(r)) PROVE Total(fitAnswer.breakdown) <= NodeBudget(r, n)
    <2>1. Usable(r) \in Int /\ Usable(r) <= NodeBudget(r, n)
      BY <1>1, BindingIs
    <2>2. NodeBudget(r, n) \in Int
      <3>1. n \in ToSet(r.nodes)
        <4>1. Participating(r) \in Seq(ToSet(r.nodes))
          BY <1>1, ParticipatingIs
        <4> QED BY <4>1 DEF ToSet
      <3> QED BY <1>1, <3>1 DEF AskOK, NodeBudget
    <2> QED BY <1>2, <1>3, <2>1, <2>2
  <1> QED BY <1>2, <1>4

LEMMA ContextIsExact == ASSUME FitInv PROVE LargestContextExact
  <1> DEFINE u == fitAnswer.usable  ok(c) == FitsAt(fitAsk, c, fitAsk.seqs, u)
             found == {c \in 1 .. MaxContext : c % Step = 0 /\ ok(c)}
             most == LargestContext(fitAsk, u)
  <1> SUFFICES ASSUME Answered
               PROVE  IF found = {} THEN most = 0 ELSE most \in found /\ \A c \in found : c <= most
    BY DEF LargestContextExact
  <1>1. /\ ShapeOK(fitAsk.shape) /\ SplitOK(fitAsk.plan) /\ fitAsk.seqs \in Nat /\ fitAsk.weight \in Nat
        /\ u \in Int
    BY FitAnswerIs
  <1>2. /\ most \in Nat /\ most <= MaxContext
        /\ \/ most = 0 /\ \A c \in 1 .. MaxContext : c % Step = 0 => ~ok(c)
           \/ /\ most > 0 /\ most % Step = 0 /\ ok(most)
              /\ \A c \in 1 .. MaxContext : c % Step = 0 /\ ok(c) => c <= most
    <2> HIDE DEF u, most
    <2>1. u \in Int /\ most = LargestContext(fitAsk, u)
      BY <1>1 DEF most
    <2> QED BY <1>1, <2>1, LargestContextIs
  <1> HIDE DEF ok, most
  <1>3. MaxContext \in Nat
    BY TablesAssumption
  <1>4. CASE most = 0 /\ \A c \in 1 .. MaxContext : c % Step = 0 => ~ok(c)
    BY <1>4
  <1>5. CASE /\ most > 0 /\ most % Step = 0 /\ ok(most)
             /\ \A c \in 1 .. MaxContext : c % Step = 0 /\ ok(c) => c <= most
    <2>1. most \in 1 .. MaxContext
      BY <1>2, <1>3, <1>5
    <2>2. most \in found /\ \A c \in found : c <= most
      BY <1>5, <2>1
    <2> QED BY <2>2
  <1> QED BY <1>2, <1>4, <1>5

LEMMA EveryAdviceWorks == ASSUME FitInv PROVE AdviceWorks
  <1> SUFFICES ASSUME Answered
               PROVE  /\ \A fix \in Offered : LET r == Followed(fix, fitAsk)
                                              IN FitsAt(r, r.context, r.seqs, fitAnswer.usable)
                      /\ fitAnswer.fixes.nodes > 0 => HeldBy(fitAsk, fitAnswer.fixes.nodes, fitAnswer.usable)
                      /\ fitAnswer.fixes.context > 0 => fitAnswer.fixes.context < fitAsk.context
    BY DEF AdviceWorks
  <1> DEFINE ask == fitAsk  f == fitAnswer.fixes  u == fitAnswer.usable  b == Breakdown(ask)
  <1>1. /\ AskOK(ask) /\ ShapeOK(ask.shape) /\ SplitOK(ask.plan) /\ ask.context \in Nat /\ ask.seqs \in Nat
        /\ ask.weight \in Nat /\ u \in Int
    BY FitAnswerIs
  <1>2. Unfixed(f) \/ (Total(b) > u /\ Fixed(f, ask, b, u))
    <2>1. fitAnswer = Check(ask) /\ AskOK(ask)
      BY FitAnswerIs
    <2> QED BY <2>1, CheckIs
  <1> HIDE DEF ask, f, u
  <1>3. ASSUME f.context > 0
        PROVE  FitsAt(ask, f.context, ask.seqs, u) /\ f.context < ask.context
    <2>1. Total(b) > u /\ f.context = LargestContext(ask, u)
      BY <1>2, <1>3 DEF Unfixed, Fixed
    <2>2. f.context \in Nat /\ FitsAt(ask, f.context, ask.seqs, u)
      <3> DEFINE most == f.context
      <3>1. most = LargestContext(ask, u) /\ most > 0
        BY <1>3, <2>1
      <3> HIDE DEF most
      <3>2. most \in Nat /\ FitsAt(ask, most, ask.seqs, u)
        BY <1>1, <3>1, LargestContextIs
      <3> QED BY <3>2 DEF most
    <2>3. ~FitsAt(ask, ask.context, ask.seqs, u)
      <3>1. Total(b) \in Int
        BY <1>1, BreakdownIs DEF Breakdown
      <3> QED BY <1>1, <2>1, <3>1 DEF FitsAt, Breakdown
    <2>4. ~(ask.context <= f.context)
      <3> SUFFICES ASSUME ask.context <= f.context PROVE FALSE
        OBVIOUS
      <3>1. ask.seqs <= ask.seqs
        BY <1>1
      <3> QED BY <1>1, <2>2, <2>3, <3>1, FitsLess
    <2> QED BY <1>1, <2>2, <2>4
  <1>4. ASSUME f.seqs > 0 PROVE FitsAt(ask, ask.context, f.seqs, u)
    <2> DEFINE most == f.seqs  ceiling == ask.seqs - 1
    <2>1. most = LargestMaxSeqs(ask, u, ceiling) /\ most > 0 /\ ceiling \in Int
      BY <1>1, <1>2, <1>4 DEF Unfixed, Fixed
    <2> HIDE DEF most, ceiling
    <2>2. FitsAt(ask, ask.context, most, u)
      BY <1>1, <2>1, LargestSeqsIs
    <2> QED BY <2>2 DEF most
  <1>5. ASSUME f.fp8 PROVE FitsAt([ask EXCEPT !.kv = "fp8"], ask.context, ask.seqs, u)
    <2>1. (Total(b) - b.kv) * KvElem(ask.kv, ask.shape) + b.kv <= u * KvElem(ask.kv, ask.shape)
      BY <1>2, <1>5 DEF Unfixed, Fixed
    <2> HIDE DEF b
    <2>2. b = Breakdown(ask)
      BY DEF b
    <2> QED BY <1>1, <2>1, <2>2, Fp8Works
  <1>6. ASSUME f.quant # "none", ask.kv # "auto"
        PROVE  FitsAt([ask EXCEPT !.shape.dtype = f.quant, !.weight = 0], ask.context, ask.seqs, u)
    <2> DEFINE q == f.quant
    <2>1. q = SuggestQuant(ask, b, u) /\ q # "none"
      BY <1>2, <1>6 DEF Unfixed, Fixed
    <2> HIDE DEF b, q
    <2>2. b = Breakdown(ask)
      BY DEF b
    <2>3. FitsAt([ask EXCEPT !.shape.dtype = q, !.weight = 0], ask.context, ask.seqs, u)
      BY <1>1, <1>6, <2>1, <2>2, QuantWorks
    <2> QED BY <2>3 DEF q
  <1>7. f.nodes > 0 => HeldBy(ask, f.nodes, u)
    <2> SUFFICES ASSUME f.nodes > 0 PROVE HeldBy(ask, f.nodes, u)
      OBVIOUS
    <2> DEFINE n == f.nodes
    <2>1. n \in {-1, NodesFix(ask, u)} /\ n > 0
      BY <1>2 DEF Unfixed, Fixed
    <2> HIDE DEF n
    <2>2. n = NodesFix(ask, u)
      BY <2>1
    <2>3. HeldBy(ask, n, u)
      BY <1>1, <2>1, <2>2, NodesWorks
    <2> QED BY <2>3 DEF n
  <1>8. ASSUME NEW fix \in Offered, NEW r, r = Followed(fix, ask)
        PROVE  FitsAt(r, r.context, r.seqs, u)
    <2>1. CASE fix = "context"
      <3>1. r = [ask EXCEPT !.context = f.context] /\ f.context > 0
        BY <1>8, <2>1 DEF Followed, Offered, f
      <3> DEFINE x == f.context
      <3> HIDE DEF x
      <3>2. r = [ask EXCEPT !.context = x] /\ FitsAt(ask, x, ask.seqs, u)
        BY <1>3, <3>1 DEF x
      <3> QED BY <1>1, <3>2, ShorterAsk
    <2>2. CASE fix = "seqs"
      <3>1. r = [ask EXCEPT !.seqs = f.seqs] /\ f.seqs > 0
        BY <1>8, <2>2 DEF Followed, Offered, f
      <3> DEFINE x == f.seqs
      <3> HIDE DEF x
      <3>2. r = [ask EXCEPT !.seqs = x] /\ FitsAt(ask, ask.context, x, u)
        BY <1>4, <3>1 DEF x
      <3> QED BY <1>1, <3>2, SmallerAsk
    <2>3. CASE fix = "fp8"
      <3>1. r = [ask EXCEPT !.kv = "fp8"] /\ f.fp8
        BY <1>8, <2>3 DEF Followed, Offered, f
      <3>2. r.context = ask.context /\ r.seqs = ask.seqs
        BY <1>1, <3>1 DEF AskOK
      <3> QED BY <1>5, <3>1, <3>2
    <2>4. CASE fix = "quant"
      <3>1. r = [ask EXCEPT !.shape.dtype = f.quant, !.weight = 0] /\ f.quant # "none" /\ ask.kv # "auto"
        BY <1>8, <2>4 DEF Followed, Offered, f, ask
      <3>2. r.context = ask.context /\ r.seqs = ask.seqs
        BY <1>1, <3>1 DEF AskOK
      <3> QED BY <1>6, <3>1, <3>2
    <2> QED BY <1>8, <2>1, <2>2, <2>3, <2>4 DEF Offered
  <1> QED BY <1>3, <1>7, <1>8 DEF ask, f, u

LEMMA BlameIsRight == ASSUME FitInv PROVE WeightsBlamedRightly
  <1> SUFFICES ASSUME Answered, fitAnswer.verdict = "wont_fit", fitAnswer.term = "weights",
                      NEW c \in 1 .. fitAsk.context, NEW n \in 1 .. fitAsk.seqs,
                      FitsAt(fitAsk, c, n, fitAnswer.usable)
               PROVE  FALSE
    BY DEF WeightsBlamedRightly
  <1> DEFINE r == fitAsk  u == fitAnswer.usable  a == Breakdown(r)
             b == MemoryBreakdown(r.shape, r.plan, c, n, r.kv, r.weight)
  <1>1. /\ AskOK(r) /\ ShapeOK(r.shape) /\ SplitOK(r.plan) /\ r.context \in Nat /\ r.seqs \in Nat
        /\ r.weight \in Nat /\ u \in Int /\ fitAnswer = Check(r)
    BY FitAnswerIs
  <1>2. a.weights + a.replicated > u
    BY <1>1, CheckIs
  <1>3. Total(b) <= u
    BY DEF FitsAt
  <1>4. /\ a.weights = WeightBytesPerRank(r.shape, r.plan, r.weight) /\ a.replicated = ReplicatedBytes(r.shape)
        /\ a.weights \in Nat /\ a.replicated \in Nat
    BY <1>1, BreakdownIs DEF Breakdown
  <1>5. /\ b.weights = WeightBytesPerRank(r.shape, r.plan, r.weight) /\ b.replicated = ReplicatedBytes(r.shape)
        /\ b.kv \in Nat /\ b.activations \in Nat /\ b.comm \in Nat /\ b.framework \in Nat
        /\ Total(b) = b.weights + b.kv + b.activations + b.comm + b.replicated + b.framework
    <2>1. c \in Nat /\ n \in Nat
      BY <1>1
    <2> QED BY <1>1, <2>1, BreakdownIs
  <1> HIDE DEF a, b, u
  <1>6. u \in Int
    BY <1>1
  <1> QED BY <1>2, <1>3, <1>4, <1>5, <1>6

(* What the fit gate answers of a request: a model said to fit has room on *)
(* every machine of its plan, by what each can hand out; the largest       *)
(* context found by bisection is the one a full search finds; every fix    *)
(* advised works when it is followed; the weights are blamed only where no *)
(* shorter or lighter use would do (fit/calculator.py, check()).           *)
THEOREM FitKeepsItsPromise == FitSpec => []FitPromise
  <1>1. FitInv => FitPromise
    BY VerdictIs, ContextIsExact, EveryAdviceWorks, BlameIsRight DEF FitPromise
  <1> QED BY <1>1, FitInvHolds, PTL

----------------------------------------------------------------------------
(* Sorting: rows of numbers, compared by the first place where they differ.*)

(* What a sort needs of its keys: rows of numbers of one length, no two of *)
(* them the same.                                                          *)
Keyed(S, key, n) ==
    /\ IsFiniteSet(S) /\ n \in Nat
    /\ \A x \in S : key[x] \in [1 .. n -> Int]
    /\ \A x, y \in S : key[x] = key[y] => x = y

(* Rows are compared by the first place where they differ: none precedes   *)
(* itself, ...                                                             *)
LEMMA PrecedesNotItself == ASSUME NEW n \in Nat, NEW a \in [1 .. n -> Int] PROVE ~Precedes(a, a)
  BY DEF Precedes

(* ... the order is transitive, ...                                        *)
LEMMA PrecedesOnward ==
    ASSUME NEW n \in Nat, NEW a \in [1 .. n -> Int], NEW b \in [1 .. n -> Int], NEW c \in [1 .. n -> Int],
           Precedes(a, b), Precedes(b, c)
    PROVE  Precedes(a, c)
  <1>1. PICK k \in 1 .. n : a[k] < b[k] /\ \A j \in 1 .. k - 1 : a[j] = b[j]
    BY DEF Precedes
  <1>2. PICK l \in 1 .. n : b[l] < c[l] /\ \A j \in 1 .. l - 1 : b[j] = c[j]
    BY DEF Precedes
  <1>3. CASE k < l
    <2>1. k \in 1 .. l - 1 /\ \A j \in 1 .. k - 1 : j \in 1 .. l - 1
      BY <1>3
    <2>2. a[k] < c[k] /\ \A j \in 1 .. k - 1 : a[j] = c[j]
      BY <1>1, <1>2, <2>1
    <2> QED BY <2>2 DEF Precedes
  <1>4. CASE l < k
    <2>1. l \in 1 .. k - 1 /\ \A j \in 1 .. l - 1 : j \in 1 .. k - 1
      BY <1>4
    <2>2. a[l] < c[l] /\ \A j \in 1 .. l - 1 : a[j] = c[j]
      BY <1>1, <1>2, <2>1
    <2> QED BY <2>2 DEF Precedes
  <1>5. CASE k = l
    <2>1. a[k] \in Int /\ b[k] \in Int /\ c[k] \in Int
      OBVIOUS
    <2>2. a[k] < c[k] /\ \A j \in 1 .. k - 1 : a[j] = c[j]
      BY <1>1, <1>2, <1>5, <2>1
    <2> QED BY <2>2 DEF Precedes
  <1> QED BY <1>3, <1>4, <1>5

(* ... and two different rows are in order one way or the other.           *)
LEMMA PrecedesDecides ==
    ASSUME NEW n \in Nat, NEW a \in [1 .. n -> Int], NEW b \in [1 .. n -> Int], a # b
    PROVE  Precedes(a, b) \/ Precedes(b, a)
  <1> DEFINE I == {k \in 1 .. n : a[k] # b[k]}
  <1>1. I \subseteq Nat /\ I # {}
    OBVIOUS
  <1>2. PICK k \in I : \A j \in 1 .. k - 1 : j \notin I
    BY <1>1, FirstFound
  <1>3. k \in 1 .. n /\ a[k] \in Int /\ b[k] \in Int /\ a[k] # b[k]
    OBVIOUS
  <1>4. \A j \in 1 .. k - 1 : a[j] = b[j]
    BY <1>2, <1>3
  <1>5. a[k] < b[k] \/ b[k] < a[k]
    BY <1>3
  <1> QED BY <1>3, <1>4, <1>5 DEF Precedes

Rows(S, key) == [x \in S |-> Cardinality({y \in S : Precedes(key[y], key[x])})]

LEMMA InOrderUnfolds ==
    ASSUME NEW S, NEW key
    PROVE  InOrder(S, key) = [i \in 1 .. Cardinality(S) |-> CHOOSE x \in S : Rows(S, key)[x] = i - 1]
  BY DEF InOrder, Rows

(* As many go before a member as its place says, fewer before one that     *)
(* precedes it.                                                            *)
LEMMA RowsAre ==
    ASSUME NEW S, NEW key, NEW n, Keyed(S, key, n), NEW x \in S
    PROVE  /\ Rows(S, key)[x] \in 0 .. Cardinality(S) - 1
           /\ \A y \in S : Precedes(key[y], key[x]) => Rows(S, key)[y] < Rows(S, key)[x]
  <1> DEFINE B(z) == {y \in S : Precedes(key[y], key[z])}
  <1>1. \A z \in S : key[z] \in [1 .. n -> Int] /\ ~Precedes(key[z], key[z])
    BY PrecedesNotItself DEF Keyed
  <1>2. IsFiniteSet(S) /\ Cardinality(S) \in Nat /\ n \in Nat
    BY FS_CardinalityType DEF Keyed
  <1>3. \A z \in S : B(z) \subseteq S \ {z} /\ IsFiniteSet(B(z)) /\ Cardinality(B(z)) \in Nat
    <2> TAKE z \in S
    <2>1. B(z) \subseteq S \ {z}
      BY <1>1
    <2>2. IsFiniteSet(B(z))
      BY <1>2, <2>1, FS_Subset
    <2> QED BY <2>1, <2>2, FS_CardinalityType
  <1>4. \A z \in S : Rows(S, key)[z] = Cardinality(B(z))
    BY DEF Rows
  <1>5. Cardinality(B(x)) <= Cardinality(S) - 1
    <2>1. IsFiniteSet(S \ {x}) /\ Cardinality(S \ {x}) = Cardinality(S) - 1
      BY <1>2, FS_RemoveElement
    <2> QED BY <1>3, <2>1, FS_Subset
  <1>6. ASSUME NEW y \in S, Precedes(key[y], key[x]) PROVE Cardinality(B(y)) < Cardinality(B(x))
    <2>1. y \in B(x) /\ y \notin B(y)
      BY <1>1, <1>6
    <2>2. \A z \in B(y) : z \in B(x)
      <3> TAKE z \in B(y)
      <3>1. z \in S /\ Precedes(key[z], key[y])
        OBVIOUS
      <3>2. Precedes(key[z], key[x])
        BY <1>1, <1>2, <1>6, <3>1, PrecedesOnward
      <3> QED BY <3>1, <3>2
    <2>3. B(y) \in SUBSET B(x) /\ B(y) # B(x)
      BY <2>1, <2>2
    <2>4. IsFiniteSet(B(x)) /\ Cardinality(B(x)) \in Nat /\ Cardinality(B(y)) \in Nat
      BY <1>3
    <2> QED BY <2>3, <2>4, FS_Subset
  <1>7. Rows(S, key)[x] \in 0 .. Cardinality(S) - 1
    <2>1. Cardinality(B(x)) \in Nat /\ Rows(S, key)[x] = Cardinality(B(x))
      BY <1>3, <1>4
    <2> QED BY ONLY <1>2, <1>5, <2>1
  <1>8. ASSUME NEW y \in S, Precedes(key[y], key[x]) PROVE Rows(S, key)[y] < Rows(S, key)[x]
    <2>1. Rows(S, key)[y] = Cardinality(B(y)) /\ Rows(S, key)[x] = Cardinality(B(x))
      BY <1>4
    <2> QED BY <1>6, <1>8, <2>1
  <1> QED BY <1>7, <1>8

Sorted(s, S, key) ==
    /\ s \in [1 .. Cardinality(S) -> S]
    /\ \A x \in S : \E i \in 1 .. Cardinality(S) : s[i] = x
    /\ \A i, j \in 1 .. Cardinality(S) : i < j => Precedes(key[s[i]], key[s[j]])

(* A set put in order is a row of its members, every one of them at one    *)
(* place, each before those it precedes.                                   *)
LEMMA InOrderIs ==
    ASSUME NEW S, NEW key, NEW n, Keyed(S, key, n)
    PROVE  Sorted(InOrder(S, key), S, key)
  <1> DEFINE N == Cardinality(S)
             r == Rows(S, key)
             s == InOrder(S, key)
             f == [x \in S |-> r[x] + 1]
  <1>1. IsFiniteSet(S) /\ N \in Nat /\ \A x \in S : r[x] \in 0 .. N - 1
    BY RowsAre, FS_CardinalityType DEF Keyed
  <1>2. \A x, y \in S : r[x] = r[y] => x = y
    <2> SUFFICES ASSUME NEW x \in S, NEW y \in S, r[x] = r[y], x # y PROVE FALSE
      OBVIOUS
    <2>1. key[x] # key[y] /\ key[x] \in [1 .. n -> Int] /\ key[y] \in [1 .. n -> Int] /\ n \in Nat
      BY DEF Keyed
    <2>2. Precedes(key[x], key[y]) \/ Precedes(key[y], key[x])
      BY <2>1, PrecedesDecides
    <2>3. r[x] < r[y] \/ r[y] < r[x]
      BY <2>2, RowsAre
    <2> QED BY <1>1, <2>3
  <1>3. f \in Injection(S, 1 .. N)
    <2>1. f \in [S -> 1 .. N] /\ \A x, y \in S : f[x] = f[y] => x = y
      BY <1>1, <1>2
    <2> QED BY <2>1 DEF Injection, IsInjective
  <1>4. f \in Surjection(S, 1 .. N)
    <2>1. IsFiniteSet(1 .. N) /\ Cardinality(1 .. N) = N
      BY <1>1, FS_Interval
    <2> QED BY <1>3, <2>1, FS_Injection
  <1>5. \A i \in 1 .. N : \E x \in S : r[x] = i - 1
    <2> TAKE i \in 1 .. N
    <2>1. PICK x \in S : f[x] = i
      BY <1>4 DEF Surjection
    <2> QED BY <1>1, <2>1
  <1> HIDE DEF f, r
  <1>6. \A i \in 1 .. N : s[i] \in S /\ r[s[i]] = i - 1
    BY <1>5, InOrderUnfolds DEF r
  <1>7. s \in [1 .. N -> S]
    <2>1. \A i \in 1 .. N : (CHOOSE x \in S : r[x] = i - 1) \in S
      BY <1>5
    <2>2. s = [i \in 1 .. N |-> CHOOSE x \in S : r[x] = i - 1]
      BY InOrderUnfolds, Zenon DEF r
    <2> QED BY <2>1, <2>2
  <1>8. \A x \in S : \E i \in 1 .. N : s[i] = x
    <2> TAKE x \in S
    <2>1. r[x] + 1 \in 1 .. N /\ r[x] = (r[x] + 1) - 1
      BY <1>1
    <2>2. s[r[x] + 1] \in S /\ r[s[r[x] + 1]] = r[x]
      BY <1>6, <2>1
    <2> QED BY <1>2, <2>1, <2>2
  <1>9. \A i, j \in 1 .. N : i < j => Precedes(key[s[i]], key[s[j]])
    <2> SUFFICES ASSUME NEW i \in 1 .. N, NEW j \in 1 .. N, i < j PROVE Precedes(key[s[i]], key[s[j]])
      OBVIOUS
    <2>1. s[i] \in S /\ s[j] \in S /\ r[s[i]] < r[s[j]] /\ s[i] # s[j]
      BY <1>6
    <2>2. key[s[i]] # key[s[j]] /\ key[s[i]] \in [1 .. n -> Int] /\ key[s[j]] \in [1 .. n -> Int] /\ n \in Nat
      BY <2>1 DEF Keyed
    <2>3. Precedes(key[s[i]], key[s[j]]) \/ Precedes(key[s[j]], key[s[i]])
      BY <2>2, PrecedesDecides
    <2>4. ~Precedes(key[s[j]], key[s[i]])
      <3>1. Precedes(key[s[j]], key[s[i]]) => r[s[j]] < r[s[i]]
        BY <2>1, RowsAre DEF r
      <3> QED BY <1>1, <2>1, <3>1
    <2> QED BY <2>3, <2>4
  <1> QED BY <1>7, <1>8, <1>9 DEF Sorted

(* The first of them precedes all others.                                  *)
LEMMA FirstInRow ==
    ASSUME NEW S, NEW key, NEW n, Keyed(S, key, n), S # {}
    PROVE  /\ InOrder(S, key)[1] \in S /\ InOrder(S, key) # << >> /\ 1 \in DOMAIN InOrder(S, key)
           /\ \A x \in S : x = InOrder(S, key)[1] \/ Precedes(key[InOrder(S, key)[1]], key[x])
  <1> DEFINE N == Cardinality(S)  s == InOrder(S, key)
  <1>1. Sorted(s, S, key) /\ IsFiniteSet(S)
    BY InOrderIs DEF Keyed
  <1>2. N \in Nat /\ N # 0
    BY <1>1, FS_CardinalityType, FS_EmptySet
  <1>3. 1 \in 1 .. N /\ s \in [1 .. N -> S]
    BY <1>1, <1>2 DEF Sorted
  <1>4. ASSUME NEW x \in S PROVE x = s[1] \/ Precedes(key[s[1]], key[x])
    <2>1. PICK i \in 1 .. N : s[i] = x
      BY <1>1 DEF Sorted
    <2>2. i = 1 \/ 1 < i
      BY <1>2
    <2> QED BY <1>1, <1>3, <2>1, <2>2 DEF Sorted
  <1> HIDE DEF s
  <1>5. 1 \in DOMAIN s /\ s[1] \in S
    BY <1>3
  <1>6. s # << >>
    <2>1. DOMAIN << >> = {}
      OBVIOUS
    <2> QED BY <1>5, <2>1
  <1> QED BY <1>4, <1>5, <1>6 DEF s

(* Only members are in the row.                                            *)
LEMMA OnlyMembers ==
    ASSUME NEW S, NEW key, NEW n, Keyed(S, key, n), NEW s, s = InOrder(S, key)
    PROVE  /\ s \in Seq(S) /\ Len(s) = Cardinality(S) /\ DOMAIN s = 1 .. Cardinality(S) /\ Cardinality(S) \in Nat
           /\ \A x \in S : \E i \in DOMAIN s : s[i] = x
  <1>1. Sorted(s, S, key) /\ IsFiniteSet(S)
    BY InOrderIs DEF Keyed
  <1>2. Cardinality(S) \in Nat
    BY <1>1, FS_CardinalityType
  <1> QED BY <1>1, <1>2 DEF Sorted

----------------------------------------------------------------------------
(* Machines, and groups of them that are alike.                            *)

(* Of two rows in order the first place decides, and then the second.      *)
LEMMA PrecedesByFirst ==
    ASSUME NEW n \in Nat, NEW a \in [1 .. n -> Int], NEW b \in [1 .. n -> Int], Precedes(a, b)
    PROVE  /\ n >= 1 => a[1] <= b[1]
           /\ n >= 2 /\ a[1] = b[1] => a[2] <= b[2]
  <1>1. PICK k \in 1 .. n : a[k] < b[k] /\ \A j \in 1 .. k - 1 : a[j] = b[j]
    BY DEF Precedes
  <1>2. n >= 1 => a[1] <= b[1]
    <2>1. k = 1 \/ 1 \in 1 .. k - 1
      OBVIOUS
    <2> QED BY <1>1, <2>1
  <1>3. n >= 2 /\ a[1] = b[1] => a[2] <= b[2]
    <2>1. k = 1 \/ k = 2 \/ 2 \in 1 .. k - 1
      OBVIOUS
    <2> QED BY <1>1, <2>1
  <1> QED BY <1>2, <1>3

LEMMA RowOfOne == ASSUME NEW a \in Int PROVE <<a>> \in [1 .. 1 -> Int] /\ <<a>>[1] = a
  OBVIOUS
LEMMA RowOfTwo ==
    ASSUME NEW a \in Int, NEW b \in Int
    PROVE  <<a, b>> \in [1 .. 2 -> Int] /\ <<a, b>>[1] = a /\ <<a, b>>[2] = b
  OBVIOUS
LEMMA RowOfThree ==
    ASSUME NEW a \in Int, NEW b \in Int, NEW c \in Int
    PROVE  /\ <<a, b, c>> \in [1 .. 3 -> Int]
           /\ <<a, b, c>>[1] = a /\ <<a, b, c>>[2] = b /\ <<a, b, c>>[3] = c
  OBVIOUS
LEMMA RowOfFour ==
    ASSUME NEW a \in Int, NEW b \in Int, NEW c \in Int, NEW d \in Int
    PROVE  /\ <<a, b, c, d>> \in [1 .. 4 -> Int]
           /\ <<a, b, c, d>>[1] = a /\ <<a, b, c, d>>[2] = b /\ <<a, b, c, d>>[3] = c /\ <<a, b, c, d>>[4] = d
  OBVIOUS

LEMMA MembersOf ==
    ASSUME NEW G, NEW g \in Seq(G)
    PROVE  /\ Len(g) \in Nat /\ DOMAIN g = 1 .. Len(g) /\ IsFiniteSet(DOMAIN g)
           /\ \A i \in DOMAIN g : g[i] \in G /\ g[i] \in ToSet(g)
           /\ ToSet(g) \subseteq G /\ IsFiniteSet(ToSet(g))
           /\ g # << >> => 1 \in DOMAIN g /\ Len(g) >= 1
  <1>1. Len(g) \in Nat /\ DOMAIN g = 1 .. Len(g)
    OBVIOUS
  <1>2. IsFiniteSet(DOMAIN g)
    BY <1>1, FS_Interval
  <1>3. g = [i \in DOMAIN g |-> g[i]]
    OBVIOUS
  <1>4. IsFiniteSet({g[i] : i \in DOMAIN g})
    BY <1>2, <1>3, FiniteImage
  <1>5. g # << >> => Len(g) >= 1
    OBVIOUS
  <1> QED BY <1>1, <1>2, <1>4, <1>5 DEF ToSet

(* The weakest machine of a group is one of them, and none has less memory.*)
LEMMA ExemplarIs ==
    ASSUME NEW G, \A n \in G : n.ceiling \in Nat /\ n.bandwidth \in Nat, NEW g \in Seq(G), g # << >>
    PROVE  /\ Exemplar(g) \in ToSet(g) /\ Exemplar(g) \in G
           /\ \A i \in DOMAIN g : Exemplar(g).ceiling <= g[i].ceiling
  <1> DEFINE D == DOMAIN g
             key == [i \in D |-> <<g[i].ceiling, g[i].bandwidth, i>>]
             first == InOrder(D, key)[1]
  <1>1. D = 1 .. Len(g) /\ IsFiniteSet(D) /\ 1 \in D /\ D \subseteq Int /\ \A i \in D : g[i] \in G /\ g[i] \in ToSet(g)
    BY MembersOf
  <1>2. \A i \in D : /\ key[i] = <<g[i].ceiling, g[i].bandwidth, i>>
                     /\ g[i].ceiling \in Int /\ g[i].bandwidth \in Int /\ i \in Int
    BY <1>1
  <1> HIDE DEF key, D
  <1>3. \A i \in D : key[i] \in [1 .. 3 -> Int] /\ key[i][1] = g[i].ceiling /\ key[i][3] = i
    <2> TAKE i \in D
    <2> DEFINE a == g[i].ceiling  b == g[i].bandwidth
    <2>1. a \in Int /\ b \in Int /\ i \in Int /\ key[i] = <<a, b, i>>
      BY <1>2
    <2> HIDE DEF a, b
    <2>2. key[i] \in [1 .. 3 -> Int] /\ key[i][1] = a /\ key[i][3] = i
      BY <2>1, RowOfThree
    <2> QED BY <2>2 DEF a
  <1>4. Keyed(D, key, 3)
    BY <1>1, <1>3 DEF Keyed
  <1>5. first \in D /\ \A i \in D : i = first \/ Precedes(key[first], key[i])
    BY <1>1, <1>4, FirstInRow
  <1>6. \A i \in D : g[first].ceiling <= g[i].ceiling
    <2> TAKE i \in D
    <2>1. CASE i = first
      BY <1>2, <2>1
    <2>2. CASE Precedes(key[first], key[i])
      <3>1. key[first][1] <= key[i][1]
        <4>1. key[first] \in [1 .. 3 -> Int] /\ key[i] \in [1 .. 3 -> Int] /\ 3 \in Nat /\ 3 >= 1
          BY <1>3, <1>5
        <4> QED BY <2>2, <4>1, PrecedesByFirst
      <3> QED BY <1>3, <1>5, <3>1
    <2> QED BY <1>5, <2>1, <2>2
  <1>7. Exemplar(g) = g[first]
    BY DEF Exemplar, key, D
  <1> QED BY <1>1, <1>5, <1>6, <1>7 DEF D

LEMMA MachinesAre ==
    ASSUME NEW nodes, MachinesOK(nodes)
    PROVE  /\ nodes \in Seq(ToSet(nodes)) /\ nodes # << >>
           /\ \A n \in ToSet(nodes) : n.ceiling \in Nat /\ n.gpus \in Nat /\ n.bandwidth \in Nat /\ n.rank \in Nat
           /\ \A m, n \in ToSet(nodes) : (m.rank = n.rank => m = n) /\ (m.model = n.model => m.gpus = n.gpus)
  BY DEF MachinesOK

(* The members of one group, as they are put in order.                     *)
Kin(nodes, m) == {n \in ToSet(nodes) : n.model = m}
Group(nodes, m) == InOrder(Kin(nodes, m), [n \in Kin(nodes, m) |-> <<n.rank>>])

LEMMA GroupIs ==
    ASSUME NEW nodes, MachinesOK(nodes), NEW m, Kin(nodes, m) # {}
    PROVE  Group(nodes, m) \in Seq(Kin(nodes, m)) /\ Group(nodes, m) # << >>
  <1> DEFINE S == Kin(nodes, m)  key == [n \in S |-> <<n.rank>>]
  <1>1. S \subseteq ToSet(nodes) /\ IsFiniteSet(S)
    <2>1. S \subseteq ToSet(nodes)
      BY DEF Kin
    <2>2. IsFiniteSet(ToSet(nodes))
      BY MachinesAre, MembersOf
    <2> QED BY <2>1, <2>2, FS_Subset
  <1>2. \A n \in S : key[n] = <<n.rank>> /\ n.rank \in Int
    BY <1>1, MachinesAre
  <1> HIDE DEF key
  <1>3. \A n \in S : key[n] \in [1 .. 1 -> Int] /\ key[n][1] = n.rank
    BY <1>2, RowOfOne
  <1>4. \A n, o \in S : key[n] = key[o] => n = o
    <2> SUFFICES ASSUME NEW n \in S, NEW o \in S, key[n] = key[o] PROVE n = o
      OBVIOUS
    <2>1. n.rank = o.rank /\ n \in ToSet(nodes) /\ o \in ToSet(nodes)
      BY <1>1, <1>3
    <2> QED BY <2>1, MachinesAre
  <1>5. Keyed(S, key, 1)
    BY <1>1, <1>3, <1>4 DEF Keyed
  <1>6. InOrder(S, key) \in Seq(S) /\ InOrder(S, key) # << >>
    BY <1>5, OnlyMembers, FirstInRow
  <1> QED BY <1>6 DEF Group, key

LEMMA GroupsUnfold ==
    ASSUME NEW nodes
    PROVE  LET models == {nodes[i].model : i \in DOMAIN nodes}
               first(m) == CHOOSE i \in DOMAIN nodes :
                               nodes[i].model = m /\ \A j \in 1 .. i - 1 : nodes[j].model # m
               memory(g) == SumOver([i \in DOMAIN g |-> g[i].ceiling])
               members == [m \in models |-> Group(nodes, m)]
               order == InOrder(models, [m \in models |-> <<-memory(members[m]), -Len(members[m]),
                                                            -Exemplar(members[m]).bandwidth, first(m)>>])
           IN  HomogeneousGroups(nodes) = [i \in DOMAIN order |-> members[order[i]]]
  BY DEF HomogeneousGroups, Group, Kin

(* What the machines of a group hold together.                             *)
LEMMA MemoryIs ==
    ASSUME NEW G, \A n \in G : n.ceiling \in Nat, NEW g \in Seq(G)
    PROVE  SumOver([i \in DOMAIN g |-> g[i].ceiling]) \in Int
  <1> DEFINE c == [i \in DOMAIN g |-> g[i].ceiling]
  <1>1. IsFiniteSet(DOMAIN c) /\ \A i \in DOMAIN c : c[i] \in Int
    BY MembersOf
  <1>2. SumOf(c, DOMAIN c) \in Int
    BY <1>1, SumOne DEF Summable
  <1>3. SumOver(c) = SumOf(c, DOMAIN c)
    BY DEF SumOver, SumOf
  <1> QED BY <1>2, <1>3

(* The group that is used is of machines of one model.                     *)
LEMMA FirstGroupIs ==
    ASSUME NEW nodes, MachinesOK(nodes), NEW g, g = HomogeneousGroups(nodes)[1]
    PROVE  /\ g \in Seq(ToSet(nodes)) /\ g # << >>
           /\ \A m, n \in ToSet(g) : m.model = n.model
  <1> DEFINE models == {nodes[i].model : i \in DOMAIN nodes}
             first(m) == CHOOSE i \in DOMAIN nodes :
                             nodes[i].model = m /\ \A j \in 1 .. i - 1 : nodes[j].model # m
             memory(x) == SumOver([i \in DOMAIN x |-> x[i].ceiling])
             members == [m \in models |-> Group(nodes, m)]
             key == [m \in models |-> <<-memory(members[m]), -Len(members[m]),
                                        -Exemplar(members[m]).bandwidth, first(m)>>]
             order == InOrder(models, key)
  <1>1. /\ DOMAIN nodes = 1 .. Len(nodes) /\ IsFiniteSet(DOMAIN nodes) /\ 1 \in DOMAIN nodes
        /\ \A i \in DOMAIN nodes : nodes[i] \in ToSet(nodes)
    BY MachinesAre, MembersOf
  <1>2. IsFiniteSet(models) /\ models # {}
    <2> DEFINE h == [i \in DOMAIN nodes |-> nodes[i].model]
    <2>1. IsFiniteSet({h[i] : i \in DOMAIN nodes})
      BY <1>1, FiniteImage
    <2> QED BY <1>1, <2>1
  <1>3. \A m \in models : members[m] \in Seq(Kin(nodes, m)) /\ members[m] # << >>
    <2> TAKE m \in models
    <2>1. PICK i \in DOMAIN nodes : nodes[i].model = m
      OBVIOUS
    <2>2. nodes[i] \in Kin(nodes, m)
      BY <1>1, <2>1 DEF Kin
    <2> QED BY <2>2, GroupIs
  <1>4. \A m \in models : first(m) \in DOMAIN nodes /\ nodes[first(m)].model = m
    <2> TAKE m \in models
    <2> DEFINE I == {i \in DOMAIN nodes : nodes[i].model = m}
    <2>1. I \subseteq Nat /\ I # {}
      BY <1>1
    <2>2. PICK i \in I : \A j \in 1 .. i - 1 : j \notin I
      BY <2>1, FirstFound
    <2>3. i \in DOMAIN nodes /\ nodes[i].model = m /\ \A j \in 1 .. i - 1 : nodes[j].model # m
      BY <1>1, <2>2
    <2> QED BY <2>3
  <1> HIDE DEF members, first
  <1>5. \A m \in models : /\ memory(members[m]) \in Int /\ Len(members[m]) \in Int
                          /\ Exemplar(members[m]).bandwidth \in Int /\ first(m) \in Int
    <2> TAKE m \in models
    <2>1. \A n \in Kin(nodes, m) : n.ceiling \in Nat /\ n.bandwidth \in Nat
      BY MachinesAre DEF Kin
    <2>2. members[m] \in Seq(Kin(nodes, m)) /\ members[m] # << >>
      BY <1>3
    <2>3. memory(members[m]) \in Int
      BY <2>1, <2>2, MemoryIs
    <2>4. Exemplar(members[m]) \in Kin(nodes, m)
      BY <2>1, <2>2, ExemplarIs
    <2>5. Len(members[m]) \in Int
      BY <2>2
    <2> QED BY <1>1, <1>4, <2>1, <2>3, <2>4, <2>5
  <1> HIDE DEF memory
  <1>6. \A m \in models : key[m] \in [1 .. 4 -> Int] /\ key[m][4] = first(m)
    <2> TAKE m \in models
    <2> DEFINE a == -memory(members[m])  b == -Len(members[m])  c == -Exemplar(members[m]).bandwidth  d == first(m)
    <2>1. a \in Int /\ b \in Int /\ c \in Int /\ d \in Int
      BY <1>5
    <2>2. key[m] = <<a, b, c, d>>
      OBVIOUS
    <2> HIDE DEF a, b, c, d, key
    <2>3. key[m] \in [1 .. 4 -> Int] /\ key[m][4] = d
      BY <2>1, <2>2, RowOfFour
    <2> QED BY <2>3 DEF d
  <1> HIDE DEF key
  <1>7. Keyed(models, key, 4)
    BY <1>2, <1>4, <1>6 DEF Keyed
  <1>8. order[1] \in models /\ 1 \in DOMAIN order
    BY <1>2, <1>7, FirstInRow
  <1>9. g = members[order[1]]
    <2>1. HomogeneousGroups(nodes) = [i \in DOMAIN order |-> members[order[i]]]
      BY GroupsUnfold DEF order, key, members, first, memory
    <2> QED BY <1>8, <2>1
  <1>10. g \in Seq(Kin(nodes, order[1])) /\ g # << >>
    BY <1>3, <1>8, <1>9
  <1>11. Kin(nodes, order[1]) \subseteq ToSet(nodes) /\ \A n \in Kin(nodes, order[1]) : n.model = order[1]
    BY DEF Kin
  <1>12. ToSet(g) \subseteq Kin(nodes, order[1])
    BY <1>10, MembersOf
  <1> QED BY <1>10, <1>11, <1>12

----------------------------------------------------------------------------
(* What the planner knows, and the splits it considers.                    *)

LEMMA ModelIs ==
    ASSUME NEW s, SplittableOK(s)
    PROVE  ShapeOK(s) /\ s.experts \in Nat /\ s.perToken \in Nat
  BY DEF SplittableOK

LEMMA PlanAskIs ==
    ASSUME NEW q, PlanAskOK(q)
    PROVE  /\ SplittableOK(q.shape) /\ ShapeOK(q.shape) /\ MachinesOK(q.nodes)
           /\ q.link.gbps \in Nat /\ q.link.p2p \in Nat /\ q.link.latency \in Nat
           /\ q.link.gdr \in BOOLEAN /\ q.link.measured \in BOOLEAN
           /\ q.seqs \in Nat \ {0} /\ q.context \in Nat /\ q.latency \in BOOLEAN /\ q.pooled \in BOOLEAN
  BY ModelIs DEF PlanAskOK

LEMMA PooledAsk ==
    ASSUME NEW q, PlanAskOK(q), NEW p, p = [q EXCEPT !.pooled = TRUE]
    PROVE  /\ PlanAskOK(p) /\ p.shape = q.shape /\ p.nodes = q.nodes /\ p.link = q.link /\ p.latency = q.latency
           /\ p.seqs = q.seqs /\ p.context = q.context /\ p.kv = q.kv /\ p.pooled = TRUE
  <1>1. DOMAIN q = {"shape", "nodes", "link", "latency", "seqs", "context", "kv", "pooled"}
    BY DEF PlanAskOK
  <1>2. /\ DOMAIN p = DOMAIN q /\ p.shape = q.shape /\ p.nodes = q.nodes /\ p.link = q.link
        /\ p.latency = q.latency /\ p.seqs = q.seqs /\ p.context = q.context /\ p.kv = q.kv /\ p.pooled = TRUE
    BY <1>1
  <1>3. PlanAskOK(p)
    BY <1>1, <1>2 DEF PlanAskOK
  <1> QED BY <1>2, <1>3

(* The fewest machines alike that hold a model: -1, or a number that does  *)
(* and no smaller one.                                                     *)
LEMMA FewestIs ==
    ASSUME NEW r, NEW usable, NEW n, n = MinNodesRequired(r, usable)
    PROVE  /\ n \in Int
           /\ \/ n = -1 /\ \A m \in 1 .. MaxNodes : ~HeldBy(r, m, usable)
              \/ n \in 1 .. MaxNodes /\ HeldBy(r, n, usable)
                 /\ \A m \in 1 .. MaxNodes : HeldBy(r, m, usable) => n <= m
  <1> DEFINE enough == {m \in 1 .. MaxNodes : HeldBy(r, m, usable)}
  <1>1. n = IF enough = {} THEN -1 ELSE CHOOSE m \in enough : \A o \in enough : m <= o
    BY DEF MinNodesRequired
  <1>2. CASE enough = {}
    BY <1>1, <1>2
  <1>3. CASE enough # {}
    <2>1. enough \subseteq Nat /\ enough \subseteq 1 .. MaxNodes
      BY TablesAre
    <2>2. Min(enough) \in enough /\ \A o \in enough : Min(enough) <= o
      BY <1>3, <2>1, LeastOfNaturals
    <2>3. n \in enough /\ \A o \in enough : n <= o
      BY <1>1, <1>3, <2>2
    <2> QED BY <2>1, <2>3
  <1> QED BY <1>2, <1>3

Sized(q) ==
    [shape |-> q.shape, kv |-> q.kv, weight |-> 0, context |-> q.context, seqs |-> q.seqs, plan |-> << >>]

LEMMA FactsAre ==
    ASSUME NEW q, PlanAskOK(q), NEW f, f = Facts(q)
    PROVE  /\ f.shape = q.shape /\ f.link = q.link /\ f.seqs = q.seqs
           /\ f.group \in Seq(ToSet(q.nodes)) /\ f.group # << >>
           /\ q.pooled => f.group = q.nodes
           /\ ~q.pooled => \A m, n \in ToSet(f.group) : m.model = n.model
           /\ f.least = MinNodesRequired(Sized(q), Exemplar(f.group).ceiling) /\ f.least \in Int
           /\ Exemplar(f.group) \in ToSet(f.group)
           /\ \A i \in DOMAIN f.group : Exemplar(f.group).ceiling <= f.group[i].ceiling
  <1> DEFINE first == HomogeneousGroups(q.nodes)[1]
             group == IF q.pooled THEN q.nodes ELSE first
  <1>1. MachinesOK(q.nodes) /\ q.pooled \in BOOLEAN
    BY PlanAskIs
  <1>2. /\ first \in Seq(ToSet(q.nodes)) /\ first # << >>
        /\ \A m, n \in ToSet(first) : m.model = n.model
    BY <1>1, FirstGroupIs
  <1>3. q.nodes \in Seq(ToSet(q.nodes)) /\ q.nodes # << >>
    BY <1>1, MachinesAre
  <1>4. /\ f.shape = q.shape /\ f.link = q.link /\ f.seqs = q.seqs /\ f.group = group
        /\ f.least = MinNodesRequired(Sized(q), Exemplar(group).ceiling)
    BY DEF Facts, Sized
  <1>5. group \in Seq(ToSet(q.nodes)) /\ group # << >>
    BY <1>1, <1>2, <1>3
  <1>6. \A n \in ToSet(q.nodes) : n.ceiling \in Nat /\ n.bandwidth \in Nat
    BY <1>1, MachinesAre
  <1>7. /\ Exemplar(group) \in ToSet(group)
        /\ \A i \in DOMAIN group : Exemplar(group).ceiling <= group[i].ceiling
    BY <1>5, <1>6, ExemplarIs
  <1>8. f.least \in Int
    BY <1>4, FewestIs
  <1>9. ~q.pooled => \A m, n \in ToSet(group) : m.model = n.model
    BY <1>2
  <1>10. q.pooled => group = q.nodes
    OBVIOUS
  <1> HIDE DEF group
  <1> QED BY <1>4, <1>5, <1>7, <1>8, <1>9, <1>10

(* What a runtime will accept of a split.                                  *)
Legal(c, shape) ==
    /\ c.tp \in Nat \ {0} /\ c.pp \in Nat \ {0} /\ c.ep \in Nat \ {0} /\ c.dp \in Nat \ {0}
    /\ shape.heads % c.tp = 0 /\ shape.kvHeads % c.tp = 0 /\ c.pp <= shape.layers
    /\ c.ep > 1 => shape.experts % c.ep = 0

LEMMA DegreesIs ==
    ASSUME NEW a, NEW b, NEW c, NEW d
    PROVE  Degrees(a, b, c, d).tp = a /\ Degrees(a, b, c, d).pp = b /\ Degrees(a, b, c, d).ep = c
           /\ Degrees(a, b, c, d).dp = d
  BY DEF Degrees

LEMMA TpDegreesAre ==
    ASSUME NEW s, ShapeOK(s), NEW most \in Int
    PROVE  /\ 1 \in ValidTpDegrees(s, most)
           /\ \A d \in ValidTpDegrees(s, most) :
                 /\ d \in Nat \ {0} /\ d <= AtLeast(1, most) /\ s.heads % d = 0 /\ s.kvHeads % d = 0
  <1>1. s.heads \in Nat /\ s.kvHeads \in Nat /\ s.heads % 1 = 0 /\ s.kvHeads % 1 = 0
    <2>1. \A x \in Nat : x % 1 = 0
      BY Divides
    <2> QED BY <2>1, ShapeIs
  <1>2. AtLeast(1, most) \in Int /\ AtLeast(1, most) >= 1 /\ AtLeast(1, most) >= most
    BY LeastIs
  <1>3. ASSUME NEW d \in ValidTpDegrees(s, most)
        PROVE  d = 1 \/ (d \in 2 .. most /\ s.heads % d = 0 /\ s.kvHeads % d = 0)
    BY DEF ValidTpDegrees
  <1>4. 1 \in ValidTpDegrees(s, most)
    BY DEF ValidTpDegrees
  <1>5. \A d \in 2 .. most : d \in Nat \ {0} /\ d <= AtLeast(1, most)
    BY <1>2
  <1> QED BY <1>1, <1>2, <1>3, <1>4, <1>5

LEMMA EpDegreesAre ==
    ASSUME NEW s, SplittableOK(s), NEW most \in Int
    PROVE  /\ 1 \in ValidEpDegrees(s, most)
           /\ \A d \in ValidEpDegrees(s, most) :
                 /\ d \in Nat \ {0} /\ d <= AtLeast(1, most) /\ (d > 1 => s.experts % d = 0)
  <1>1. AtLeast(1, most) \in Int /\ AtLeast(1, most) >= 1 /\ AtLeast(1, most) >= most
    BY LeastIs
  <1>2. ASSUME NEW d \in ValidEpDegrees(s, most)
        PROVE  d = 1 \/ (d \in 2 .. most /\ s.experts % d = 0)
    BY DEF ValidEpDegrees
  <1>3. 1 \in ValidEpDegrees(s, most)
    BY DEF ValidEpDegrees
  <1>4. \A d \in 2 .. most : d \in Nat \ {0} /\ d <= AtLeast(1, most)
    BY <1>1
  <1> QED BY <1>1, <1>2, <1>3, <1>4

LEMMA PpDegreesAre ==
    ASSUME NEW s, ShapeOK(s), NEW most \in Int, NEW d \in ValidPpDegrees(s, most)
    PROVE  d \in Nat \ {0} /\ d <= s.layers /\ d <= AtLeast(1, most)
  <1>1. s.layers \in Nat \ {0}
    BY ShapeIs
  <1> QED BY <1>1 DEF ValidPpDegrees, AtLeast, AtMost

(* The widest of some degrees is one of them.                              *)
LEMMA WidestIs ==
    ASSUME NEW most \in Nat, NEW D, D \subseteq 1 .. most, 1 \in D,
           NEW w, w = CHOOSE d \in D : \A e \in D : e <= d
    PROVE  w \in D
  <1>1. Max(D) \in D /\ \A e \in D : Max(D) >= e
    <2>1. D \subseteq Nat /\ IsFiniteSet(D) /\ D # {}
      <3>1. IsFiniteSet(1 .. most) /\ D \in SUBSET (1 .. most)
        BY FS_Interval
      <3>2. IsFiniteSet(D)
        BY <3>1, FS_Subset
      <3> QED BY <3>2
    <2> QED BY <2>1, GreatestOfFinite
  <1>2. \A e \in D : e <= Max(D)
    BY <1>1
  <1> QED BY <1>1, <1>2

(* A split of a model over machines is one a runtime accepts, with a       *)
(* machine for every rank.                                                 *)
Split(c, shape, most) == Legal(c, shape) /\ c.tp * c.pp * c.dp <= most /\ c.dp = c.ep

LEMMA CandidatesAre ==
    ASSUME NEW s, SplittableOK(s), NEW most \in Nat \ {0}, NEW least \in Int, NEW allowed,
           NEW row, row = EnumerateCandidates(s, most, least, allowed)
    PROVE  \E n \in Nat : /\ DOMAIN row = 1 .. n /\ (n = 0 => row = << >>)
                          /\ \A i \in 1 .. n : Split(row[i], s, most)
  <1> DEFINE floor == AtLeast(1, AtMost(least, most))
             splits == {c \in {Degrees(tp, pp, 1, 1) : tp \in ValidTpDegrees(s, most),
                                                       pp \in ValidPpDegrees(s, most)} :
                             c.tp * c.pp \in floor .. most}
             wide == {w \in AtLeast(floor, MinNodesForEp) .. most :
                         IsMoe(s) /\ allowed /\ w <= s.experts /\ s.experts % w = 0}
             experts == {Degrees(1, 1, w, w) : w \in wide}
             all == splits \cup experts
             key == [c \in all |-> <<c.ep, c.tp, c.pp>>]
  <1>1. ShapeOK(s) /\ s.heads \in Nat /\ s.kvHeads \in Nat /\ s.layers \in Nat \ {0}
    BY ModelIs, ShapeIs
  <1>2. floor \in Nat /\ floor >= 1
    BY LeastIs
  <1>3. \A w \in wide : w \in Nat \ {0} /\ w <= most /\ s.experts % w = 0
    <2>1. AtLeast(floor, MinNodesForEp) \in Int /\ AtLeast(floor, MinNodesForEp) >= floor
      <3>1. MinNodesForEp \in Int
        BY PlannerAssumption
      <3> QED BY <1>2, <3>1, LeastIs
    <2> QED BY <1>2, <2>1
  <1> HIDE DEF wide, floor
  <1>4. \A c \in splits : Split(c, s, most) /\ c.ep = 1 /\ c.tp <= most /\ c.pp <= most /\ c = Degrees(c.tp, c.pp, 1, 1)
    <2> TAKE c \in splits
    <2>1. PICK tp \in ValidTpDegrees(s, most), pp \in ValidPpDegrees(s, most) : c = Degrees(tp, pp, 1, 1)
      OBVIOUS
    <2>2. /\ tp \in Nat \ {0} /\ s.heads % tp = 0 /\ s.kvHeads % tp = 0 /\ tp <= AtLeast(1, most)
          /\ pp \in Nat \ {0} /\ pp <= s.layers /\ pp <= AtLeast(1, most)
      BY <1>1, <2>1, TpDegreesAre, PpDegreesAre
    <2>3. AtLeast(1, most) = most
      BY DEF AtLeast
    <2>4. c.tp = tp /\ c.pp = pp /\ c.ep = 1 /\ c.dp = 1
      BY <2>1, DegreesIs
    <2>5. c.tp * c.pp \in floor .. most
      OBVIOUS
    <2>6. (c.tp * c.pp) * c.dp <= most
      BY <2>2, <2>4, <2>5, <1>2
    <2> QED BY <2>1, <2>2, <2>3, <2>4, <2>6 DEF Split, Legal
  <1>5. \A c \in experts : Split(c, s, most) /\ c.tp = 1 /\ c.pp = 1 /\ c = Degrees(1, 1, c.ep, c.ep)
    <2> TAKE c \in experts
    <2>1. PICK w \in wide : c = Degrees(1, 1, w, w)
      OBVIOUS
    <2>2. w \in Nat \ {0} /\ w <= most /\ s.experts % w = 0
      BY <1>3
    <2>3. c.tp = 1 /\ c.pp = 1 /\ c.ep = w /\ c.dp = w
      BY <2>1, DegreesIs
    <2>4. s.heads % 1 = 0 /\ s.kvHeads % 1 = 0
      BY <1>1, TpDegreesAre
    <2> QED BY <1>1, <2>1, <2>2, <2>3, <2>4 DEF Split, Legal
  <1>6. IsFiniteSet(splits)
    <2> DEFINE D == (1 .. most) \X (1 .. most)
               h == [d \in D |-> Degrees(d[1], d[2], 1, 1)]
    <2>1. IsFiniteSet(D)
      <3>1. IsFiniteSet(1 .. most)
        BY FS_Interval
      <3> QED BY <3>1, FS_Product
    <2>2. IsFiniteSet({h[d] : d \in D})
      <3>1. h = [d \in D |-> h[d]]
        OBVIOUS
      <3> HIDE DEF h, D
      <3> QED BY <2>1, <3>1, FiniteImage
    <2>3. \A c \in splits : \E d \in D : c = h[d]
      <3> TAKE c \in splits
      <3>1. c.tp \in 1 .. most /\ c.pp \in 1 .. most /\ c = Degrees(c.tp, c.pp, 1, 1)
        BY <1>4 DEF Split, Legal
      <3>2. <<c.tp, c.pp>> \in D /\ h[<<c.tp, c.pp>>] = c
        BY <3>1
      <3> QED BY <3>2
    <2>4. splits \in SUBSET {h[d] : d \in D}
      BY <2>3
    <2> QED BY <2>2, <2>4, FS_Subset
  <1>7. IsFiniteSet(experts)
    <2> DEFINE h == [w \in wide |-> Degrees(1, 1, w, w)]
    <2>1. wide \in SUBSET (1 .. most)
      BY <1>3
    <2>2. IsFiniteSet(wide)
      <3>1. IsFiniteSet(1 .. most)
        BY FS_Interval
      <3> QED BY <2>1, <3>1, FS_Subset
    <2>3. IsFiniteSet({h[w] : w \in wide})
      <3>1. h = [w \in wide |-> h[w]]
        OBVIOUS
      <3> HIDE DEF h
      <3> QED BY <2>2, <3>1, FiniteImage
    <2>4. experts = {h[w] : w \in wide}
      OBVIOUS
    <2> QED BY <2>3, <2>4
  <1>8. IsFiniteSet(all)
    <2> HIDE DEF splits, experts
    <2> QED BY <1>6, <1>7, FS_Union
  <1>9. \A c \in all : Split(c, s, most) /\ c = Degrees(c.tp, c.pp, c.ep, c.ep)
    BY <1>4, <1>5
  <1> HIDE DEF all
  <1>10. \A c \in all : /\ key[c] \in [1 .. 3 -> Int]
                        /\ key[c][1] = c.ep /\ key[c][2] = c.tp /\ key[c][3] = c.pp
    <2> TAKE c \in all
    <2> DEFINE x == c.ep  y == c.tp  z == c.pp
    <2>1. x \in Int /\ y \in Int /\ z \in Int /\ key[c] = <<x, y, z>>
      BY <1>9 DEF Split, Legal
    <2> HIDE DEF x, y, z, key
    <2>2. key[c] \in [1 .. 3 -> Int] /\ key[c][1] = x /\ key[c][2] = y /\ key[c][3] = z
      BY <2>1, RowOfThree
    <2> QED BY <2>2 DEF x, y, z
  <1> HIDE DEF key
  <1>11. Keyed(all, key, 3)
    <2>1. \A c, d \in all : key[c] = key[d] => c = d
      <3> SUFFICES ASSUME NEW c \in all, NEW d \in all, key[c] = key[d] PROVE c = d
        OBVIOUS
      <3>1. c.ep = d.ep /\ c.tp = d.tp /\ c.pp = d.pp
        BY <1>10
      <3> QED BY <1>9, <3>1
    <2> QED BY <1>8, <1>10, <2>1 DEF Keyed
  <1>12. row = InOrder(all, key)
    BY DEF EnumerateCandidates, all, splits, experts, wide, floor, key
  <1>13. row \in Seq(all) /\ DOMAIN row = 1 .. Cardinality(all) /\ Cardinality(all) \in Nat
    BY <1>11, <1>12, OnlyMembers
  <1>14. \A i \in 1 .. Cardinality(all) : row[i] \in all
    BY <1>13
  <1>15. Cardinality(all) = 0 => row = << >>
    BY <1>13
  <1> QED BY <1>9, <1>13, <1>14, <1>15

----------------------------------------------------------------------------
(* What a split costs and where it stands.                                 *)

LEMMA SplitNumbers ==
    ASSUME NEW c, NEW s, Legal(c, s)
    PROVE  /\ c.tp \in Nat \ {0} /\ c.pp \in Nat \ {0} /\ c.ep \in Nat \ {0} /\ c.dp \in Nat \ {0}
           /\ c.tp * c.pp \in Nat \ {0} /\ c.tp * c.pp * c.dp \in Nat \ {0}
  <1>1. c.tp \in Nat \ {0} /\ c.pp \in Nat \ {0} /\ c.ep \in Nat \ {0} /\ c.dp \in Nat \ {0}
    BY DEF Legal
  <1>2. c.tp * c.pp \in Nat \ {0}
    BY <1>1, PositiveProduct
  <1>3. (c.tp * c.pp) * c.dp \in Nat \ {0}
    BY <1>1, <1>2, PositiveProduct
  <1> QED BY <1>1, <1>2, <1>3

LEMMA ComputeIs ==
    ASSUME NEW s, SplittableOK(s), NEW node, node.bandwidth \in Nat, NEW c, Legal(c, s), NEW batch \in Nat \ {0}
    PROVE  ComputeSeconds(s, node, c, batch) \in Nat
  <1> DEFINE world == c.tp * c.pp * c.dp
             x == s.active * Halves[s.dtype] * Scale
             y == 2 * node.bandwidth * world
             alone == x \div y
             longer == batch + c.pp - 1
  <1>1. world \in Nat \ {0} /\ c.pp \in Nat \ {0}
    BY SplitNumbers
  <1>2. x \in Nat
    <2>1. s.active \in Nat /\ Halves[s.dtype] \in Nat /\ Scale \in Nat
      BY ModelIs, ShapeIs, PlannerAssumption
    <2>2. s.active * Halves[s.dtype] \in Nat
      BY <2>1, ProductIs
    <2> QED BY <2>1, <2>2, ProductIs
  <1>3. longer \in Nat
    BY <1>1
  <1> HIDE DEF world, x, longer
  <1>4. CASE node.bandwidth <= 0
    BY <1>4 DEF ComputeSeconds, Forever
  <1>5. CASE ~(node.bandwidth <= 0)
    <2>1. y \in Nat \ {0}
      <3>1. 2 * node.bandwidth \in Nat \ {0}
        BY <1>5
      <3> QED BY <1>1, <3>1, PositiveProduct
    <2>2. alone \in Nat
      BY <1>2, <2>1, Divides
    <2> HIDE DEF alone
    <2>3. alone * longer \in Nat /\ alone * 100 \in Nat
      BY <1>3, <2>2, ProductIs
    <2>4. (alone * longer) \div batch \in Nat
      BY <2>3, Divides
    <2>5. \/ ComputeSeconds(s, node, c, batch) = (alone * longer) \div batch
          \/ ComputeSeconds(s, node, c, batch) = alone * 100
      BY <1>5 DEF ComputeSeconds, alone, x, y, world, longer
    <2> QED BY <2>3, <2>4, <2>5
  <1> QED BY <1>4, <1>5

LEMMA LinkIs ==
    ASSUME NEW bytes \in Nat, NEW gbps \in Nat, NEW exchanges \in Nat, NEW latency \in Nat
    PROVE  LinkSeconds(bytes, gbps, exchanges, latency) \in Nat
  <1> DEFINE t == IF gbps > 0 THEN (bytes * Scale) \div gbps ELSE Forever
  <1>1. bytes * Scale \in Nat /\ exchanges * latency \in Nat
    BY ProductIs, PlannerAssumption
  <1>2. t \in Nat
    <2>1. CASE gbps > 0
      <3>1. (bytes * Scale) \div gbps \in Nat
        BY <1>1, <2>1, Divides
      <3> QED BY <2>1, <3>1
    <2>2. CASE ~(gbps > 0)
      BY <2>2 DEF Forever
    <2> QED BY <2>1, <2>2
  <1>3. LinkSeconds(bytes, gbps, exchanges, latency) = 0
        \/ LinkSeconds(bytes, gbps, exchanges, latency) = t + exchanges * latency
    BY DEF LinkSeconds
  <1> HIDE DEF t
  <1> QED BY <1>1, <1>2, <1>3

LEMMA TrafficIs ==
    ASSUME NEW s, SplittableOK(s), NEW d \in Nat \ {0}, NEW batch \in Nat
    PROVE  /\ TensorBytes(s, d, batch) \in Nat /\ TensorExchanges(s, d) \in Nat
           /\ PipelineBytes(s, d, batch) \in Nat /\ d - 1 \in Nat
           /\ ExpertBytes(s, d, batch) \in Nat /\ ExpertExchanges(s, d) \in Nat
  <1>1. s.layers \in Nat /\ s.hidden \in Nat /\ s.perToken \in Nat /\ d - 1 \in Nat /\ s.layers * 2 \in Nat
    BY ModelIs, ShapeIs
  <1>2. PipelineBytes(s, d, batch) \in Nat
    <2>1. (d - 1) * s.hidden \in Nat
      BY <1>1, ProductIs
    <2>2. (d - 1) * s.hidden * 2 \in Nat
      BY <2>1
    <2> QED BY <2>2, ProductIs DEF PipelineBytes
  <1>3. s.layers * 2 * 2 * s.hidden * 2 * batch \in Nat /\ s.layers * 2 * s.hidden * 2 * batch \in Nat
    <2>1. s.layers * 2 * 2 * s.hidden \in Nat /\ s.layers * 2 * s.hidden \in Nat
      BY <1>1, ProductIs
    <2>2. s.layers * 2 * 2 * s.hidden * 2 \in Nat /\ s.layers * 2 * s.hidden * 2 \in Nat
      BY <2>1
    <2> QED BY <2>2, ProductIs
  <1>4. TensorBytes(s, d, batch) \in Nat
    <2> DEFINE x == (s.layers * 2 * 2 * s.hidden * 2 * batch) * (d - 1)
    <2>1. x \in Nat
      BY <1>1, <1>3, ProductIs
    <2>2. TensorBytes(s, d, batch) = 0 \/ TensorBytes(s, d, batch) = x \div d
      BY DEF TensorBytes
    <2> HIDE DEF x
    <2>3. x \div d \in Nat
      BY <2>1, Divides
    <2> QED BY <2>2, <2>3
  <1>5. ExpertBytes(s, d, batch) \in Nat
    <2> DEFINE x == (s.layers * 2 * s.hidden * 2 * batch * s.perToken) * (d - 1)
    <2>1. s.layers * 2 * s.hidden * 2 * batch * s.perToken \in Nat
      BY <1>1, <1>3, ProductIs
    <2>2. x \in Nat
      BY <1>1, <2>1, ProductIs
    <2>3. ExpertBytes(s, d, batch) = 0 \/ ExpertBytes(s, d, batch) = x \div d
      BY DEF ExpertBytes
    <2> HIDE DEF x
    <2>4. x \div d \in Nat
      BY <2>2, Divides
    <2> QED BY <2>3, <2>4
  <1> QED BY <1>1, <1>2, <1>4, <1>5 DEF TensorExchanges, ExpertExchanges

LEMMA EstimateIs ==
    ASSUME NEW s, SplittableOK(s), NEW node, node.bandwidth \in Nat, NEW link,
           link.gbps \in Nat, link.p2p \in Nat, link.latency \in Nat,
           NEW c, Legal(c, s), NEW batch \in Nat \ {0}
    PROVE  EstimatedStepSeconds(s, node, link, c, batch) \in Nat
  <1> DEFINE a == ComputeSeconds(s, node, c, batch)
             t == LinkSeconds(TensorBytes(s, c.tp, batch), link.gbps, TensorExchanges(s, c.tp), link.latency)
             p == LinkSeconds(PipelineBytes(s, c.pp, batch), link.p2p, c.pp - 1, link.latency)
             e == LinkSeconds(ExpertBytes(s, c.ep, batch), link.p2p, ExpertExchanges(s, c.ep), link.latency)
  <1>1. a \in Nat
    BY ComputeIs
  <1>2. c.tp \in Nat \ {0} /\ c.pp \in Nat \ {0} /\ c.ep \in Nat \ {0}
    BY SplitNumbers
  <1>3. t \in Nat
    <2>1. TensorBytes(s, c.tp, batch) \in Nat /\ TensorExchanges(s, c.tp) \in Nat
      BY <1>2, TrafficIs
    <2> QED BY <2>1, LinkIs
  <1>4. p \in Nat
    <2>1. PipelineBytes(s, c.pp, batch) \in Nat /\ c.pp - 1 \in Nat
      BY <1>2, TrafficIs
    <2> QED BY <2>1, LinkIs
  <1>5. e \in Nat
    <2>1. ExpertBytes(s, c.ep, batch) \in Nat /\ ExpertExchanges(s, c.ep) \in Nat
      BY <1>2, TrafficIs
    <2> QED BY <2>1, LinkIs
  <1>6. \/ EstimatedStepSeconds(s, node, link, c, batch) = a + 0
        \/ EstimatedStepSeconds(s, node, link, c, batch) = a + (t + p + e)
    BY DEF EstimatedStepSeconds
  <1> HIDE DEF a, t, p, e
  <1> QED BY <1>1, <1>3, <1>4, <1>5, <1>6

Kinds == {"single_node", "expert", "hybrid", "tensor", "pipeline"}

LEMMA KindIs ==
    ASSUME NEW c, NEW s, Legal(c, s)
    PROVE  /\ KindOf(c) \in Kinds
           /\ KindOf(c) = "single_node" => c.tp * c.pp * c.dp = 1
  BY DEF KindOf, Kinds

LEMMA RankIs == ASSUME NEW kind \in Kinds, NEW f PROVE FamilyRank(kind, f) \in Int
  BY DEF FamilyRank, Kinds

(* What the planner has to go on, as it made it.                           *)
Known(f) ==
    /\ SplittableOK(f.shape) /\ f.seqs \in Nat \ {0} /\ f.least \in Int
    /\ f.link.gbps \in Nat /\ f.link.p2p \in Nat /\ f.link.latency \in Nat
    /\ \E G : f.group \in Seq(G) /\ f.group # << >> /\ \A n \in G : n.ceiling \in Nat /\ n.bandwidth \in Nat /\ n.gpus \in Nat

LEMMA KnownIs ==
    ASSUME NEW f, Known(f)
    PROVE  /\ Exemplar(f.group).bandwidth \in Nat /\ Exemplar(f.group).gpus \in Nat
           /\ Len(f.group) \in Nat \ {0} /\ DOMAIN f.group = 1 .. Len(f.group)
           /\ \A i \in DOMAIN f.group : f.group[i].gpus \in Nat
  <1>1. PICK G : f.group \in Seq(G) /\ f.group # << >>
                 /\ \A n \in G : n.ceiling \in Nat /\ n.bandwidth \in Nat /\ n.gpus \in Nat
    BY DEF Known
  <1>2. Exemplar(f.group) \in G
    BY <1>1, ExemplarIs
  <1>3. Len(f.group) \in Nat /\ DOMAIN f.group = 1 .. Len(f.group) /\ Len(f.group) >= 1
        /\ \A i \in DOMAIN f.group : f.group[i] \in G
    BY <1>1, MembersOf
  <1> QED BY <1>1, <1>2, <1>3

LEMMA FactsKnown ==
    ASSUME NEW q, PlanAskOK(q)
    PROVE  Known(Facts(q))
  <1> DEFINE f == Facts(q)
  <1>1. /\ f.shape = q.shape /\ f.link = q.link /\ f.seqs = q.seqs /\ f.least \in Int
        /\ f.group \in Seq(ToSet(q.nodes)) /\ f.group # << >>
    BY FactsAre
  <1>2. /\ SplittableOK(q.shape) /\ q.seqs \in Nat \ {0}
        /\ q.link.gbps \in Nat /\ q.link.p2p \in Nat /\ q.link.latency \in Nat
        /\ \A n \in ToSet(q.nodes) : n.ceiling \in Nat /\ n.bandwidth \in Nat /\ n.gpus \in Nat
    BY PlanAskIs, MachinesAre
  <1> HIDE DEF f
  <1>3. Known(f)
    BY <1>1, <1>2 DEF Known
  <1> QED BY <1>3 DEF f

LEMMA ScoredIs ==
    ASSUME NEW f, Known(f), NEW c, Legal(c, f.shape), NEW at \in Nat, NEW s, s = Scored(c, at, f)
    PROVE  /\ s.degrees = c /\ s.kind = KindOf(c)
           /\ s.key \in [1 .. 4 -> Int] /\ s.key[4] = at
  <1> DEFINE world == c.tp * c.pp * c.dp
             estimate == EstimatedStepSeconds(f.shape, Exemplar(f.group), f.link, c, f.seqs)
             seconds == AtMost(Forever, estimate)
             breadth == IF SecondReplicaPossible(f) THEN world ELSE -world
             rank == FamilyRank(KindOf(c), f)
  <1>1. world \in Nat
    BY SplitNumbers
  <1>2. breadth \in Int
    BY <1>1
  <1>3. seconds \in Int
    <2>1. estimate \in Nat
      BY KnownIs, EstimateIs DEF Known
    <2> HIDE DEF estimate
    <2>2. Forever \in Int
      BY DEF Forever
    <2> QED BY <2>1, <2>2, LeastIs
  <1>4. rank \in Int
    BY KindIs, RankIs
  <1>5. s.degrees = c /\ s.kind = KindOf(c) /\ s.key = <<rank, breadth, seconds, at>>
    BY DEF Scored
  <1> HIDE DEF rank, breadth, seconds
  <1>6. s.key \in [1 .. 4 -> Int] /\ s.key[4] = at
    BY <1>2, <1>3, <1>4, <1>5, RowOfFour
  <1> QED BY <1>5, <1>6

(* What is put in order: a row of scored splits, the first on one machine  *)
(* as wide as the GPUs there allow.                                        *)
OfferOK(s, f) ==
    /\ Legal(s.degrees, f.shape)
    /\ s.kind = "single_node" => s.degrees.tp * s.degrees.pp * s.degrees.dp <= AtLeast(1, Exemplar(f.group).gpus)
    /\ s.kind # "single_node" => s.degrees.tp * s.degrees.pp * s.degrees.dp <= Len(f.group)

LEMMA WithinNodeIs ==
    ASSUME NEW f, Known(f), NEW c, Legal(c, f.shape), NEW at \in Nat,
           NEW s, s = Scored(c, at, f), OfferOK(s, f)
    PROVE  OfferOK(WithinNode(s, f), f) /\ WithinNode(s, f).kind = s.kind
  <1> DEFINE gpus == AtLeast(1, Exemplar(f.group).gpus)
             eps == ValidEpDegrees(f.shape, gpus)
             tps == ValidTpDegrees(f.shape, gpus)
             ep == CHOOSE d \in eps : \A e \in eps : e <= d
             tp == CHOOSE d \in tps : \A e \in tps : e <= d
             w == WithinNode(s, f)
  <1>1. /\ DOMAIN s = {"degrees", "kind", "key"}
        /\ gpus \in Nat /\ gpus >= 1 /\ AtLeast(1, gpus) = gpus
    <2>1. gpus \in Int /\ gpus >= 1
      BY KnownIs, LeastIs
    <2>2. AtLeast(1, gpus) = gpus
      BY <2>1 DEF AtLeast
    <2>3. DOMAIN s = {"degrees", "kind", "key"}
      BY DEF Scored
    <2> QED BY <2>1, <2>2, <2>3
  <1>2. SplittableOK(f.shape) /\ ShapeOK(f.shape) /\ f.shape.layers \in Nat \ {0}
    BY ModelIs, ShapeIs DEF Known
  <1> HIDE DEF gpus
  <1>3. ep \in eps /\ ep \in Nat \ {0} /\ (ep > 1 => f.shape.experts % ep = 0)
    <2>1. 1 \in eps /\ \A d \in eps : d \in Nat \ {0} /\ d <= gpus /\ (d > 1 => f.shape.experts % d = 0)
      BY <1>1, <1>2, EpDegreesAre
    <2>2. eps \subseteq 1 .. gpus
      BY <1>1, <2>1
    <2> HIDE DEF eps
    <2>3. ep \in eps
      BY <1>1, <2>1, <2>2, WidestIs
    <2> QED BY <2>1, <2>3
  <1>4. tp \in Nat \ {0} /\ tp <= gpus /\ f.shape.heads % tp = 0 /\ f.shape.kvHeads % tp = 0
    <2>1. 1 \in tps /\ \A d \in tps : d \in Nat \ {0} /\ d <= gpus /\ f.shape.heads % d = 0 /\ f.shape.kvHeads % d = 0
      BY <1>1, <1>2, TpDegreesAre
    <2>2. tps \subseteq 1 .. gpus
      BY <1>1, <2>1
    <2> HIDE DEF tps
    <2>3. tp \in tps
      BY <1>1, <2>1, <2>2, WidestIs
    <2> QED BY <2>1, <2>3
  <1>5. \/ w.degrees = s.degrees
        \/ s.kind = "single_node" /\ w.degrees = Degrees(1, 1, ep, 1)
        \/ s.kind = "single_node" /\ w.degrees = Degrees(tp, 1, 1, 1)
    BY <1>1 DEF WithinNode, gpus
  <1>6. w.kind = s.kind
    BY <1>1 DEF WithinNode
  <1> HIDE DEF ep, tp, w
  <1>7. 1 \in ValidTpDegrees(f.shape, 1) /\ f.shape.heads % 1 = 0 /\ f.shape.kvHeads % 1 = 0
    BY <1>2, TpDegreesAre
  <1>8. Legal(Degrees(1, 1, ep, 1), f.shape) /\ Legal(Degrees(tp, 1, 1, 1), f.shape)
    BY <1>2, <1>3, <1>4, <1>7, DegreesIs DEF Legal
  <1>9. ASSUME w.degrees = s.degrees PROVE OfferOK(w, f)
    BY <1>6, <1>9 DEF OfferOK
  <1>10. ASSUME s.kind = "single_node", w.degrees = Degrees(1, 1, ep, 1) PROVE OfferOK(w, f)
    <2>1. w.degrees.tp * w.degrees.pp * w.degrees.dp = 1
      BY <1>10, DegreesIs
    <2> QED BY <1>1, <1>6, <1>8, <1>10, <2>1 DEF OfferOK, gpus
  <1>11. ASSUME s.kind = "single_node", w.degrees = Degrees(tp, 1, 1, 1) PROVE OfferOK(w, f)
    <2>1. w.degrees.tp * w.degrees.pp * w.degrees.dp = tp
      BY <1>4, <1>11, DegreesIs
    <2> QED BY <1>4, <1>6, <1>8, <1>11, <2>1 DEF OfferOK, gpus
  <1>12. OfferOK(w, f)
    BY <1>5, <1>9, <1>10, <1>11
  <1> QED BY <1>6, <1>12 DEF w

----------------------------------------------------------------------------
(* The splits in order.                                                    *)

(* A sum of numbers none of which is less than one is no less than their   *)
(* number, and of one number it is that number.                            *)
LEMMA SumOverIs ==
    ASSUME NEW n \in Nat, NEW c, DOMAIN c = 1 .. n, \A i \in 1 .. n : c[i] \in Int /\ c[i] >= 1
    PROVE  /\ SumOver(c) \in Int /\ SumOver(c) >= n
           /\ n = 1 => SumOver(c) = c[1]
  <1> DEFINE S == 1 .. n
             one == [i \in S |-> 1]
  <1>1. IsFiniteSet(S) /\ Cardinality(S) = n
    BY FS_Interval
  <1>2. SumOver(c) = SumOf(c, S)
    BY DEF SumOver, SumOf
  <1>3. Summable(c, S) /\ Summable(one, S) /\ \A i \in S : one[i] <= c[i] /\ one[i] = 1
    BY <1>1 DEF Summable
  <1> HIDE DEF one
  <1>4. SumOf(one, S) = 1 * Cardinality(S)
    <2>1. IsFiniteSet(S) /\ 1 \in Int /\ \A i \in S : one[i] = 1
      BY <1>1, <1>3
    <2> HIDE DEF S
    <2> QED BY ONLY <2>1, SumEqual
  <1>5. SumOf(one, S) <= SumOf(c, S) /\ SumOf(c, S) \in Int
    BY <1>3, SumAtMost, SumOne
  <1>6. ASSUME n = 1 PROVE SumOf(c, S) = c[1]
    <2>1. S = {1} /\ S \ {1} = {} /\ 1 \in S
      BY <1>6
    <2> HIDE DEF S
    <2>2. SumOf(c, S) = c[1] + SumOf(c, {})
      <3>1. SumOf(c, S) = c[1] + SumOf(c, S \ {1})
        BY <1>3, <2>1, SumLess
      <3> QED BY <2>1, <3>1
    <2>3. c[1] \in Int /\ SumOf(c, {}) = 0
      BY <1>6, SumNone
    <2> QED BY <2>2, <2>3
  <1> HIDE DEF S
  <1>7. SumOf(c, S) >= n
    BY <1>1, <1>4, <1>5
  <1> QED BY <1>2, <1>5, <1>6, <1>7

LEMMA ScoreIs ==
    ASSUME NEW f, Known(f)
    PROVE  /\ Score(f) \in Seq(ToSet(Score(f))) /\ Score(f) # << >>
           /\ \A i \in DOMAIN Score(f) : OfferOK(Score(f)[i], f)
  <1> DEFINE most == Len(f.group)
             found == EnumerateCandidates(f.shape, most, CapacityFloor(f), CrossNodeEpAllowed(f))
             cands == IF found = << >> THEN <<Degrees(1, 1, 1, 1)>> ELSE found
             scored == {Scored(cands[i], i, f) : i \in DOMAIN cands}
             key == [s \in scored |-> s.key]
             sorted == InOrder(scored, key)
  <1>1. /\ SplittableOK(f.shape) /\ ShapeOK(f.shape) /\ most \in Nat \ {0} /\ f.shape.layers \in Nat \ {0}
        /\ Exemplar(f.group).gpus \in Nat
    BY KnownIs, ModelIs, ShapeIs DEF Known
  <1>2. CapacityFloor(f) \in Int
    BY <1>1 DEF CapacityFloor, Known
  <1> HIDE DEF most
  <1>3. PICK n \in Nat : /\ DOMAIN found = 1 .. n /\ (n = 0 => found = << >>)
                         /\ \A i \in 1 .. n : Split(found[i], f.shape, most)
    BY <1>1, <1>2, CandidatesAre
  <1>4. Split(Degrees(1, 1, 1, 1), f.shape, most)
    <2>1. f.shape.heads % 1 = 0 /\ f.shape.kvHeads % 1 = 0
      BY <1>1, TpDegreesAre
    <2> QED BY <1>1, <2>1, DegreesIs DEF Split, Legal
  <1>5. PICK k \in Nat \ {0} : DOMAIN cands = 1 .. k /\ \A i \in 1 .. k : Split(cands[i], f.shape, most)
    <2> HIDE DEF found
    <2>1. CASE found = << >>
      <3>1. cands = <<Degrees(1, 1, 1, 1)>> /\ DOMAIN cands = 1 .. 1 /\ cands[1] = Degrees(1, 1, 1, 1)
        BY <2>1
      <3>2. \A i \in 1 .. 1 : Split(cands[i], f.shape, most)
        BY <1>4, <3>1
      <3>3. 1 \in Nat \ {0} /\ DOMAIN cands = 1 .. 1
        BY <3>1
      <3> HIDE DEF cands
      <3> QED BY <3>2, <3>3
    <2>2. CASE found # << >>
      <3>1. cands = found /\ n # 0
        BY <1>3, <2>2
      <3>2. n \in Nat \ {0} /\ DOMAIN cands = 1 .. n
        BY <1>3, <3>1
      <3>3. \A i \in 1 .. n : Split(cands[i], f.shape, most)
        BY <1>3, <3>1, Zenon
      <3> HIDE DEF cands
      <3> QED BY <3>2, <3>3
    <2> QED BY <2>1, <2>2
  <1> HIDE DEF cands
  <1>6. \A i \in 1 .. k : /\ Legal(cands[i], f.shape) /\ i \in Nat
                          /\ Scored(cands[i], i, f).key \in [1 .. 4 -> Int] /\ Scored(cands[i], i, f).key[4] = i
                          /\ OfferOK(Scored(cands[i], i, f), f)
    <2> TAKE i \in 1 .. k
    <2> DEFINE c == cands[i]  s == Scored(cands[i], i, f)  world == c.tp * c.pp * c.dp
    <2>1. Legal(c, f.shape) /\ world <= most /\ i \in Nat
      BY <1>5 DEF Split
    <2>2. s.degrees = c /\ s.kind = KindOf(c) /\ s.key \in [1 .. 4 -> Int] /\ s.key[4] = i
      BY <2>1, ScoredIs
    <2>3. KindOf(c) = "single_node" => world = 1
      BY <2>1, KindIs
    <2>4. AtLeast(1, Exemplar(f.group).gpus) \in Int /\ AtLeast(1, Exemplar(f.group).gpus) >= 1
      BY <1>1, LeastIs
    <2>5. OfferOK(s, f)
      <3> HIDE DEF s, c
      <3>1. s.degrees.tp * s.degrees.pp * s.degrees.dp = world
        BY <2>2
      <3> HIDE DEF world
      <3> QED BY <2>1, <2>2, <2>3, <2>4, <3>1 DEF OfferOK, most
    <2> QED BY <2>1, <2>2, <2>5
  <1>7. IsFiniteSet(scored) /\ scored # {}
    <2> DEFINE h == [i \in 1 .. k |-> Scored(cands[i], i, f)]
    <2>1. IsFiniteSet(1 .. k) /\ h = [i \in 1 .. k |-> h[i]]
      BY FS_Interval
    <2>2. IsFiniteSet({h[i] : i \in 1 .. k})
      <3> HIDE DEF h
      <3> QED BY <2>1, FiniteImage
    <2>3. scored = {h[i] : i \in 1 .. k} /\ 1 \in 1 .. k
      BY <1>5
    <2> QED BY <2>2, <2>3
  <1>8. \A s \in scored : \E i \in 1 .. k : s = Scored(cands[i], i, f)
    BY <1>5
  <1> HIDE DEF scored
  <1>9. \A s \in scored : key[s] = s.key
    OBVIOUS
  <1> HIDE DEF key
  <1>10. Keyed(scored, key, 4)
    <2>1. \A s \in scored : key[s] \in [1 .. 4 -> Int]
      BY <1>6, <1>8, <1>9
    <2>2. \A s, t \in scored : key[s] = key[t] => s = t
      <3> SUFFICES ASSUME NEW s \in scored, NEW t \in scored, key[s] = key[t] PROVE s = t
        OBVIOUS
      <3>1. PICK i \in 1 .. k : s = Scored(cands[i], i, f)
        BY <1>8
      <3>2. PICK j \in 1 .. k : t = Scored(cands[j], j, f)
        BY <1>8
      <3>3. i = j
        BY <1>6, <1>9, <3>1, <3>2
      <3> QED BY <3>1, <3>2, <3>3
    <2> QED BY <1>7, <2>1, <2>2 DEF Keyed
  <1>11. /\ sorted \in Seq(scored) /\ DOMAIN sorted = 1 .. Cardinality(scored) /\ Cardinality(scored) \in Nat
         /\ sorted[1] \in scored /\ 1 \in DOMAIN sorted
    BY <1>7, <1>10, OnlyMembers, FirstInRow
  <1> DEFINE m == Cardinality(scored)  w == WithinNode(sorted[1], f)
  <1>12. Score(f) = [sorted EXCEPT ![1] = w]
    BY DEF Score, sorted, key, scored, cands, found, most
  <1> HIDE DEF sorted, m, w
  <1>13. OfferOK(w, f)
    <2>1. PICK i \in 1 .. k : sorted[1] = Scored(cands[i], i, f)
      BY <1>8, <1>11
    <2> QED BY <1>6, <2>1, WithinNodeIs DEF w
  <1>14. \A i \in 1 .. m : sorted[i] \in scored /\ OfferOK(sorted[i], f)
    <2>1. \A i \in 1 .. m : sorted[i] \in scored
      BY <1>11 DEF m
    <2> QED BY <1>6, <1>8, <2>1
  <1>15. sorted \in [1 .. m -> scored] /\ m \in Nat /\ 1 \in 1 .. m
    BY <1>11 DEF m
  <1>16. /\ DOMAIN Score(f) = 1 .. m /\ Score(f) \in [1 .. m -> scored \cup {w}]
         /\ \A i \in 1 .. m : Score(f)[i] = IF i = 1 THEN w ELSE sorted[i]
    BY <1>12, <1>15
  <1>17. \A i \in DOMAIN Score(f) : OfferOK(Score(f)[i], f)
    BY <1>13, <1>14, <1>16
  <1>18. Score(f) \in Seq(scored \cup {w}) /\ Score(f) # << >>
    BY <1>15, <1>16
  <1>19. Score(f) \in Seq(ToSet(Score(f)))
    BY <1>15, <1>16 DEF ToSet
  <1> QED BY <1>17, <1>18, <1>19

----------------------------------------------------------------------------
(* What is answered: every plan divides the model and has the ranks, and   *)
(* one node is said to hold it only when it does.                          *)

(* What is said of one plan.                                               *)
PlanOf(p, s, f) ==
    p.degrees = s.degrees /\ p.kind = s.kind /\ p.nodes = NodesFor(s, f) /\ p.claim = Justification(s, f)

LEMMA RenderedIs ==
    ASSUME NEW scored, NEW f, NEW i \in DOMAIN scored
    PROVE  DOMAIN Rendered(scored, f) = DOMAIN scored /\ PlanOf(Rendered(scored, f)[i], scored[i], f)
  BY DEF Rendered, PlanOf

(* A plan on one machine is put on the first of the group, another on as   *)
(* many of its machines as it has ranks.                                   *)
LEMMA NodesForIs ==
    ASSUME NEW f, Known(f), NEW s
    PROVE  /\ s.kind = "single_node" => /\ NodesFor(s, f) \in Seq(ToSet(f.group)) /\ Len(NodesFor(s, f)) = 1
                                        /\ NodesFor(s, f)[1] = f.group[1]
           /\ s.kind # "single_node" /\ OfferOK(s, f) =>
                 /\ NodesFor(s, f) \in Seq(ToSet(f.group))
                 /\ Len(NodesFor(s, f)) = s.degrees.tp * s.degrees.pp * s.degrees.dp
  <1> DEFINE world == s.degrees.tp * s.degrees.pp * s.degrees.dp
             g == f.group
  <1>1. /\ Len(g) \in Nat \ {0} /\ DOMAIN g = 1 .. Len(g) /\ g \in Seq(ToSet(g))
        /\ \A i \in DOMAIN g : g[i] \in ToSet(g)
    <2>1. PICK G : g \in Seq(G)
      BY DEF Known
    <2> QED BY <2>1, KnownIs DEF ToSet
  <1> HIDE DEF g
  <1>2. ASSUME NEW n \in 1 .. Len(g) PROVE SubSeq(g, 1, n) \in Seq(ToSet(g)) /\ Len(SubSeq(g, 1, n)) = n
                                           /\ SubSeq(g, 1, n)[1] = g[1]
    BY <1>1
  <1>3. ASSUME s.kind = "single_node" PROVE NodesFor(s, f) = SubSeq(g, 1, 1)
    BY <1>3 DEF NodesFor, g
  <1>4. ASSUME s.kind # "single_node", OfferOK(s, f) PROVE NodesFor(s, f) = SubSeq(g, 1, world) /\ world \in 1 .. Len(g)
    <2>1. world \in Nat \ {0} /\ world <= Len(g)
      BY <1>4, SplitNumbers DEF OfferOK, g
    <2>2. NodesFor(s, f) = SubSeq(g, 1, AtMost(Len(g), world))
      BY <1>4 DEF NodesFor, g
    <2> HIDE DEF world
    <2>3. AtMost(Len(g), world) = world
      <3>1. Len(g) \in Int /\ world \in Int /\ world <= Len(g)
        BY <1>1, <2>1
      <3>2. AtMost(Len(g), world) = IF Len(g) <= world THEN Len(g) ELSE world
        BY DEF AtMost
      <3> QED BY <3>1, <3>2
    <2> QED BY <2>1, <2>2, <2>3
  <1> HIDE DEF world
  <1>5. s.kind = "single_node" => /\ NodesFor(s, f) \in Seq(ToSet(g)) /\ Len(NodesFor(s, f)) = 1
                                  /\ NodesFor(s, f)[1] = g[1]
    <2>1. 1 \in 1 .. Len(g)
      BY <1>1
    <2>2. SubSeq(g, 1, 1) \in Seq(ToSet(g)) /\ Len(SubSeq(g, 1, 1)) = 1 /\ SubSeq(g, 1, 1)[1] = g[1]
      BY <1>2, <2>1, Zenon
    <2> QED BY <1>3, <2>2
  <1>6. s.kind # "single_node" /\ OfferOK(s, f) => NodesFor(s, f) \in Seq(ToSet(g)) /\ Len(NodesFor(s, f)) = world
    BY <1>2, <1>4
  <1> QED BY <1>5, <1>6 DEF g, world

(* The operator's own degrees are kept as they are.                        *)
LEMMA OwnIs ==
    ASSUME NEW q, PlanAskOK(q), NEW c, NEW p, p = PlanFor(q, c)
    PROVE  \E f, s : f = Facts([q EXCEPT !.pooled = TRUE]) /\ s.degrees = c /\ PlanOf(p, s, f)
  <1> DEFINE f == Facts([q EXCEPT !.pooled = TRUE])
             kind == IF Len(q.nodes) = 1 THEN "single_node" ELSE KindOf(c)
             scored == Score(f)
             known == {i \in DOMAIN scored : scored[i].degrees = c /\ scored[i].kind = kind}
             extra == [Scored(c, Len(scored) + 1, f) EXCEPT !.kind = kind]
             all == IF known # {} THEN scored ELSE Append(scored, extra)
             at == IF known # {} THEN CHOOSE i \in known : \A j \in known : i <= j ELSE Len(all)
  <1>1. Known(f)
    BY PooledAsk, FactsKnown
  <1>2. p = Rendered(all, f)[at]
    BY DEF PlanFor, PlanFrom, RenderedOwn
  <1> HIDE DEF f, kind
  <1>3. scored \in Seq(ToSet(scored)) /\ DOMAIN scored = 1 .. Len(scored) /\ Len(scored) \in Nat
    <2>1. scored \in Seq(ToSet(scored))
      BY <1>1, ScoreIs
    <2> QED BY <2>1
  <1> HIDE DEF scored
  <1>4. at \in DOMAIN all /\ all[at].degrees = c
    <2>1. CASE known # {}
      <3>1. known \subseteq Nat
        BY <1>3
      <3>2. Min(known) \in known /\ \A j \in known : Min(known) <= j
        BY <2>1, <3>1, LeastOfNaturals
      <3>3. (CHOOSE i \in known : \A j \in known : i <= j) \in known
        BY <3>2
      <3>4. all = scored /\ at \in known
        BY <2>1, <3>3
      <3> HIDE DEF at, all
      <3> QED BY <3>4
    <2>2. CASE known = {}
      <3>1. all = Append(scored, extra) /\ at = Len(all)
        BY <2>2
      <3>2. extra.degrees = c
        BY DEF Scored
      <3> HIDE DEF at, all, extra, known
      <3>3. Len(all) = Len(scored) + 1 /\ all[Len(scored) + 1] = extra /\ DOMAIN all = 1 .. Len(scored) + 1
        BY <1>3, <3>1
      <3> QED BY <1>3, <3>1, <3>2, <3>3
    <2> QED BY <2>1, <2>2
  <1> HIDE DEF all, at
  <1>5. PlanOf(p, all[at], f)
    BY <1>2, <1>4, RenderedIs
  <1> QED BY <1>4, <1>5 DEF f

PlannerInv ==
    /\ planAsk \in PlanRequests
    /\ \/ planAnswer = NoPlans
       \/ planAnswer = Alternatives(planAsk)
       \/ \E c : LegalDegrees(planAsk.shape, c) /\ (c.ep > 1 => planAsk.shape.experts % c.ep = 0)
                 /\ planAnswer = <<PlanFor(planAsk, c)>>

LEMMA PlannerInvHolds == PlanSpec => []PlannerInv
  <1>1. PlanInit => PlannerInv
    BY DEF PlanInit, PlannerInv
  <1>2. PlannerInv /\ [PlanNext]_planVars => PlannerInv'
    <2> SUFFICES ASSUME PlannerInv, [PlanNext]_planVars PROVE PlannerInv'
      OBVIOUS
    <2>1. CASE UNCHANGED planVars
      BY <2>1 DEF PlannerInv, planVars
    <2>2. CASE PlanNext
      <3>1. planAsk' = planAsk /\ planAsk \in PlanRequests
        BY <2>2 DEF PlanNext, PlannerInv
      <3>2. CASE planAnswer' = Alternatives(planAsk)
        BY <3>1, <3>2 DEF PlannerInv
      <3>3. CASE \E tp, pp \in {1, 2}, ep \in {1, 4} :
                    LET c == Degrees(tp, pp, ep, ep) IN
                    LegalDegrees(planAsk.shape, c) /\ planAnswer' = <<PlanFor(planAsk, c)>>
        <4>1. PICK c : LegalDegrees(planAsk.shape, c) /\ planAnswer' = <<PlanFor(planAsk, c)>>
          BY <3>3
        <4>2. c.ep > 1 => planAsk.shape.experts % c.ep = 0
          BY <4>1 DEF LegalDegrees
        <4> QED BY <3>1, <4>1, <4>2 DEF PlannerInv
      <3> QED BY <2>2, <3>2, <3>3 DEF PlanNext
    <2> QED BY <2>1, <2>2
  <1> QED BY <1>1, <1>2, PTL DEF PlanSpec

(* Every plan there is was made of a scored split, by what was known.      *)
LEMMA PlansAre ==
    ASSUME PlannerInv, NEW p \in Plans
    PROVE  /\ PlanAskOK(planAsk)
           /\ \E f, s : /\ PlanOf(p, s, f)
                        /\ \/ f = Facts(planAsk) /\ OfferOK(s, f)
                           \/ /\ f = Facts([planAsk EXCEPT !.pooled = TRUE]) /\ Len(planAnswer) = 1
                              /\ LegalDegrees(planAsk.shape, s.degrees)
                              /\ s.degrees.ep > 1 => planAsk.shape.experts % s.degrees.ep = 0
  <1>1. PlanAskOK(planAsk)
    BY PlanAskAssumption DEF PlannerInv
  <1>2. PICK i \in DOMAIN planAnswer : p = planAnswer[i]
    BY DEF Plans
  <1>3. CASE planAnswer = NoPlans
    BY <1>2, <1>3 DEF NoPlans
  <1>4. CASE planAnswer = Alternatives(planAsk)
    <2> DEFINE f == Facts(planAsk)  scored == Score(f)
    <2>1. planAnswer = Rendered(scored, f)
      BY <1>4 DEF Alternatives, AlternativesFrom
    <2>2. DOMAIN Rendered(scored, f) = DOMAIN scored
      BY DEF Rendered
    <2>3. i \in DOMAIN scored /\ PlanOf(p, scored[i], f)
      BY <1>2, <2>1, <2>2, RenderedIs
    <2>4. OfferOK(scored[i], f)
      BY <1>1, <2>3, FactsKnown, ScoreIs
    <2> QED BY <1>1, <2>3, <2>4
  <1>5. CASE \E c : LegalDegrees(planAsk.shape, c) /\ (c.ep > 1 => planAsk.shape.experts % c.ep = 0)
                    /\ planAnswer = <<PlanFor(planAsk, c)>>
    <2>1. PICK c : LegalDegrees(planAsk.shape, c) /\ (c.ep > 1 => planAsk.shape.experts % c.ep = 0)
                   /\ planAnswer = <<PlanFor(planAsk, c)>>
      BY <1>5
    <2>2. i = 1 /\ p = PlanFor(planAsk, c) /\ Len(planAnswer) = 1
      BY <1>2, <2>1
    <2>3. PICK f, s : f = Facts([planAsk EXCEPT !.pooled = TRUE]) /\ s.degrees = c /\ PlanOf(p, s, f)
      BY <1>1, <2>2, OwnIs
    <2> QED BY <1>1, <2>1, <2>2, <2>3
  <1> QED BY <1>3, <1>4, <1>5 DEF PlannerInv

(* What a plan has to run on.                                              *)
LEMMA RanksAreHeld ==
    ASSUME NEW q, PlanAskOK(q), NEW f, f = Facts(q), NEW s, OfferOK(s, f), NEW p, PlanOf(p, s, f)
    PROVE  LET ranks == p.degrees.tp * p.degrees.pp * p.degrees.dp
           IN  /\ IF q.pooled /\ p.kind = "single_node" THEN ranks <= AtLeast(1, Exemplar(q.nodes).gpus)
                  ELSE ranks <= SumOver([i \in DOMAIN p.nodes |-> AtLeast(1, p.nodes[i].gpus)])
               /\ q.pooled \/ \A m, n \in ToSet(p.nodes) : m.model = n.model
  <1> DEFINE ranks == p.degrees.tp * p.degrees.pp * p.degrees.dp
             c == [i \in DOMAIN p.nodes |-> AtLeast(1, p.nodes[i].gpus)]
  <1>1. /\ Known(f) /\ f.group \in Seq(ToSet(q.nodes)) /\ f.group # << >>
        /\ (q.pooled => f.group = q.nodes) /\ (~q.pooled => \A m, n \in ToSet(f.group) : m.model = n.model)
        /\ Exemplar(f.group) \in ToSet(f.group)
    BY FactsAre, FactsKnown
  <1>2. /\ p.kind = s.kind /\ p.nodes = NodesFor(s, f)
        /\ ranks = s.degrees.tp * s.degrees.pp * s.degrees.dp
    BY DEF PlanOf
  <1>3. /\ \A n \in ToSet(q.nodes) : n.gpus \in Nat
        /\ \A m, n \in ToSet(q.nodes) : m.model = n.model => m.gpus = n.gpus
    BY PlanAskIs, MachinesAre
  <1>4. ToSet(f.group) \subseteq ToSet(q.nodes) /\ f.group[1] \in ToSet(f.group)
    BY <1>1, MembersOf
  <1>5. /\ p.nodes \in Seq(ToSet(f.group))
        /\ p.kind = "single_node" => Len(p.nodes) = 1 /\ p.nodes[1] = f.group[1]
        /\ p.kind # "single_node" => Len(p.nodes) = ranks
    BY <1>1, <1>2, NodesForIs
  <1>6. ToSet(p.nodes) \subseteq ToSet(f.group) /\ DOMAIN p.nodes = 1 .. Len(p.nodes) /\ Len(p.nodes) \in Nat
        /\ \A i \in DOMAIN p.nodes : p.nodes[i] \in ToSet(f.group)
    BY <1>5, MembersOf
  <1>7. q.pooled \/ \A m, n \in ToSet(p.nodes) : m.model = n.model
    BY <1>1, <1>6
  <1> HIDE DEF ranks
  <1>8. SumOver(c) >= Len(p.nodes) /\ SumOver(c) \in Int /\ (Len(p.nodes) = 1 => SumOver(c) = c[1])
    <2>1. \A i \in 1 .. Len(p.nodes) : c[i] \in Int /\ c[i] >= 1
      <3> TAKE i \in 1 .. Len(p.nodes)
      <3>1. p.nodes[i].gpus \in Int
        BY <1>3, <1>4, <1>6
      <3>2. c[i] = AtLeast(1, p.nodes[i].gpus)
        BY <1>6
      <3> HIDE DEF c
      <3> QED BY <3>1, <3>2, LeastIs
    <2>2. DOMAIN c = 1 .. Len(p.nodes)
      BY <1>6
    <2> HIDE DEF c
    <2> QED BY <1>6, <2>1, <2>2, SumOverIs
  <1>9. ASSUME p.kind = "single_node" PROVE ranks <= AtLeast(1, Exemplar(f.group).gpus)
    BY <1>2, <1>9 DEF OfferOK
  <1>10. ASSUME p.kind = "single_node", ~q.pooled PROVE ranks <= SumOver(c)
    <2>1. p.nodes[1].gpus = Exemplar(f.group).gpus
      BY <1>1, <1>3, <1>4, <1>5, <1>10
    <2>2. c[1] = AtLeast(1, Exemplar(f.group).gpus)
      BY <1>5, <1>6, <1>10, <2>1
    <2> HIDE DEF c
    <2> QED BY <1>5, <1>8, <1>9, <1>10, <2>2
  <1>11. ASSUME p.kind # "single_node" PROVE ranks <= SumOver(c)
    BY <1>5, <1>6, <1>8, <1>11
  <1>12. IF q.pooled /\ p.kind = "single_node" THEN ranks <= AtLeast(1, Exemplar(q.nodes).gpus)
         ELSE ranks <= SumOver(c)
    BY <1>1, <1>9, <1>10, <1>11
  <1> QED BY <1>7, <1>12 DEF ranks

LEMMA EveryPlanRuns == ASSUME PlannerInv PROVE PlansRunnable
  <1> SUFFICES ASSUME NEW p \in Plans
               PROVE  /\ planAsk.shape.heads % p.degrees.tp = 0 /\ planAsk.shape.kvHeads % p.degrees.tp = 0
                      /\ p.degrees.pp <= planAsk.shape.layers
                      /\ p.degrees.ep > 1 => planAsk.shape.experts % p.degrees.ep = 0
                      /\ Len(planAnswer) > 1 =>
                          /\ RanksHeld(p)
                          /\ planAsk.pooled \/ \A m, n \in ToSet(p.nodes) : m.model = n.model
    BY DEF PlansRunnable
  <1>1. PICK f, s : /\ PlanOf(p, s, f)
                    /\ \/ f = Facts(planAsk) /\ OfferOK(s, f)
                       \/ /\ f = Facts([planAsk EXCEPT !.pooled = TRUE]) /\ Len(planAnswer) = 1
                          /\ LegalDegrees(planAsk.shape, s.degrees)
                          /\ s.degrees.ep > 1 => planAsk.shape.experts % s.degrees.ep = 0
    BY PlansAre
  <1>2. PlanAskOK(planAsk) /\ p.degrees = s.degrees
    BY <1>1, PlansAre DEF PlanOf
  <1>3. CASE f = Facts(planAsk) /\ OfferOK(s, f)
    <2>1. f.shape = planAsk.shape
      BY <1>2, <1>3, FactsAre
    <2>2. RanksHeld(p) /\ (planAsk.pooled \/ \A m, n \in ToSet(p.nodes) : m.model = n.model)
      BY <1>1, <1>2, <1>3, RanksAreHeld DEF RanksHeld
    <2> QED BY <1>2, <1>3, <2>1, <2>2 DEF OfferOK, Legal
  <1>4. CASE /\ Len(planAnswer) = 1 /\ LegalDegrees(planAsk.shape, s.degrees)
             /\ s.degrees.ep > 1 => planAsk.shape.experts % s.degrees.ep = 0
    BY <1>2, <1>4 DEF LegalDegrees
  <1> QED BY <1>1, <1>3, <1>4

(* A plan on one machine that is said to hold the model: it is the least   *)
(* of the group that does, and the first has no less.                      *)
LEMMA OneMachineHolds ==
    ASSUME NEW q, PlanAskOK(q), NEW f, f = Facts(q), f.least = 1
    PROVE  Total(MemoryBreakdown(q.shape, Degrees(1, 1, 1, 1), q.context, q.seqs, q.kv, 0)) <= f.group[1].ceiling
  <1> DEFINE r == Sized(q)  u == Exemplar(f.group).ceiling  b(plan) == MemoryBreakdown(q.shape, plan, q.context, q.seqs, q.kv, 0)
  <1>1. /\ f.group \in Seq(ToSet(q.nodes)) /\ f.group # << >> /\ 1 = MinNodesRequired(r, u)
        /\ Exemplar(f.group) \in ToSet(f.group) /\ \A i \in DOMAIN f.group : u <= f.group[i].ceiling
    BY FactsAre
  <1>2. HeldBy(r, 1, u)
    <2> HIDE DEF r, u
    <2> QED BY <1>1, FewestIs
  <1>3. PICK plan \in CandidateShards(1, r.shape) : FitsAt([r EXCEPT !.plan = plan], r.context, r.seqs, u)
    BY <1>2 DEF HeldBy
  <1>4. plan = [tp |-> 1, pp |-> 1, ep |-> 1, dp |-> 1, nodes |-> << >>]
    <2>1. PICK tp \in 1 .. 1 : plan = [tp |-> tp, pp |-> 1 \div tp, ep |-> 1, dp |-> 1, nodes |-> << >>]
      BY <1>3 DEF CandidateShards
    <2>2. tp = 1 /\ 1 \div tp = 1
      BY <2>1
    <2> QED BY <2>1, <2>2
  <1>5. Total(b(plan)) <= u
    BY <1>3 DEF FitsAt, Sized
  <1>6. b(plan) = b(Degrees(1, 1, 1, 1))
    BY <1>4, DegreesIs DEF MemoryBreakdown, WeightBytesPerRank, HeadSplit, CommBufferBytes, WorldSize
  <1>7. 1 \in DOMAIN f.group /\ f.group[1] \in ToSet(q.nodes) /\ Exemplar(f.group) \in ToSet(q.nodes)
    <2>1. ToSet(f.group) \subseteq ToSet(q.nodes)
      BY <1>1, MembersOf
    <2> QED BY <1>1, <2>1, MembersOf
  <1>8. u \in Int /\ f.group[1].ceiling \in Int /\ u <= f.group[1].ceiling
    BY <1>1, <1>7, PlanAskIs, MachinesAre
  <1>9. Total(b(Degrees(1, 1, 1, 1))) \in Int
    <2>1. ShapeOK(q.shape) /\ q.context \in Nat /\ q.seqs \in Nat /\ 0 \in Nat
      BY PlanAskIs
    <2>2. SplitOK(Degrees(1, 1, 1, 1))
      BY DegreesIs DEF SplitOK
    <2> DEFINE t == b(Degrees(1, 1, 1, 1))
    <2>3. /\ t.weights \in Nat /\ t.kv \in Nat /\ t.activations \in Nat /\ t.comm \in Nat /\ t.replicated \in Nat
          /\ t.framework \in Nat
          /\ Total(t) = t.weights + t.kv + t.activations + t.comm + t.replicated + t.framework
      <3> HIDE DEF t
      <3> QED BY <2>1, <2>2, BreakdownIs DEF t
    <2> HIDE DEF t
    <2> QED BY <2>3 DEF t
  <1> HIDE DEF b, u
  <1>10. Total(b(Degrees(1, 1, 1, 1))) <= f.group[1].ceiling
    BY <1>5, <1>6, <1>8, <1>9
  <1> QED BY <1>10 DEF b

LEMMA OneNodeIsEnough == ASSUME PlannerInv PROVE OneNodeHolds
  <1> SUFFICES ASSUME NEW p \in Plans, p.kind = "single_node", p.claim = "one node holds it"
               PROVE  Total(MemoryBreakdown(planAsk.shape, Degrees(1, 1, 1, 1), planAsk.context, planAsk.seqs,
                                            planAsk.kv, 0)) <= p.nodes[1].ceiling
    BY DEF OneNodeHolds
  <1>1. PICK f, s : PlanOf(p, s, f) /\ (f = Facts(planAsk) \/ f = Facts([planAsk EXCEPT !.pooled = TRUE]))
    BY PlansAre
  <1>2. PlanAskOK(planAsk)
    BY PlansAre
  <1>3. PICK q : /\ PlanAskOK(q) /\ f = Facts(q) /\ q.shape = planAsk.shape /\ q.context = planAsk.context
                 /\ q.seqs = planAsk.seqs /\ q.kv = planAsk.kv
    BY <1>1, <1>2, PooledAsk
  <1>4. Known(f) /\ f.least \in Int
    BY <1>3, FactsKnown, FactsAre
  <1>5. f.least = 1
    <2>1. s.kind = "single_node" /\ Justification(s, f) = "one node holds it"
      BY <1>1 DEF PlanOf
    <2>2. ~CapacityImpossible(f) /\ ~(f.least > 1)
      BY <2>1 DEF Justification
    <2>3. ~(f.least < 1) /\ ~(f.least > 1)
      BY <2>2 DEF CapacityImpossible
    <2> DEFINE n == f.least
    <2>4. n \in Int /\ ~(n < 1) /\ ~(n > 1)
      BY <1>4, <2>3
    <2> HIDE DEF n
    <2>5. n = 1
      BY ONLY <2>4
    <2> QED BY <2>5 DEF n
  <1>6. p.nodes[1] = f.group[1]
    BY <1>1, <1>4, NodesForIs DEF PlanOf
  <1>7. Total(MemoryBreakdown(q.shape, Degrees(1, 1, 1, 1), q.context, q.seqs, q.kv, 0)) <= f.group[1].ceiling
    BY <1>3, <1>5, OneMachineHolds
  <1> QED BY <1>3, <1>6, <1>7

----------------------------------------------------------------------------
(* The bridge: it never asks for fewer nodes than the gate.                *)

LEMMA CeilIs ==
    ASSUME NEW a \in Nat, NEW d \in Nat \ {0}
    PROVE  CeilDiv(a, d) \in Nat /\ a <= d * CeilDiv(a, d) /\ a \div d <= CeilDiv(a, d)
  <1> DEFINE x == a + d - 1  q == x \div d  r == x % d
  <1>1. x \in Nat
    OBVIOUS
  <1> HIDE DEF x
  <1>2. q \in Nat /\ r \in 0 .. d - 1 /\ x = d * q + r
    BY <1>1, Divides
  <1> HIDE DEF q, r
  <1>3. a <= d * q
    <2>1. d * q \in Int
      BY <1>2
    <2> DEFINE dq == d * q
    <2>2. dq \in Int /\ x = dq + r
      BY <1>2, <2>1
    <2> HIDE DEF dq
    <2>3. a <= dq
      BY <1>2, <2>2 DEF x
    <2> QED BY <2>3 DEF dq
  <1>4. a \div d <= q
    BY <1>2, <1>3, FloorBound
  <1>5. CeilDiv(a, d) = q
    BY DEF CeilDiv, q, x
  <1> QED BY <1>2, <1>3, <1>4, <1>5

(* Past a machine for every layer a stage is one layer all the same.       *)
LEMMA OneLayerStage ==
    ASSUME NEW l \in Nat \ {0}, NEW n \in Nat, l <= n
    PROVE  CeilDiv(l, n) = 1
  <1> DEFINE q == CeilDiv(l, n)  x == l + n - 1  r == x % n
  <1>1. x \in Nat /\ n \in Nat \ {0}
    OBVIOUS
  <1>2. q \in Nat /\ r \in 0 .. n - 1 /\ x = n * q + r
    BY <1>1, Divides DEF CeilDiv
  <1>3. x >= n /\ x < 2 * n
    OBVIOUS
  <1> HIDE DEF q, x, r
  <1>4. ASSUME q = 0 PROVE FALSE
    BY <1>1, <1>2, <1>3, <1>4
  <1>5. ASSUME q >= 2 PROVE FALSE
    <2>1. n * 2 <= n * q
      BY <1>2, <1>5, TimesGrows
    <2> DEFINE p == n * q
    <2>2. n * 2 <= p /\ x = p + r /\ p \in Int
      BY <1>2, <2>1
    <2> HIDE DEF p
    <2> QED BY <1>1, <1>2, <1>3, <2>2
  <1>6. q \in Int /\ ~(q < 1) /\ ~(q > 1)
    BY <1>2, <1>4, <1>5
  <1>7. q = 1
    BY ONLY <1>6
  <1> QED BY <1>7 DEF q

(* What a pipeline of n stages is charged for its weights and its cache,   *)
(* and for the rest.                                                       *)
BridgeCache(s, context, seqs, kv) ==
    (IF kv \in DOMAIN KvBytes THEN KvBytes[kv] ELSE 2) * Heads(s)
        * (IF s.mla = 0 /\ s.window > 0 /\ s.full >= 0 THEN CachedLayerTokens(s, context) ELSE s.layers * context) * seqs
BridgeComm(s, n) == IF n = 1 THEN 0 ELSE CommBuffer + IF IsMoe(s) THEN EpBuffer ELSE 0
BridgeHeld(s, context, seqs, kv) == s.params * Halves[s.dtype] + 2 * BridgeCache(s, context, seqs, kv)

LEMMA BridgeUnfolds ==
    ASSUME NEW s, NEW context, NEW seqs, NEW kv, NEW n
    PROVE  BridgeNeeds(s, context, seqs, kv, n) =
               CeilDiv(BridgeHeld(s, context, seqs, kv) * CeilDiv(s.layers, n), 2 * s.layers)
               + s.vocab * seqs * 4 + Chunk * s.hidden * 24 + ReplicatedBytes(s) + Overhead + BridgeComm(s, n)
  BY DEF BridgeNeeds, BridgeCache, BridgeComm, BridgeHeld, Heads

LEMMA BridgePartsAre ==
    ASSUME NEW s, ShapeOK(s), NEW context \in Nat, NEW seqs \in Nat \ {0}, NEW kv
    PROVE  /\ BridgeCache(s, context, seqs, kv) \in Nat /\ BridgeHeld(s, context, seqs, kv) \in Nat
           /\ s.params * Halves[s.dtype] \in Nat
           /\ s.vocab * seqs * 4 \in Nat /\ Chunk * s.hidden * 24 \in Nat /\ ReplicatedBytes(s) \in Nat /\ Overhead \in Nat
           /\ kv # "auto" => KvCacheBytes(s, context, seqs, kv) <= BridgeCache(s, context, seqs, kv)
           /\ KvCacheBytes(s, context, seqs, kv) \in Nat
  <1> DEFINE elem == IF kv \in DOMAIN KvBytes THEN KvBytes[kv] ELSE 2
             h == Heads(s)
             t == CachedLayerTokens(s, context)
             most == s.layers * context
             u == IF s.mla = 0 /\ s.window > 0 /\ s.full >= 0 THEN t ELSE most
  <1>1. /\ s.params \in Nat /\ s.vocab \in Nat /\ s.hidden \in Nat /\ s.layers \in Nat \ {0} /\ Halves[s.dtype] \in Nat
        /\ s.window \in Nat /\ s.full \in Int /\ Chunk \in Nat /\ Overhead \in Nat
    BY ShapeIs, TablesAre
  <1>2. h \in Nat /\ t \in Nat /\ most \in Nat /\ elem \in Nat
    <2>1. h \in Nat
      BY TokenIs
    <2>2. t \in Nat
      BY CachedGrows
    <2>3. elem \in Nat
      BY TablesAre
    <2> QED BY <1>1, <2>1, <2>2, <2>3, ProductIs
  <1>3. t <= most
    <2> DEFINE full == IF s.window = 0 THEN s.layers ELSE AtMost(AtLeast(s.full, 0), s.layers)
               rest == s.layers - full
               w == AtMost(s.window, context)
    <2>1. full \in Nat /\ full <= s.layers
      BY <1>1 DEF AtMost, AtLeast
    <2>2. rest \in Nat /\ w \in Nat /\ w <= context
      BY <1>1, <2>1 DEF AtMost
    <2>3. t = full * context + rest * w
      BY DEF CachedLayerTokens
    <2>4. rest * w <= rest * context
      BY <2>2, TimesGrows
    <2>5. full * context + rest * context = s.layers * context
      <3>1. (full + rest) * context = full * context + rest * context
        BY <1>1, <2>1, <2>2
      <3>2. full + rest = s.layers
        BY <1>1, <2>1
      <3> QED BY <3>1, <3>2
    <2>6. full * context \in Nat /\ rest * w \in Nat /\ rest * context \in Nat
      BY <2>1, <2>2, ProductIs
    <2> DEFINE a == full * context  b == rest * w  c == rest * context
    <2>7. a \in Nat /\ b \in Nat /\ c \in Nat /\ b <= c /\ t = a + b /\ most = a + c
      BY <2>3, <2>4, <2>5, <2>6
    <2> HIDE DEF a, b, c, t, most
    <2> QED BY <2>7
  <1>4. t <= u /\ u \in Nat
    BY <1>2, <1>3
  <1>5. BridgeCache(s, context, seqs, kv) = elem * h * u * seqs
    BY DEF BridgeCache
  <1>6. KvCacheBytes(s, context, seqs, kv) = KvElem(kv, s) * h * t * seqs
    BY TokenIs DEF KvCacheBytes
  <1>7. KvElem(kv, s) \in Nat /\ (kv # "auto" => KvElem(kv, s) = elem)
    <2>1. kv # "auto" => KvElem(kv, s) = elem
      BY PlannerAssumption DEF KvElem
    <2> QED BY <2>1, ElemIs
  <1> HIDE DEF elem, h, t, u
  <1>8. \A e \in Nat : /\ e * h \in Nat /\ e * h * t \in Nat /\ e * h * u \in Nat
                       /\ e * h * t * seqs \in Nat /\ e * h * u * seqs \in Nat
                       /\ e * h * t * seqs <= e * h * u * seqs
    <2> TAKE e \in Nat
    <2> DEFINE x == e * h  y == x * t  z == x * u
    <2>1. x \in Nat
      BY <1>2, ProductIs
    <2> HIDE DEF x
    <2>2. y <= z /\ y \in Nat /\ z \in Nat
      BY <1>2, <1>4, <2>1, ProductLess
    <2> HIDE DEF y, z
    <2>3. y * seqs <= z * seqs /\ y * seqs \in Nat /\ z * seqs \in Nat
      BY <2>2, ProductLess
    <2> QED BY <2>1, <2>2, <2>3 DEF y, z, x
  <1>9. /\ BridgeCache(s, context, seqs, kv) \in Nat /\ KvCacheBytes(s, context, seqs, kv) \in Nat
        /\ kv # "auto" => KvCacheBytes(s, context, seqs, kv) <= BridgeCache(s, context, seqs, kv)
    BY <1>2, <1>5, <1>6, <1>7, <1>8
  <1>10. s.params * Halves[s.dtype] \in Nat
    BY <1>1, ProductIs
  <1>11. BridgeHeld(s, context, seqs, kv) \in Nat
    BY <1>9, <1>10 DEF BridgeHeld
  <1>12. s.vocab * seqs * 4 \in Nat /\ Chunk * s.hidden * 24 \in Nat
    <2>1. s.vocab * seqs \in Nat /\ Chunk * s.hidden \in Nat
      BY <1>1, ProductIs
    <2> QED BY <2>1
  <1>13. ReplicatedBytes(s) \in Nat
    <2>1. SplitOK(Degrees(1, 1, 1, 1)) /\ 0 \in Nat
      BY DegreesIs DEF SplitOK
    <2> QED BY <2>1, WeightsAre
  <1> QED BY <1>1, <1>9, <1>10, <1>11, <1>12, <1>13

(* Parts that are each rounded down are never more together than their sum *)
(* rounded up once.                                                        *)
LEMMA FloorsAdd ==
    ASSUME NEW a \in Nat, NEW b \in Nat, NEW d \in Nat \ {0}, NEW x \in Nat, a + b <= x,
           NEW p \in Nat, NEW q \in Nat, d * p <= a, d * q <= b
    PROVE  p + q <= CeilDiv(x, d) /\ CeilDiv(x, d) \in Nat
  <1> DEFINE c == CeilDiv(x, d)
  <1>1. c \in Nat /\ x <= d * c
    BY CeilIs
  <1> HIDE DEF c
  <1>2. d * p + d * q = d * (p + q)
    OBVIOUS
  <1> DEFINE y == d * p  z == d * q  w == d * (p + q)  v == d * c
  <1>3. y \in Int /\ z \in Int /\ v \in Int /\ y <= a /\ z <= b /\ x <= v /\ w = y + z
    BY <1>1, <1>2
  <1>4. w <= v
    <2> HIDE DEF y, z, w, v
    <2> QED BY <1>3
  <1>5. p + q <= c
    BY <1>1, <1>4, NotMoreThan
  <1> QED BY <1>1, <1>5 DEF c

Pipeline(n) == [tp |-> 1, pp |-> n, ep |-> 1, dp |-> 1, nodes |-> << >>]

LEMMA PipelineIs ==
    ASSUME NEW n \in Nat \ {0}
    PROVE  /\ SplitOK(Pipeline(n)) /\ Pipeline(n).tp = 1 /\ Pipeline(n).pp = n /\ Pipeline(n).ep = 1
           /\ Pipeline(n).dp = 1 /\ WorldSize(Pipeline(n)) = n
  <1>1. /\ Pipeline(n).tp = 1 /\ Pipeline(n).pp = n /\ Pipeline(n).ep = 1 /\ Pipeline(n).dp = 1
    BY DEF Pipeline
  <1>2. WorldSize(Pipeline(n)) = n
    BY <1>1 DEF WorldSize
  <1> QED BY <1>1, <1>2 DEF SplitOK

(* The weights and the cache of a stage.                                   *)
LEMMA StageIs ==
    ASSUME NEW s, ShapeOK(s), NEW context \in Nat, NEW seqs \in Nat \ {0}, NEW kv, kv # "auto",
           NEW n \in Nat \ {0}, NEW b, b = MemoryBreakdown(s, Pipeline(n), context, seqs, kv, 0)
    PROVE  /\ b.weights + b.kv <= CeilDiv(BridgeHeld(s, context, seqs, kv) * CeilDiv(s.layers, n), 2 * s.layers)
           /\ CeilDiv(BridgeHeld(s, context, seqs, kv) * CeilDiv(s.layers, n), 2 * s.layers) \in Nat
  <1> DEFINE plan == Pipeline(n)
             w == (s.params - Vision(s)) * Halves[s.dtype]  all == s.params * Halves[s.dtype]
             k == KvCacheBytes(s, context, seqs, kv)  c == BridgeCache(s, context, seqs, kv)
             t == CeilDiv(s.layers, n)  l == s.layers  held == BridgeHeld(s, context, seqs, kv)
             p == b.weights  q == b.kv
  <1>1. /\ SplitOK(plan) /\ plan.tp = 1 /\ plan.pp = n
    BY PipelineIs
  <1>2. l \in Nat \ {0} /\ s.params \in Nat /\ Halves[s.dtype] \in Nat /\ s.vision \in Nat /\ s.kvHeads \in Nat \ {0}
    BY ShapeIs
  <1>3. t \in Nat /\ Busiest(s, plan.pp) = t
    <2>1. Busiest(s, plan.pp) = t
      BY <1>1 DEF Busiest
    <2> QED BY <1>1, <2>1, BusiestIs
  <1>4. w \in Nat /\ all \in Nat /\ w <= all
    <2>1. s.params - Vision(s) \in Nat /\ s.params - Vision(s) <= s.params
      BY <1>2 DEF Vision, AtMost
    <2> QED BY <1>2, <2>1, ProductLess
  <1>5. k \in Nat /\ c \in Nat /\ k <= c /\ held = all + 2 * c
    <2>1. held = all + 2 * c
      BY DEF BridgeHeld
    <2> QED BY <2>1, BridgePartsAre
  <1>6. HeadSplit(s, plan) = 1
    BY <1>1, <1>2 DEF HeadSplit, AtMost
  <1>7. p = (w * t) \div (2 * l * 1) /\ q = (k * t) \div (l * 1)
    <2>1. WeightBytesPerRank(s, plan, 0) = (w * t) \div (2 * l * 1)
      BY <1>1, <1>3 DEF WeightBytesPerRank
    <2>2. KvShare(s, plan, context, seqs, kv) = (k * t) \div (l * 1)
      BY <1>3, <1>6 DEF KvShare
    <2>3. p = WeightBytesPerRank(s, plan, 0) /\ q = KvShare(s, plan, context, seqs, kv)
      <3>1. 0 \in Nat /\ seqs \in Nat
        OBVIOUS
      <3> QED BY <1>1, <3>1, BreakdownIs
    <2> QED BY <2>1, <2>2, <2>3
  <1> HIDE DEF w, all, k, c, t, l, held, p, q
  <1>8. 2 * l * 1 = 2 * l /\ l * 1 = l /\ 2 * l \in Nat \ {0}
    BY <1>2
  <1>9. w * t \in Nat /\ k * t \in Nat /\ all * t \in Nat /\ c * t \in Nat /\ w * t <= all * t /\ k * t <= c * t
    BY <1>3, <1>4, <1>5, ProductLess
  <1>10. p \in Nat /\ (2 * l) * p <= w * t
    BY <1>7, <1>8, <1>9, Divides
  <1>11. q \in Nat /\ l * q <= k * t
    BY <1>2, <1>7, <1>8, <1>9, Divides
  <1>12. (2 * l) * q <= 2 * (k * t)
    <2>1. (2 * l) * q = 2 * (l * q) /\ l * q \in Int
      BY <1>2, <1>11
    <2> QED BY <1>9, <1>11, <2>1
  <1>13. held * t = all * t + 2 * (c * t)
    <2>1. (all + 2 * c) * t = all * t + 2 * (c * t)
      BY <1>3, <1>4, <1>5
    <2> QED BY <1>5, <2>1
  <1>14. held * t \in Nat /\ w * t + 2 * (k * t) <= held * t
    BY <1>9, <1>13
  <1>15. 2 * (k * t) \in Nat
    BY <1>9
  <1>16. p + q <= CeilDiv(held * t, 2 * l) /\ CeilDiv(held * t, 2 * l) \in Nat
    BY <1>8, <1>9, <1>10, <1>11, <1>12, <1>14, <1>15, FloorsAdd
  <1> QED BY <1>16 DEF p, q, held, t, l

(* A pipeline that the bridge finds room for, the gate does too.           *)
LEMMA BridgeFits ==
    ASSUME NEW s, ShapeOK(s), NEW context \in Nat, NEW seqs \in Nat \ {0}, NEW kv, kv # "auto",
           NEW n \in Nat \ {0}, NEW ceiling \in Int, BridgeNeeds(s, context, seqs, kv, n) <= ceiling
    PROVE  Total(MemoryBreakdown(s, Pipeline(n), context, seqs, kv, 0)) <= ceiling
  <1> DEFINE b == MemoryBreakdown(s, Pipeline(n), context, seqs, kv, 0)
             stage == CeilDiv(BridgeHeld(s, context, seqs, kv) * CeilDiv(s.layers, n), 2 * s.layers)
             v == s.vocab * seqs * 4  h == Chunk * s.hidden * 24
  <1>1. SplitOK(Pipeline(n)) /\ Pipeline(n).ep = 1 /\ WorldSize(Pipeline(n)) = n
    BY PipelineIs
  <1>2. b.weights + b.kv <= stage /\ stage \in Nat
    BY StageIs
  <1>3. b.activations <= v + h
    <2> DEFINE x == AtMost(Chunk, AtLeast(1, context))
    <2>1. s.vocab \in Nat /\ s.hidden \in Nat /\ Chunk \in Nat
      BY ShapeIs, TablesAre
    <2>2. x \in Nat /\ x <= Chunk
      BY <2>1 DEF AtMost, AtLeast
    <2>3. AtLeast(1, seqs) = seqs
      BY DEF AtLeast
    <2>4. ActivationBytes(s, seqs, context) = s.vocab * seqs * 4 + x * s.hidden * 24
      BY <2>3 DEF ActivationBytes
    <2>5. x * s.hidden <= Chunk * s.hidden /\ x * s.hidden \in Nat /\ Chunk * s.hidden \in Nat
      <3> HIDE DEF x
      <3> QED BY <2>1, <2>2, ProductLess
    <2>6. s.vocab * seqs \in Nat
      BY <2>1, ProductIs
    <2>7. b.activations = ActivationBytes(s, seqs, context)
      BY DEF MemoryBreakdown
    <2> DEFINE y == x * s.hidden  z == Chunk * s.hidden  o == s.vocab * seqs
    <2>8. y \in Nat /\ z \in Nat /\ o \in Nat /\ y <= z /\ b.activations = o * 4 + y * 24 /\ v = o * 4 /\ h = z * 24
      BY <2>4, <2>5, <2>6, <2>7
    <2> HIDE DEF y, z, o, v, h, b
    <2> QED BY <2>8
  <1>4. b.comm <= BridgeComm(s, n) /\ BridgeComm(s, n) \in Nat
    <2>1. b.comm = CommBufferBytes(Pipeline(n))
      BY DEF MemoryBreakdown
    <2>2. CommBufferBytes(Pipeline(n)) = IF n <= 1 THEN 0 ELSE CommBuffer + 0
      BY <1>1 DEF CommBufferBytes
    <2>3. CommBuffer \in Nat /\ EpBuffer \in Nat
      BY TablesAre
    <2> DEFINE e == IF IsMoe(s) THEN EpBuffer ELSE 0
    <2>4. e \in Nat /\ BridgeComm(s, n) = IF n = 1 THEN 0 ELSE CommBuffer + e
      BY <2>3 DEF BridgeComm
    <2> HIDE DEF e, b
    <2> QED BY <2>1, <2>2, <2>3, <2>4
  <1>5. b.replicated = ReplicatedBytes(s) /\ b.framework = Overhead
    BY DEF MemoryBreakdown
  <1>6. BridgeNeeds(s, context, seqs, kv, n) = stage + v + h + ReplicatedBytes(s) + Overhead + BridgeComm(s, n)
    BY BridgeUnfolds
  <1>7. v \in Nat /\ h \in Nat /\ ReplicatedBytes(s) \in Nat /\ Overhead \in Nat
    BY BridgePartsAre
  <1>8. /\ b.weights \in Nat /\ b.kv \in Nat /\ b.activations \in Nat /\ b.comm \in Nat
        /\ Total(b) = b.weights + b.kv + b.activations + b.comm + b.replicated + b.framework
    <2>1. 0 \in Nat /\ seqs \in Nat
      OBVIOUS
    <2> HIDE DEF b
    <2> QED BY <1>1, <2>1, BreakdownIs DEF b
  <1> DEFINE bw == b.weights  bk == b.kv  ba == b.activations  bc == b.comm  re == ReplicatedBytes(s)
             co == BridgeComm(s, n)  need == BridgeNeeds(s, context, seqs, kv, n)  tot == Total(b)
  <1>9. /\ bw \in Nat /\ bk \in Nat /\ ba \in Nat /\ bc \in Nat /\ re \in Nat /\ Overhead \in Nat /\ co \in Nat
        /\ stage \in Nat /\ v \in Nat /\ h \in Nat
        /\ bw + bk <= stage /\ ba <= v + h /\ bc <= co /\ tot = bw + bk + ba + bc + re + Overhead
        /\ need = stage + v + h + re + Overhead + co /\ need <= ceiling
    BY <1>2, <1>3, <1>4, <1>5, <1>6, <1>7, <1>8
  <1>10. tot <= ceiling
    <2> HIDE DEF bw, bk, ba, bc, re, co, need, tot, stage, v, h, b
    <2> QED BY ONLY <1>9, ceiling \in Int
  <1> QED BY <1>10

(* Past one layer a stage the bridge only asks for more.                   *)
LEMMA DeepBridge ==
    ASSUME NEW s, ShapeOK(s), NEW context \in Nat, NEW seqs \in Nat \ {0}, NEW kv,
           NEW n \in Nat \ {0}, s.layers < n
    PROVE  BridgeNeeds(s, context, seqs, kv, s.layers) <= BridgeNeeds(s, context, seqs, kv, n)
  <1> DEFINE l == s.layers  held == BridgeHeld(s, context, seqs, kv)
             stage == CeilDiv(held * 1, 2 * l)
             v == s.vocab * seqs * 4  h == Chunk * s.hidden * 24  re == ReplicatedBytes(s)
             low == BridgeComm(s, l)  high == BridgeComm(s, n)
             small == BridgeNeeds(s, context, seqs, kv, l)  big == BridgeNeeds(s, context, seqs, kv, n)
  <1>1. l \in Nat \ {0}
    BY ShapeIs
  <1>2. CeilDiv(l, l) = 1 /\ CeilDiv(l, n) = 1
    <2>1. l <= l /\ l <= n /\ l \in Nat
      BY <1>1
    <2> HIDE DEF l
    <2> QED BY <1>1, <2>1, OneLayerStage
  <1>3. small = stage + v + h + re + Overhead + low /\ big = stage + v + h + re + Overhead + high
    BY <1>2, BridgeUnfolds
  <1>4. held \in Nat /\ v \in Nat /\ h \in Nat /\ re \in Nat /\ Overhead \in Nat
    BY BridgePartsAre
  <1>5. low \in Nat /\ high \in Nat /\ low <= high
    <2> DEFINE e == IF IsMoe(s) THEN EpBuffer ELSE 0
    <2>1. CommBuffer \in Nat /\ e \in Nat
      BY TablesAre
    <2>2. low = (IF l = 1 THEN 0 ELSE CommBuffer + e) /\ high = (IF n = 1 THEN 0 ELSE CommBuffer + e)
      BY DEF BridgeComm
    <2> HIDE DEF e, low, high
    <2>3. n # 1
      BY <1>1
    <2> QED BY <2>1, <2>2, <2>3
  <1>6. stage \in Nat
    <2>1. held * 1 \in Nat /\ 2 * l \in Nat \ {0}
      BY <1>1, <1>4
    <2> HIDE DEF held, l
    <2> QED BY <2>1, CeilIs
  <1>7. small <= big
    <2> HIDE DEF small, big, stage, v, h, re, low, high, l, held
    <2> QED BY <1>3, <1>4, <1>5, <1>6
  <1> QED BY <1>7

(* The gate asks for no more machines than a pipeline that fits.           *)
LEMMA PipelineCounts ==
    ASSUME NEW q, PlanAskOK(q), NEW n \in 1 .. MaxNodes, n <= q.shape.layers, NEW ceiling \in Int,
           Total(MemoryBreakdown(q.shape, Pipeline(n), q.context, q.seqs, q.kv, 0)) <= ceiling
    PROVE  MinNodesRequired(Sized(q), ceiling) \in 1 .. n
  <1> DEFINE r == Sized(q)
  <1>1. r.shape = q.shape /\ r.context = q.context /\ r.seqs = q.seqs /\ r.kv = q.kv /\ r.weight = 0
    BY DEF Sized
  <1>2. ShapeOK(q.shape) /\ n \in Nat \ {0}
    BY PlanAskIs, TablesAre
  <1>3. /\ n % 1 = 0 /\ n \div 1 = n /\ q.shape.heads % 1 = 0 /\ q.shape.kvHeads % 1 = 0
    <2>1. \A x \in Nat : x % 1 = 0 /\ x \div 1 = x
      BY Divides
    <2> QED BY <1>2, <2>1, ShapeIs
  <1>4. Pipeline(n) \in CandidateShards(n, r.shape)
    <2>1. 1 \in {d \in 1 .. n : /\ n % d = 0 /\ n \div d <= r.shape.layers
                                /\ r.shape.heads % d = 0 /\ r.shape.kvHeads % d = 0}
      BY <1>1, <1>2, <1>3
    <2>2. Pipeline(n) = [tp |-> 1, pp |-> n \div 1, ep |-> 1, dp |-> 1, nodes |-> << >>]
      BY <1>3 DEF Pipeline
    <2> QED BY <2>1, <2>2 DEF CandidateShards
  <1>5. FitsAt([r EXCEPT !.plan = Pipeline(n)], r.context, r.seqs, ceiling)
    <2>1. [r EXCEPT !.plan = Pipeline(n)] = [shape |-> q.shape, kv |-> q.kv, weight |-> 0, context |-> q.context,
                                             seqs |-> q.seqs, plan |-> Pipeline(n)]
      BY DEF Sized
    <2> QED BY <1>1, <2>1 DEF FitsAt
  <1>6. HeldBy(r, n, ceiling)
    <2> HIDE DEF r
    <2> QED BY <1>4, <1>5 DEF HeldBy
  <1> DEFINE m == MinNodesRequired(r, ceiling)
  <1> HIDE DEF r
  <1>7. m \in 1 .. MaxNodes /\ m <= n
    BY <1>6, FewestIs
  <1>8. m \in 1 .. n
    <2> HIDE DEF m
    <2> QED BY <1>7, TablesAre
  <1> QED BY <1>8 DEF m, r

LEMMA BridgeIsConservative == ASSUME PlannerInv PROVE BridgeConservative
  <1> DEFINE q == planAsk  ceiling == q.nodes[1].ceiling
             own == BridgeMinNodes(q.shape, ceiling, q.context, q.seqs, q.kv)
             need(n) == BridgeNeeds(q.shape, q.context, q.seqs, q.kv, n)
             enough == {n \in 1 .. MaxNodes : need(n) <= ceiling}
  <1>1. PlanAskOK(q)
    BY PlanAskAssumption DEF PlannerInv
  <1>2. SUFFICES ASSUME q.kv # "auto", own < MaxNodes PROVE MinNodesRequired(Sized(q), ceiling) \in 1 .. own
    BY DEF BridgeConservative, Sized
  <1>3. ShapeOK(q.shape) /\ q.context \in Nat /\ q.seqs \in Nat \ {0} /\ q.shape.layers \in Nat \ {0}
    BY <1>1, PlanAskIs, ShapeIs
  <1>4. ceiling \in Int
    <2>1. MachinesOK(q.nodes)
      BY <1>1, PlanAskIs
    <2> HIDE DEF q
    <2>2. q.nodes[1] \in ToSet(q.nodes) /\ \A n \in ToSet(q.nodes) : n.ceiling \in Nat
      BY <2>1, MachinesAre, MembersOf
    <2> QED BY <2>2
  <1>5. MaxNodes \in Nat
    BY TablesAre
  <1>6. own = IF enough = {} THEN MaxNodes ELSE CHOOSE n \in enough : \A m \in enough : n <= m
    BY DEF BridgeMinNodes
  <1> HIDE DEF own
  <1>7. enough # {}
    BY <1>2, <1>5, <1>6
  <1>8. own \in enough
    <2>1. enough \subseteq Nat
      BY <1>5
    <2>2. Min(enough) \in enough /\ \A m \in enough : Min(enough) <= m
      <3> HIDE DEF enough
      <3> QED BY <1>7, <2>1, LeastOfNaturals
    <2> HIDE DEF enough
    <2> QED BY <1>6, <1>7, <2>2
  <1>9. own \in 1 .. MaxNodes /\ need(own) <= ceiling /\ own \in Nat \ {0}
    BY <1>5, <1>8
  <1>10. CASE own <= q.shape.layers
    <2>1. Total(MemoryBreakdown(q.shape, Pipeline(own), q.context, q.seqs, q.kv, 0)) <= ceiling
      <3> HIDE DEF q, ceiling
      <3> QED BY <1>2, <1>3, <1>4, <1>9, BridgeFits
    <2> HIDE DEF q, ceiling
    <2> QED BY <1>1, <1>4, <1>9, <1>10, <2>1, PipelineCounts
  <1>11. CASE q.shape.layers < own
    <2> DEFINE l == q.shape.layers
    <2>1. need(l) <= need(own)
      <3> HIDE DEF q, ceiling
      <3> QED BY <1>3, <1>9, <1>11, DeepBridge
    <2>2. need(l) \in Int /\ need(own) \in Int
      <3> SUFFICES ASSUME NEW n \in Nat \ {0} PROVE need(n) \in Int
        BY <1>3, <1>9
      <3> DEFINE stage == CeilDiv(BridgeHeld(q.shape, q.context, q.seqs, q.kv) * CeilDiv(q.shape.layers, n), 2 * q.shape.layers)
                 v == q.shape.vocab * q.seqs * 4  h == Chunk * q.shape.hidden * 24  re == ReplicatedBytes(q.shape)
                 co == BridgeComm(q.shape, n)
      <3> HIDE DEF q, ceiling
      <3>1. stage \in Nat
        BY <1>2, <1>3, StageIs
      <3>2. v \in Nat /\ h \in Nat /\ re \in Nat /\ Overhead \in Nat
        BY <1>3, BridgePartsAre
      <3>3. co \in Nat
        BY TablesAre DEF BridgeComm
      <3>4. need(n) = stage + v + h + re + Overhead + co
        BY BridgeUnfolds
      <3> HIDE DEF stage, v, h, re, co, need
      <3> QED BY <3>1, <3>2, <3>3, <3>4
    <2>3. need(l) <= ceiling
      <3> HIDE DEF need
      <3> QED BY <1>4, <1>9, <2>1, <2>2
    <2>4. Total(MemoryBreakdown(q.shape, Pipeline(l), q.context, q.seqs, q.kv, 0)) <= ceiling
      <3> HIDE DEF q, ceiling
      <3> QED BY <1>2, <1>3, <1>4, <2>3, BridgeFits
    <2>5. l \in 1 .. MaxNodes /\ l <= l /\ l <= own
      BY <1>3, <1>5, <1>9, <1>11
    <2>6. MinNodesRequired(Sized(q), ceiling) \in 1 .. l
      <3> HIDE DEF q, ceiling
      <3> QED BY <1>1, <1>4, <2>4, <2>5, PipelineCounts
    <2> HIDE DEF q, ceiling
    <2> QED BY <1>3, <1>9, <2>5, <2>6
  <1>12. own <= q.shape.layers \/ q.shape.layers < own
    <2> HIDE DEF q
    <2> QED BY <1>3, <1>9
  <1> QED BY <1>10, <1>11, <1>12

(* The planner keeps its promise: every plan it answers with divides the   *)
(* model as a runtime accepts, on machines that have the ranks; one node   *)
(* is said to hold the model only when it does; and its own estimate never *)
(* asks for fewer nodes than the fit gate.                                 *)
THEOREM PlannerKeepsItsPromise == PlanSpec => []PlannerPromise
  <1>1. PlannerInv => PlannerPromise
    BY EveryPlanRuns, OneNodeIsEnough, BridgeIsConservative DEF PlannerPromise
  <1> QED BY <1>1, PlannerInvHolds, PTL

----------------------------------------------------------------------------
(* Capacity: which machines an answer is about, and what is known of them. *)

LEMMA CapacityAskIs ==
    ASSUME NEW q, CapacityAskOK(q)
    PROVE  /\ ShapeOK(q.shape) /\ q.beside \in Seq(ToSet(q.beside)) /\ \A s \in ToSet(q.beside) : ShapeOK(s)
           /\ q.weight \in Nat /\ q.native \in Nat /\ q.context \in Nat /\ q.seqs \in Nat
           /\ q.nodes \in Seq(ToSet(q.nodes))
           /\ \A n \in ToSet(q.nodes) : n.ceiling \in Nat /\ n.host \in Nat /\ n.rank \in Nat /\ n.gpus \in Int
           /\ \A m, n \in ToSet(q.nodes) : (m.id = n.id => m = n) /\ (m.rank = n.rank => m = n)
           /\ \A id \in DOMAIN q.live : q.live[id] \in Int
           /\ q.variants \in Seq([dtype : DOMAIN Halves, bytes : Nat, launchable : BOOLEAN])
  BY DEF CapacityAskOK

LEMMA CapacityTables == MinUseful \in Nat \ {0} /\ FallbackContext \in Nat \ {0}
  BY CapacityAssumption

LEMMA ScopeIs ==
    ASSUME NEW q, CapacityAskOK(q)
    PROVE  /\ Candidates(q) \subseteq ToSet(q.nodes) /\ IsFiniteSet(Candidates(q))
           /\ \A n \in Candidates(q) : q.named # {} => n.id \in q.named
  <1>1. Candidates(q) \subseteq Scoped(q)
    BY DEF Candidates, Gpus
  <1>2. Scoped(q) \subseteq ToSet(q.nodes) /\ \A n \in Scoped(q) : q.named # {} => n.id \in q.named
    BY DEF Scoped
  <1>3. Candidates(q) \subseteq ToSet(q.nodes)
    BY <1>1, <1>2
  <1>4. IsFiniteSet(ToSet(q.nodes)) /\ Candidates(q) \in SUBSET ToSet(q.nodes)
    <2>1. q.nodes \in Seq(ToSet(q.nodes))
      BY CapacityAskIs
    <2>2. IsFiniteSet(ToSet(q.nodes))
      BY <2>1, MembersOf
    <2> QED BY <1>3, <2>2
  <1>5. IsFiniteSet(Candidates(q))
    BY <1>4, FS_Subset
  <1> QED BY <1>1, <1>2, <1>3, <1>5

(* The machine an answer is about: this one if it can be, and otherwise    *)
(* none has more room.                                                     *)
Leads(p, q) ==
    /\ p \in Candidates(q)
    /\ \A n \in Candidates(q) : p.id # q.local => n.id # q.local /\ n.ceiling <= p.ceiling

LEMMA ProfilesAre ==
    ASSUME NEW q, CapacityAskOK(q)
    PROVE  /\ Profiles(q) \in Seq(Candidates(q))
           /\ Profiles(q) # << >> => Leads(Profiles(q)[1], q)
  <1> DEFINE S == Candidates(q)
             key == [n \in S |-> <<IF n.id = q.local THEN 0 ELSE 1, -n.ceiling, n.rank>>]
             row == OrderProfiles(q, S)
  <1>1. S \subseteq ToSet(q.nodes) /\ IsFiniteSet(S)
    BY ScopeIs
  <1>2. \A n \in S : n.ceiling \in Nat /\ n.rank \in Nat
    BY <1>1, CapacityAskIs
  <1>3. \A m, n \in S : m.rank = n.rank => m = n
    BY <1>1, CapacityAskIs
  <1>4. row = InOrder(S, key)
    BY DEF OrderProfiles
  <1> HIDE DEF S, row
  <1>5. \A n \in S : /\ key[n] \in [1 .. 3 -> Int] /\ key[n][1] = (IF n.id = q.local THEN 0 ELSE 1)
                     /\ key[n][2] = -n.ceiling /\ key[n][3] = n.rank
    <2> TAKE n \in S
    <2> DEFINE x == IF n.id = q.local THEN 0 ELSE 1  y == -n.ceiling  z == n.rank
    <2>1. x \in Int /\ y \in Int /\ z \in Int /\ key[n] = <<x, y, z>>
      BY <1>2
    <2> HIDE DEF x, y, z, key
    <2>2. key[n] \in [1 .. 3 -> Int] /\ key[n][1] = x /\ key[n][2] = y /\ key[n][3] = z
      BY <2>1, RowOfThree
    <2> QED BY <2>2 DEF x, y, z
  <1> HIDE DEF key
  <1>6. Keyed(S, key, 3)
    <2>1. \A m, n \in S : key[m] = key[n] => m = n
      BY <1>3, <1>5
    <2> QED BY <1>1, <1>5, <2>1 DEF Keyed
  <1>7. row \in Seq(S)
    BY <1>4, <1>6, OnlyMembers
  <1>8. Profiles(q) \in Seq(S) /\ (Profiles(q) # << >> => row # << >> /\ Profiles(q)[1] = row[1])
    <2>1. Profiles(q) = row \/ Profiles(q) = SubSeq(row, 1, AtMost(1, Len(row)))
      BY DEF Profiles, S, row
    <2>2. CASE Profiles(q) = row
      BY <1>7, <2>2
    <2>3. CASE row = << >> /\ Profiles(q) = SubSeq(row, 1, AtMost(1, Len(row)))
      <3>1. AtMost(1, Len(row)) = 0
        BY <2>3 DEF AtMost
      <3>2. SubSeq(row, 1, 0) = << >>
        BY <2>3
      <3> QED BY <1>7, <2>3, <3>1, <3>2
    <2>4. CASE row # << >> /\ Profiles(q) = SubSeq(row, 1, AtMost(1, Len(row)))
      <3>1. Len(row) \in Nat /\ Len(row) >= 1
        BY <1>7, <2>4
      <3>2. AtMost(1, Len(row)) = 1
        BY <3>1 DEF AtMost
      <3>3. SubSeq(row, 1, 1) \in Seq(S) /\ SubSeq(row, 1, 1)[1] = row[1]
        BY <1>7, <3>1
      <3> QED BY <2>4, <3>2, <3>3
    <2> QED BY <2>1, <2>2, <2>3, <2>4
  <1>9. ASSUME row # << >> PROVE Leads(row[1], q)
    <2> DEFINE p == row[1]
    <2>1. S # {}
      <3>1. Len(row) \in Nat /\ Len(row) >= 1 /\ row[1] \in S
        BY <1>7, <1>9
      <3> QED BY <3>1
    <2>2. p \in S /\ \A n \in S : n = p \/ Precedes(key[p], key[n])
      BY <1>4, <1>6, <2>1, FirstInRow
    <2> HIDE DEF p
    <2>3. ASSUME NEW n \in S, p.id # q.local PROVE n.id # q.local /\ n.ceiling <= p.ceiling
      <3>1. CASE n = p
        BY <1>2, <2>3, <3>1
      <3>2. CASE Precedes(key[p], key[n])
        <4>1. 3 \in Nat /\ key[p] \in [1 .. 3 -> Int] /\ key[n] \in [1 .. 3 -> Int]
          BY <1>5, <2>2
        <4>2. /\ 3 >= 1 => key[p][1] <= key[n][1]
              /\ 3 >= 2 /\ key[p][1] = key[n][1] => key[p][2] <= key[n][2]
          BY <3>2, <4>1, PrecedesByFirst
        <4>3. key[p][1] = 1 /\ key[p][2] = -p.ceiling /\ key[n][2] = -n.ceiling
          BY <1>5, <2>2, <2>3
        <4>4. n.id # q.local /\ key[n][1] = 1
          BY <1>5, <4>2, <4>3
        <4>5. -p.ceiling <= -n.ceiling
          BY <4>2, <4>3, <4>4
        <4> QED BY <1>2, <2>2, <4>4, <4>5
      <3> QED BY <2>2, <3>1, <3>2
    <2>4. Leads(p, q)
      BY <2>2, <2>3 DEF Leads, S
    <2> QED BY <2>4 DEF p
  <1> QED BY <1>8, <1>9 DEF S

LEMMA ProfileIs ==
    ASSUME NEW q, CapacityAskOK(q)
    PROVE  /\ Profiles(q) \in Seq(ToSet(Profiles(q))) /\ ToSet(Profiles(q)) \subseteq ToSet(q.nodes)
           /\ Len(Profiles(q)) \in Nat /\ (Profiles(q) # << >> => Len(Profiles(q)) >= 1)
           /\ \A i \in 1 .. Len(Profiles(q)) : Profiles(q)[i] \in ToSet(Profiles(q))
  <1> DEFINE row == Profiles(q)
  <1>1. row \in Seq(Candidates(q)) /\ Candidates(q) \subseteq ToSet(q.nodes)
    BY ProfilesAre, ScopeIs
  <1> HIDE DEF row
  <1>2. /\ Len(row) \in Nat /\ DOMAIN row = 1 .. Len(row) /\ \A i \in DOMAIN row : row[i] \in ToSet(row)
        /\ ToSet(row) \subseteq Candidates(q) /\ (row # << >> => Len(row) >= 1)
    BY <1>1, MembersOf
  <1>3. row \in Seq(ToSet(row))
    BY <1>1, <1>2
  <1> QED BY <1>1, <1>2, <1>3 DEF row

(* What is known of the machines now is a number for each.                 *)
Budgets(live) == \A id \in DOMAIN live : live[id] \in Int

LEMMA LiveAre ==
    ASSUME NEW q, CapacityAskOK(q)
    PROVE  Budgets(LiveBudgets(q)) /\ Budgets(<< >>)
  <1>1. Budgets(<< >>)
    BY DEF Budgets
  <1>2. CASE OnHosts(q)
    <2> DEFINE S == ToSet(Profiles(q))
    <2>1. \A n \in S : n.host \in Nat
      BY ProfileIs, CapacityAskIs
    <2>2. LiveBudgets(q) = HostBudget(S)
      BY <1>2 DEF LiveBudgets
    <2> HIDE DEF S
    <2>3. ASSUME NEW id \in {n.id : n \in {m \in S : m.host > 0}} PROVE (CHOOSE n \in S : n.id = id).host \in Int
      <3>1. \E n \in S : n.id = id
        OBVIOUS
      <3>2. (CHOOSE n \in S : n.id = id) \in S
        BY <3>1
      <3> QED BY <2>1, <3>2
    <2>4. Budgets(HostBudget(S))
      BY <2>3 DEF Budgets, HostBudget
    <2> QED BY <1>1, <2>2, <2>4
  <1>3. CASE ~OnHosts(q)
    <2>1. LiveBudgets(q) = [id \in {n.id : n \in ToSet(Profiles(q))} \cap DOMAIN q.live |-> q.live[id]]
      BY <1>3 DEF LiveBudgets
    <2>2. \A id \in DOMAIN q.live : q.live[id] \in Int
      BY CapacityAskIs
    <2>3. Budgets([id \in {n.id : n \in ToSet(Profiles(q))} \cap DOMAIN q.live |-> q.live[id]])
      BY <2>2 DEF Budgets
    <2> QED BY <1>1, <2>1, <2>3
  <1> QED BY <1>2, <1>3

(* The probe's split takes one machine for every rank, the first ones.     *)
LEMMA ProbePlanIs ==
    ASSUME NEW s, ShapeOK(s), NEW S, NEW row \in Seq(S), row # << >>, NEW p, p = ProbePlan(s, row)
    PROVE  /\ p.tp \in 1 .. Len(row) /\ p.pp = 1 /\ p.ep = 1 /\ p.dp = 1 /\ SplitOK(p)
           /\ p.nodes \in Seq(ToSet(p.nodes)) /\ Len(p.nodes) = p.tp
           /\ \A k \in 1 .. p.tp : p.nodes[k] = row[k].id
  <1> DEFINE L == Len(row)
             D == ValidTpDegrees(s, L)
             tp == CHOOSE d \in D : \A e \in D : e <= d
             ids == [i \in DOMAIN row |-> row[i].id]
             some == SubSeq(ids, 1, tp)
             I == {row[i].id : i \in DOMAIN row}
  <1>1. L \in Nat \ {0} /\ DOMAIN row = 1 .. L
    BY MembersOf
  <1> HIDE DEF L
  <1>2. 1 \in D /\ D \subseteq 1 .. L
    <2>1. /\ 1 \in D /\ \A d \in D : d \in Nat \ {0} /\ d <= AtLeast(1, L)
      BY <1>1, TpDegreesAre
    <2>2. AtLeast(1, L) = L
      BY <1>1 DEF AtLeast
    <2> HIDE DEF D
    <2> QED BY <1>1, <2>1, <2>2
  <1>3. tp \in 1 .. L
    <2>1. tp \in D
      <3> HIDE DEF D
      <3> QED BY <1>1, <1>2, WidestIs
    <2> HIDE DEF tp, D
    <2> QED BY <1>2, <2>1
  <1>4. p = [tp |-> tp, pp |-> 1, ep |-> 1, dp |-> 1, nodes |-> some]
    BY DEF ProbePlan, PlanOver, L
  <1> HIDE DEF tp, D
  <1>5. ids \in Seq(I) /\ Len(ids) = L /\ \A i \in 1 .. L : ids[i] = row[i].id
    BY <1>1
  <1> HIDE DEF ids, I
  <1>6. some \in Seq(I) /\ Len(some) = tp /\ \A k \in 1 .. tp : some[k] = row[k].id
    BY <1>1, <1>3, <1>5
  <1> HIDE DEF some
  <1>7. some \in Seq(ToSet(some))
    <2>1. /\ Len(some) \in Nat /\ DOMAIN some = 1 .. Len(some) /\ \A i \in DOMAIN some : some[i] \in ToSet(some)
      BY <1>6, MembersOf
    <2> QED BY <1>6, <2>1
  <1>8. p.tp = tp /\ p.pp = 1 /\ p.ep = 1 /\ p.dp = 1 /\ p.nodes = some
    BY <1>4
  <1>9. SplitOK(p)
    BY <1>1, <1>3, <1>8 DEF SplitOK
  <1> QED BY <1>3, <1>6, <1>7, <1>8, <1>9 DEF L

----------------------------------------------------------------------------
(* Questions put to the gate about them.                                   *)

(* A question put to the gate: one it can answer, whose machines are the   *)
(* plan's and enough for its ranks.                                        *)
Placed(r) ==
    /\ AskOK(r) /\ Len(Participating(r)) = r.plan.tp /\ r.plan.pp = 1 /\ r.plan.dp = 1
    /\ \A n \in ToSet(r.nodes) : n.gpus \in Int

LEMMA AskedIs ==
    ASSUME NEW q, CapacityAskOK(q), Profiles(q) # << >>, NEW s, ShapeOK(s), NEW weight \in Nat,
           NEW live, Budgets(live), NEW r, r = AskedOf(q, s, weight, live)
    PROVE  /\ Placed(r) /\ r.shape = s /\ r.weight = weight /\ r.native = q.native /\ r.context = q.context
           /\ r.seqs = q.seqs
  <1> DEFINE row == Profiles(q)  p == ProbePlan(s, row)
  <1>1. /\ row \in Seq(ToSet(row)) /\ ToSet(row) \subseteq ToSet(q.nodes) /\ row # << >> /\ Len(row) \in Nat
        /\ \A i \in 1 .. Len(row) : row[i] \in ToSet(row)
    BY ProfileIs
  <1>2. /\ q.context \in Nat /\ q.seqs \in Nat /\ q.native \in Nat
        /\ \A n \in ToSet(q.nodes) : n.ceiling \in Nat /\ n.gpus \in Int
    BY CapacityAskIs
  <1>3. r = [shape |-> s, weight |-> weight, native |-> q.native, context |-> q.context, seqs |-> q.seqs,
             kv |-> q.kv, plan |-> p, nodes |-> row, live |-> live]
    BY DEF AskedOf
  <1> HIDE DEF row
  <1>4. /\ p.tp \in 1 .. Len(row) /\ p.pp = 1 /\ p.ep = 1 /\ p.dp = 1 /\ SplitOK(p)
        /\ p.nodes \in Seq(ToSet(p.nodes)) /\ Len(p.nodes) = p.tp
        /\ \A k \in 1 .. p.tp : p.nodes[k] = row[k].id
    <2> DEFINE S == ToSet(row)
    <2>1. row \in Seq(S)
      BY <1>1
    <2> HIDE DEF S
    <2> QED BY <1>1, <2>1, ProbePlanIs
  <1> HIDE DEF p
  <1>5. /\ DOMAIN r = {"shape", "plan", "context", "seqs", "kv", "weight", "native", "nodes", "live"}
        /\ r.shape = s /\ r.weight = weight /\ r.native = q.native /\ r.context = q.context /\ r.seqs = q.seqs
        /\ r.plan = p /\ r.nodes = row /\ r.live = live
    BY <1>3
  <1>6. AskOK(r)
    BY <1>1, <1>2, <1>4, <1>5 DEF AskOK, Budgets
  <1>7. r.plan.nodes # << >> /\ Len(r.plan.nodes) = p.tp
    <2>1. Len(r.plan.nodes) = p.tp /\ p.tp # 0
      BY <1>1, <1>4, <1>5
    <2> QED BY <2>1
  <1>8. \A k \in 1 .. Len(r.plan.nodes) : Called(r, r.plan.nodes[k]) # {}
    <2> SUFFICES ASSUME NEW k \in 1 .. p.tp PROVE Called(r, p.nodes[k]) # {}
      BY <1>4, <1>5
    <2>1. k \in 1 .. Len(row)
      BY <1>1, <1>4
    <2>2. row[k] \in Called(r, p.nodes[k])
      BY <1>1, <1>4, <1>5, <2>1 DEF Called
    <2> QED BY <2>2
  <1>9. Len(Participating(r)) = p.tp
    BY <1>6, <1>7, <1>8, ParticipatingAll
  <1>10. Placed(r)
    BY <1>1, <1>2, <1>4, <1>5, <1>6, <1>9 DEF Placed
  <1> QED BY <1>5, <1>10

(* A rung of the ladder, or another context, is a question about the same  *)
(* machines.                                                               *)
Rung == [dtype : DOMAIN Halves, weight : Nat]
Rerung(r, rung, context) == [OnRung(r, rung) EXCEPT !.context = context]

LEMMA SameMachines ==
    ASSUME NEW a, NEW b, a.plan = b.plan, a.nodes = b.nodes, a.live = b.live
    PROVE  Participating(a) = Participating(b) /\ Usable(a) = Usable(b)
  <1>1. Participating(a) = Participating(b)
    BY DEF Participating, Called
  <1>2. \A n : NodeBudget(a, n) = NodeBudget(b, n)
    BY DEF NodeBudget
  <1>3. Binding(a) = Binding(b)
    BY <1>1 DEF Binding, NodeBudget
  <1>4. Usable(a) = Usable(b)
    BY <1>2, <1>3 DEF Usable
  <1> QED BY <1>1, <1>4

LEMMA RerungIs ==
    ASSUME NEW r, Placed(r), NEW rung \in Rung, NEW context \in Nat, NEW o, o = OnRung(r, rung),
           NEW a, a = Rerung(r, rung, context)
    PROVE  /\ Placed(a) /\ a.context = context
           /\ a.shape = o.shape /\ a.plan = o.plan /\ a.seqs = o.seqs /\ a.kv = o.kv /\ a.weight = o.weight
           /\ o.seqs = r.seqs /\ a.native = r.native
           /\ Usable(a) = Usable(r)
           /\ ShapeOK(o.shape) /\ SplitOK(o.plan) /\ o.weight \in Nat /\ o.seqs \in Nat
  <1> DEFINE s == [r.shape EXCEPT !.dtype = rung.dtype]
  <1>1. /\ DOMAIN r = {"shape", "plan", "context", "seqs", "kv", "weight", "native", "nodes", "live"}
        /\ ShapeOK(r.shape) /\ SplitOK(r.plan) /\ r.seqs \in Nat /\ r.native \in Nat
    BY DEF Placed, AskOK
  <1>2. ShapeOK(s)
    <2>1. "dtype" \in DOMAIN r.shape
      BY <1>1 DEF ShapeOK
    <2>2. DOMAIN s = DOMAIN r.shape /\ s.dtype = rung.dtype /\ rung.dtype \in DOMAIN Halves
      BY <2>1 DEF Rung
    <2>3. /\ s.params = r.shape.params /\ s.active = r.shape.active /\ s.vision = r.shape.vision
          /\ s.heads = r.shape.heads /\ s.kvHeads = r.shape.kvHeads /\ s.layers = r.shape.layers
          /\ s.mla = r.shape.mla /\ s.window = r.shape.window /\ s.full = r.shape.full
          /\ s.hidden = r.shape.hidden /\ s.vocab = r.shape.vocab
      BY <1>1 DEF ShapeOK
    <2> HIDE DEF s
    <2> QED BY <1>1, <2>2, <2>3 DEF ShapeOK
  <1>3. o = [[r EXCEPT !.shape = s] EXCEPT !.weight = rung.weight]
    BY DEF OnRung
  <1> HIDE DEF s
  <1>4. /\ DOMAIN o = DOMAIN r /\ o.shape = s /\ o.weight = rung.weight /\ o.plan = r.plan /\ o.context = r.context
        /\ o.seqs = r.seqs /\ o.kv = r.kv /\ o.native = r.native /\ o.nodes = r.nodes /\ o.live = r.live
    BY <1>1, <1>3
  <1>5. a = [o EXCEPT !.context = context]
    BY DEF Rerung
  <1>6. /\ DOMAIN a = DOMAIN r /\ a.shape = s /\ a.weight = rung.weight /\ a.plan = r.plan /\ a.context = context
        /\ a.seqs = r.seqs /\ a.kv = r.kv /\ a.native = r.native /\ a.nodes = r.nodes /\ a.live = r.live
    BY <1>1, <1>4, <1>5
  <1>7. rung.weight \in Nat
    BY DEF Rung
  <1>8. AskOK(a)
    BY <1>2, <1>6, <1>7 DEF AskOK, Placed
  <1>9. Participating(a) = Participating(r) /\ Usable(a) = Usable(r)
    BY <1>6, SameMachines
  <1>10. Placed(a)
    BY <1>6, <1>8, <1>9 DEF Placed
  <1> QED BY <1>1, <1>2, <1>4, <1>6, <1>7, <1>9, <1>10

(* What has room and is within the model's window is not refused.          *)
LEMMA NotRefused ==
    ASSUME NEW r, Placed(r), FitsAt(r, r.context, r.seqs, Usable(r)), r.native > 0 => r.context <= r.native
    PROVE  VerdictOf(r) # "wont_fit"
  <1> DEFINE used == Participating(r)
             c == [i \in DOMAIN used |-> AtLeast(1, used[i].gpus)]
             tp == r.plan.tp
             S == ToSet(r.nodes)
  <1>1. /\ AskOK(r) /\ Len(used) = tp /\ r.plan.pp = 1 /\ r.plan.dp = 1 /\ \A n \in S : n.gpus \in Int
    BY DEF Placed
  <1>2. used \in Seq(S) /\ Usable(r) \in Int
    BY <1>1, ParticipatingIs, BindingIs
  <1>3. tp \in Nat \ {0}
    BY <1>1 DEF AskOK, SplitOK
  <1>4. WorldSize(r.plan) = tp
    BY <1>1, <1>3 DEF WorldSize
  <1> HIDE DEF used, tp, S
  <1>5. DOMAIN used = 1 .. tp /\ \A i \in 1 .. tp : used[i] \in S
    BY <1>1, <1>2
  <1>6. Ranks(r) >= tp /\ Ranks(r) \in Int
    <2>1. \A i \in 1 .. tp : c[i] \in Int /\ c[i] >= 1
      <3> TAKE i \in 1 .. tp
      <3>1. used[i].gpus \in Int /\ c[i] = AtLeast(1, used[i].gpus)
        BY <1>1, <1>5
      <3> HIDE DEF c
      <3> QED BY <3>1, LeastIs
    <2>2. DOMAIN c = 1 .. tp /\ tp \in Nat
      BY <1>3, <1>5
    <2>3. Ranks(r) = SumOver(c)
      BY DEF Ranks, used
    <2> HIDE DEF c
    <2> QED BY <2>1, <2>2, <2>3, SumOverIs
  <1>7. ~(WorldSize(r.plan) > Ranks(r))
    BY <1>3, <1>4, <1>6
  <1>8. ~(Total(Breakdown(r)) > Usable(r))
    <2>1. Total(Breakdown(r)) <= Usable(r)
      BY DEF FitsAt, Breakdown
    <2> DEFINE t == Total(Breakdown(r))
    <2>2. t \in Int
      <3> DEFINE b == Breakdown(r)
      <3>1. /\ ShapeOK(r.shape) /\ SplitOK(r.plan) /\ r.context \in Nat /\ r.seqs \in Nat /\ r.weight \in Nat
        BY <1>1 DEF AskOK
      <3>2. b = MemoryBreakdown(r.shape, r.plan, r.context, r.seqs, r.kv, r.weight)
        BY DEF Breakdown
      <3> HIDE DEF b
      <3>3. /\ b.weights \in Nat /\ b.kv \in Nat /\ b.activations \in Nat /\ b.comm \in Nat /\ b.replicated \in Nat
            /\ b.framework \in Nat
            /\ Total(b) = b.weights + b.kv + b.activations + b.comm + b.replicated + b.framework
        BY <3>1, <3>2, BreakdownIs
      <3>4. Total(b) \in Int
        BY <3>3
      <3> QED BY <3>4 DEF b
    <2> HIDE DEF t
    <2>3. ~(t > Usable(r))
      BY <1>2, <2>1, <2>2 DEF t
    <2> QED BY <2>3 DEF t
  <1>9. ~(r.native > 0 /\ r.context > r.native)
    <2>1. r.context \in Nat /\ r.native \in Nat
      BY <1>1 DEF AskOK
    <2> QED BY <2>1
  <1>10. Cause(r, Usable(r)) \in {"bandwidth", "none"}
    BY <1>7, <1>8, <1>9 DEF Cause
  <1>11. VerdictOf(r) \in {"fits_degraded", "fits"}
    BY <1>10 DEF VerdictOf, Verdict
  <1> QED BY <1>11

LEMMA RungsAre ==
    ASSUME NEW s, ShapeOK(s), NEW weight \in Nat
    PROVE  Rungs(s, weight) \in Seq(Rung) /\ Rungs(s, weight) # << >>
  <1> DEFINE below == {i \in DOMAIN Ladder : \E j \in 1 .. i - 1 : Ladder[j] = s.dtype}
             first == CHOOSE i \in below : \A j \in below : i <= j
             L == Len(Ladder)
             m == L - first + 1
             rest == [k \in 1 .. m |-> [dtype |-> Ladder[first + k - 1], weight |-> 0]]
             top == [dtype |-> s.dtype, weight |-> weight]
             tail == IF below = {} THEN << >> ELSE rest
  <1>1. L \in Nat /\ DOMAIN Ladder = 1 .. L /\ \A i \in 1 .. L : Ladder[i] \in DOMAIN Halves
    <2>1. Ladder \in Seq(DOMAIN Halves)
      BY TablesAssumption
    <2> QED BY <2>1
  <1>2. Rungs(s, weight) = <<top>> \o tail
    BY DEF Rungs
  <1>3. top \in Rung
    BY ShapeIs DEF Rung
  <1>4. below # {} => first \in 1 .. L
    <2> SUFFICES ASSUME below # {} PROVE first \in 1 .. L
      OBVIOUS
    <2>1. below \subseteq Nat /\ below \subseteq 1 .. L
      BY <1>1
    <2> HIDE DEF below
    <2>2. Min(below) \in below /\ \A j \in below : Min(below) <= j
      BY <2>1, LeastOfNaturals
    <2>3. first \in below
      BY <2>2
    <2> QED BY <2>1, <2>3
  <1> HIDE DEF below, first, L
  <1>5. below # {} => rest \in Seq(Rung)
    <2> SUFFICES ASSUME below # {} PROVE rest \in Seq(Rung)
      OBVIOUS
    <2>1. first \in 1 .. L /\ m \in Nat
      BY <1>1, <1>4
    <2>2. \A k \in 1 .. m : first + k - 1 \in 1 .. L
      BY <1>1, <2>1
    <2>3. \A k \in 1 .. m : [dtype |-> Ladder[first + k - 1], weight |-> 0] \in Rung
      BY <1>1, <2>2 DEF Rung
    <2> HIDE DEF m
    <2> QED BY <2>1, <2>3
  <1>6. tail \in Seq(Rung)
    BY <1>5
  <1> HIDE DEF tail, top
  <1>7. <<top>> \o tail \in Seq(Rung) /\ Len(<<top>> \o tail) = 1 + Len(tail)
    BY <1>3, <1>6
  <1>8. <<top>> \o tail # << >>
    BY <1>6, <1>7
  <1> QED BY <1>2, <1>7, <1>8

----------------------------------------------------------------------------
(* The context the ladder picks.                                           *)

Window(native) == IF native > 0 THEN native ELSE FallbackContext

LEMMA ClampIs ==
    ASSUME NEW largest \in Nat, NEW native \in Nat, NEW c, c = ClampContext(largest, native)
    PROVE  /\ Window(native) \in Nat \ {0} /\ c \in Nat \ {0} /\ (native > 0 => c <= native)
           /\ largest > 0 => c <= largest
           /\ \A m \in Nat : m <= largest /\ m <= Window(native) => m <= c
  <1>1. Window(native) \in Nat \ {0} /\ (native > 0 => Window(native) = native)
    BY CapacityTables DEF Window
  <1> DEFINE w == Window(native)
  <1>2. c = IF largest > 0 THEN AtMost(w, largest) ELSE w
    BY DEF ClampContext, Window
  <1> HIDE DEF w
  <1>3. w \in Nat \ {0} /\ (native > 0 => w = native)
    BY <1>1 DEF w
  <1>4. /\ c \in Nat \ {0} /\ (native > 0 => c <= native) /\ (largest > 0 => c <= largest)
        /\ \A m \in Nat : m <= largest /\ m <= w => m <= c
    BY <1>2, <1>3 DEF AtMost
  <1> QED BY <1>3, <1>4 DEF w

(* The context the ladder picks is one that some rung which holds the      *)
(* model can serve, and a workable one if any rung leaves one.             *)
LEMMA LadderPickIs ==
    ASSUME NEW n \in Nat \ {0}, NEW most \in [1 .. n -> Nat], NEW native \in Nat, NEW c, c = LadderPick(most, native)
    PROVE  /\ c \in Nat
           /\ (\E i \in 1 .. n : most[i] > 0) =>
                 \E k \in 1 .. n : most[k] > 0 /\ c = ClampContext(most[k], native)
           /\ (\E i \in 1 .. n : most[i] >= MinUseful) /\ Window(native) >= MinUseful => c >= MinUseful
  <1> DEFINE holds == {i \in DOMAIN most : most[i] > 0}
             useful == {i \in holds : ClampContext(most[i], native) >= MinUseful}
             least(s) == CHOOSE i \in s : \A j \in s : i <= j
  <1>1. c = IF useful # {} THEN ClampContext(most[least(useful)], native)
            ELSE IF holds # {} THEN ClampContext(most[least(holds)], native) ELSE Step
    BY DEF LadderPick
  <1>2. DOMAIN most = 1 .. n /\ holds \subseteq 1 .. n /\ useful \subseteq holds
    OBVIOUS
  <1>3. ASSUME NEW s, s \subseteq 1 .. n, s # {} PROVE least(s) \in s
    <2>1. s \subseteq Nat
      BY <1>3
    <2>2. Min(s) \in s /\ \A j \in s : Min(s) <= j
      BY <1>3, <2>1, LeastOfNaturals
    <2> QED BY <2>2
  <1> HIDE DEF least
  <1>4. Step \in Nat /\ MinUseful \in Nat \ {0}
    BY CapacityTables, TablesAssumption
  <1>5. \A i \in 1 .. n : /\ ClampContext(most[i], native) \in Nat
                          /\ \A m \in Nat : m <= most[i] /\ m <= Window(native) => m <= ClampContext(most[i], native)
    <2> TAKE i \in 1 .. n
    <2>1. most[i] \in Nat
      OBVIOUS
    <2> QED BY <2>1, ClampIs
  <1>6. ASSUME useful # {}
        PROVE  \E k \in holds : c = ClampContext(most[k], native) /\ c >= MinUseful
    <2>1. least(useful) \in useful
      BY <1>2, <1>3, <1>6
    <2> QED BY <1>1, <1>6, <2>1
  <1>7. ASSUME useful = {}, holds # {} PROVE \E k \in holds : c = ClampContext(most[k], native)
    <2>1. least(holds) \in holds
      BY <1>2, <1>3, <1>7
    <2> QED BY <1>1, <1>7, <2>1
  <1>8. useful = {} /\ holds = {} => c = Step
    BY <1>1
  <1>9. ASSUME \E i \in 1 .. n : most[i] >= MinUseful, Window(native) >= MinUseful PROVE useful # {}
    <2>1. PICK i \in 1 .. n : most[i] >= MinUseful
      BY <1>9
    <2>2. most[i] \in Nat /\ Window(native) \in Nat
      BY ClampIs
    <2>3. MinUseful <= most[i] /\ MinUseful <= Window(native) /\ most[i] > 0
      BY <1>4, <1>9, <2>1, <2>2
    <2>4. MinUseful <= ClampContext(most[i], native)
      BY <1>4, <1>5, <2>3
    <2>5. ClampContext(most[i], native) >= MinUseful
      BY <1>4, <1>5, <2>4
    <2>6. i \in useful
      BY <1>2, <2>3, <2>5
    <2> QED BY <2>6
  <1>10. (\E i \in 1 .. n : most[i] > 0) => holds # {}
    BY <1>2
  <1>11. \A k \in holds : k \in 1 .. n /\ most[k] > 0
    BY <1>2
  <1> HIDE DEF holds, useful
  <1>12. c \in Nat
    BY <1>4, <1>5, <1>6, <1>7, <1>8, <1>11
  <1>13. (\E i \in 1 .. n : most[i] > 0) => \E k \in 1 .. n : most[k] > 0 /\ c = ClampContext(most[k], native)
    BY <1>6, <1>7, <1>10, <1>11
  <1>14. (\E i \in 1 .. n : most[i] >= MinUseful) /\ Window(native) >= MinUseful => c >= MinUseful
    BY <1>6, <1>9
  <1> QED BY <1>12, <1>13, <1>14

(* What the walk says of a rung is not a refusal when some rung is not     *)
(* refused.                                                                *)
LEMMA FirstThatFitsIs ==
    ASSUME NEW n \in Nat, NEW rungs, DOMAIN rungs = 1 .. n, NEW verdicts,
           NEW k \in 1 .. n, verdicts[k] # "wont_fit"
    PROVE  FirstThatFits(rungs, verdicts).verdict # "wont_fit"
  <1> DEFINE fit == {i \in DOMAIN rungs : verdicts[i] # "wont_fit"}
             at == IF fit = {} THEN 1 ELSE CHOOSE i \in fit : \A j \in fit : i <= j
  <1>1. fit # {} /\ fit \subseteq Nat
    OBVIOUS
  <1>2. at \in fit
    <2> HIDE DEF fit
    <2>1. Min(fit) \in fit /\ \A j \in fit : Min(fit) <= j
      BY <1>1, LeastOfNaturals
    <2> QED BY <1>1, <2>1
  <1>3. verdicts[at] # "wont_fit"
    BY <1>2
  <1>4. FirstThatFits(rungs, verdicts).verdict = verdicts[at]
    BY DEF FirstThatFits
  <1> QED BY <1>3, <1>4

(* A rung that can serve a context is not refused at a shorter one.        *)
LEMMA RungServes ==
    ASSUME NEW r, Placed(r), NEW rung \in Rung, NEW most, most = MaxContextOn(r, rung), most > 0,
           NEW c \in Nat, c <= most, r.native > 0 => c <= r.native
    PROVE  VerdictOf(Rerung(r, rung, c)) # "wont_fit"
  <1> DEFINE o == OnRung(r, rung)  a == Rerung(r, rung, c)
  <1>1. /\ Placed(a) /\ a.context = c
        /\ a.shape = o.shape /\ a.plan = o.plan /\ a.seqs = o.seqs /\ a.kv = o.kv /\ a.weight = o.weight
        /\ o.seqs = r.seqs /\ a.native = r.native
        /\ Usable(a) = Usable(r) /\ ShapeOK(o.shape) /\ SplitOK(o.plan) /\ o.weight \in Nat /\ o.seqs \in Nat
    BY RerungIs
  <1> HIDE DEF o, a
  <1>2. Usable(r) \in Int
    BY BindingIs DEF Placed
  <1>3. most = LargestContext(o, Usable(r))
    BY DEF MaxContextOn, o
  <1>4. most \in Nat /\ FitsAt(o, most, o.seqs, Usable(r))
    BY <1>1, <1>2, <1>3, LargestContextIs
  <1>5. FitsAt(o, c, o.seqs, Usable(r))
    <2>1. o.seqs <= o.seqs
      BY <1>1
    <2> QED BY <1>1, <1>2, <1>4, <2>1, FitsLess
  <1>6. FitsAt(a, a.context, a.seqs, Usable(a))
    BY <1>1, <1>5 DEF FitsAt
  <1>7. VerdictOf(a) # "wont_fit"
    BY <1>1, <1>6, NotRefused
  <1> QED BY <1>7 DEF a

(* The walk, when it picks the context itself.                             *)
LEMMA WalkIs ==
    ASSUME NEW r, Placed(r), r.context = 0, NEW rungs \in Seq(Rung), rungs # << >>, NEW w, w = Walk(r, rungs)
    PROVE  /\ (\E i \in DOMAIN rungs : MaxContextOn(r, rungs[i]) > 0) => w.verdict # "wont_fit"
           /\ (\E i \in DOMAIN rungs : MaxContextOn(r, rungs[i]) >= MinUseful) /\ Window(r.native) >= MinUseful
                => w.context >= MinUseful
  <1> DEFINE n == Len(rungs)
             most == [i \in DOMAIN rungs |-> MaxContextOn(r, rungs[i])]
             c == LadderPick(most, r.native)
             verdicts == [i \in DOMAIN rungs |-> VerdictOf([OnRung(r, rungs[i]) EXCEPT !.context = c])]
  <1>1. n \in Nat \ {0} /\ DOMAIN rungs = 1 .. n /\ \A i \in 1 .. n : rungs[i] \in Rung
    <2>1. Len(rungs) \in Nat /\ DOMAIN rungs = 1 .. Len(rungs) /\ Len(rungs) >= 1
          /\ \A i \in DOMAIN rungs : rungs[i] \in Rung
      BY MembersOf
    <2> QED BY <2>1
  <1>2. r.native \in Nat
    BY DEF Placed, AskOK
  <1>3. \A i \in 1 .. n : MaxContextOn(r, rungs[i]) \in Nat
    <2> TAKE i \in 1 .. n
    <2> DEFINE o == OnRung(r, rungs[i])
    <2>1. rungs[i] \in Rung /\ 0 \in Nat
      BY <1>1
    <2>2. ShapeOK(o.shape) /\ SplitOK(o.plan) /\ o.weight \in Nat /\ o.seqs \in Nat
      BY <2>1, RerungIs
    <2>3. Usable(r) \in Int
      BY BindingIs DEF Placed
    <2> HIDE DEF o
    <2>4. LargestContext(o, Usable(r)) \in Nat
      BY <2>2, <2>3, LargestContextIs
    <2> QED BY <2>4 DEF MaxContextOn, o
  <1>4. most \in [1 .. n -> Nat]
    BY <1>1, <1>3
  <1>5. w = WalkAt(r, rungs, c)
    BY DEF Walk, LadderContext
  <1>6. w.verdict = FirstThatFits(rungs, verdicts).verdict /\ w.context = c
    BY <1>5 DEF WalkAt
  <1>m. \A i \in 1 .. n : most[i] = MaxContextOn(r, rungs[i])
    BY <1>1
  <1> HIDE DEF most
  <1>7. /\ c \in Nat
        /\ (\E i \in 1 .. n : most[i] > 0) =>
              \E k \in 1 .. n : most[k] > 0 /\ c = ClampContext(most[k], r.native)
        /\ (\E i \in 1 .. n : most[i] >= MinUseful) /\ Window(r.native) >= MinUseful => c >= MinUseful
    <2> HIDE DEF n
    <2> QED BY <1>1, <1>2, <1>4, LadderPickIs
  <1>8. ASSUME NEW k \in 1 .. n, most[k] > 0, c = ClampContext(most[k], r.native)
        PROVE  w.verdict # "wont_fit"
    <2>1. most[k] \in Nat
      BY <1>4
    <2>2. c <= most[k] /\ (r.native > 0 => c <= r.native)
      <3> DEFINE x == most[k]  native == r.native
      <3>1. x \in Nat /\ x > 0 /\ native \in Nat /\ c = ClampContext(x, native)
        BY <1>2, <1>8, <2>1
      <3> HIDE DEF x, native, c
      <3>2. c <= x /\ (native > 0 => c <= native)
        BY <3>1, ClampIs
      <3> QED BY <3>2 DEF x, native
    <2>3. rungs[k] \in Rung /\ most[k] = MaxContextOn(r, rungs[k])
      BY <1>1, <1>m
    <2>4. VerdictOf(Rerung(r, rungs[k], c)) # "wont_fit"
      <3> HIDE DEF c
      <3> QED BY <1>7, <1>8, <2>2, <2>3, RungServes
    <2>5. verdicts[k] # "wont_fit"
      BY <1>1, <2>4 DEF Rerung
    <2> HIDE DEF verdicts, n
    <2>6. FirstThatFits(rungs, verdicts).verdict # "wont_fit"
      BY <1>1, <2>5, FirstThatFitsIs
    <2> QED BY <1>6, <2>6
  <1> HIDE DEF c, verdicts
  <1>9. ASSUME \E i \in DOMAIN rungs : MaxContextOn(r, rungs[i]) > 0 PROVE w.verdict # "wont_fit"
    <2>1. \E i \in 1 .. n : most[i] > 0
      BY <1>1, <1>m, <1>9
    <2> QED BY <1>7, <1>8, <2>1
  <1>10. ASSUME \E i \in DOMAIN rungs : MaxContextOn(r, rungs[i]) >= MinUseful, Window(r.native) >= MinUseful
         PROVE  w.context >= MinUseful
    <2>1. \E i \in 1 .. n : most[i] >= MinUseful
      BY <1>1, <1>m, <1>10
    <2> QED BY <1>6, <1>7, <1>10, <2>1
  <1> QED BY <1>9, <1>10

(* What the answer says of the model it is about.                          *)
LEMMA SideIs ==
    ASSUME NEW q, CapacityAskOK(q), Profiles(q) # << >>, q.context = 0, NEW live, Budgets(live),
           NEW side, side = SideOf(q, live), NEW r, r = Asked(q, live), NEW rungs, rungs = Rungs(q.shape, q.weight)
    PROVE  /\ (\E i \in DOMAIN rungs : MaxContextOn(r, rungs[i]) > 0) => side.verdict # "wont_fit" /\ side.best > 0
           /\ (\E i \in DOMAIN rungs : MaxContextOn(r, rungs[i]) >= MinUseful) /\ Window(q.native) >= MinUseful
                => side.context >= MinUseful
  <1> DEFINE models == <<q.shape>> \o q.beside
             weight(i) == IF i = 1 THEN q.weight ELSE 0
             row(i) == Walk(AskedOf(q, models[i], weight(i), live), Rungs(models[i], weight(i)))
             rows == [i \in DOMAIN models |-> row(i)]
             n == 1 + Len(q.beside)
             fits == {i \in DOMAIN rows : rows[i].verdict # "wont_fit"}
             key == [i \in fits |-> <<-rows[i].params, i>>]
  <1>1. /\ ShapeOK(q.shape) /\ q.weight \in Nat /\ q.beside \in Seq(ToSet(q.beside))
        /\ \A s \in ToSet(q.beside) : ShapeOK(s)
    BY CapacityAskIs
  <1>2. n \in Nat /\ n >= 1 /\ DOMAIN models = 1 .. n /\ models[1] = q.shape
    BY <1>1
  <1>3. \A i \in 1 .. n : ShapeOK(models[i])
    <2> TAKE i \in 1 .. n
    <2>1. CASE i = 1
      BY <1>1, <1>2, <2>1
    <2>2. CASE i # 1
      <3>1. i - 1 \in 1 .. Len(q.beside) /\ models[i] = q.beside[i - 1]
        BY <1>1, <1>2, <2>2
      <3>2. q.beside[i - 1] \in ToSet(q.beside)
        BY <1>1, <3>1, MembersOf
      <3> QED BY <1>1, <3>1, <3>2
    <2> QED BY <2>1, <2>2
  <1>4. side = Side(rows)
    BY DEF SideOf
  <1>5. side.verdict = rows[1].verdict /\ side.context = rows[1].context /\ side.best = BestRow(rows)
    <2> HIDE DEF rows
    <2> QED BY <1>4 DEF Side
  <1> HIDE DEF models, n
  <1>6. rows[1] = Walk(r, rungs)
    <2>1. 1 \in DOMAIN models /\ weight(1) = q.weight
      BY <1>2
    <2>2. rows[1] = Walk(AskedOf(q, models[1], weight(1), live), Rungs(models[1], weight(1)))
      BY <2>1
    <2> QED BY <1>2, <2>1, <2>2 DEF Asked
  <1>7. \A i \in 1 .. n : rows[i].params \in Nat
    <2> TAKE i \in 1 .. n
    <2>1. rows[i] = row(i)
      BY <1>2
    <2>2. AskedOf(q, models[i], weight(i), live).shape = models[i]
      BY DEF AskedOf
    <2>3. row(i).params = models[i].params
      BY <2>2 DEF Walk, WalkAt
    <2>4. models[i].params \in Nat
      BY <1>3, ShapeIs
    <2> QED BY <2>1, <2>3, <2>4
  <1>8. DOMAIN rows = 1 .. n
    BY <1>2
  <1>9. /\ Placed(r) /\ r.native = q.native /\ r.context = 0
    BY <1>1, AskedIs DEF Asked
  <1>10. rungs \in Seq(Rung) /\ rungs # << >>
    BY <1>1, RungsAre
  <1> HIDE DEF rows
  <1>11. /\ (\E i \in DOMAIN rungs : MaxContextOn(r, rungs[i]) > 0) => rows[1].verdict # "wont_fit"
         /\ (\E i \in DOMAIN rungs : MaxContextOn(r, rungs[i]) >= MinUseful) /\ Window(q.native) >= MinUseful
              => rows[1].context >= MinUseful
    BY <1>6, <1>9, <1>10, WalkIs
  <1>12. ASSUME rows[1].verdict # "wont_fit" PROVE BestRow(rows) > 0
    <2>1. fits # {} /\ fits \subseteq 1 .. n
      BY <1>2, <1>8, <1>12
    <2>2. IsFiniteSet(fits)
      <3>1. IsFiniteSet(1 .. n) /\ fits \in SUBSET (1 .. n)
        BY <1>2, <2>1, FS_Interval
      <3> QED BY <3>1, FS_Subset
    <2>3. BestRow(rows) = InOrder(fits, key)[1]
      BY <2>1 DEF BestRow
    <2> HIDE DEF fits
    <2>4. \A i \in fits : key[i] \in [1 .. 2 -> Int] /\ key[i][2] = i
      <3> TAKE i \in fits
      <3> DEFINE x == -rows[i].params
      <3>1. x \in Int /\ i \in Int /\ key[i] = <<x, i>>
        BY <1>2, <1>7, <2>1
      <3> HIDE DEF x, key
      <3> QED BY <3>1, RowOfTwo
    <2> HIDE DEF key
    <2>5. Keyed(fits, key, 2)
      <3>1. \A i, j \in fits : key[i] = key[j] => i = j
        BY <2>4
      <3> QED BY <2>2, <2>4, <3>1 DEF Keyed
    <2>6. InOrder(fits, key)[1] \in fits
      BY <2>1, <2>5, FirstInRow
    <2> QED BY <1>2, <2>1, <2>3, <2>6
  <1> QED BY <1>5, <1>11, <1>12

----------------------------------------------------------------------------
(* The variants, best first.                                               *)

LEMMA VariantsSorted ==
    ASSUME NEW q, CapacityAskOK(q), NEW r, NEW rows, rows = VariantRows(q, r)
    PROVE  /\ Keyed(rows, [row \in rows |-> RankKey(row)], 4)
           /\ \A row \in rows : Tier(row) \in 0 .. 2 /\ row.bytes \in Nat
  <1> DEFINE V == q.variants
             h == [i \in DOMAIN V |-> VariantRow(q, r, i)]
             key == [row \in rows |-> RankKey(row)]
  <1>1. V \in Seq([dtype : DOMAIN Halves, bytes : Nat, launchable : BOOLEAN])
    BY CapacityAskIs
  <1> HIDE DEF V
  <1>2. /\ IsFiniteSet(DOMAIN V) /\ DOMAIN V = 1 .. Len(V)
        /\ \A i \in DOMAIN V : V[i] \in [dtype : DOMAIN Halves, bytes : Nat, launchable : BOOLEAN]
    BY <1>1, MembersOf
  <1>3. rows = {h[i] : i \in DOMAIN V}
    BY DEF VariantRows, V
  <1>4. IsFiniteSet(rows)
    <2>1. h = [i \in DOMAIN V |-> h[i]]
      OBVIOUS
    <2> HIDE DEF h
    <2>2. IsFiniteSet({h[i] : i \in DOMAIN V})
      BY <1>2, <2>1, FiniteImage
    <2> QED BY <1>3, <2>2
  <1>5. \A i \in DOMAIN V : /\ h[i].at = i /\ h[i].bytes = V[i].bytes /\ h[i].quality = Halves[V[i].dtype]
    BY DEF VariantRow, Quality, V
  <1>6. \A row \in rows : /\ row.at \in DOMAIN V /\ row = h[row.at] /\ row.at \in Int
                          /\ row.bytes \in Nat /\ row.quality \in Nat /\ Tier(row) \in 0 .. 2
    <2> TAKE row \in rows
    <2>1. PICK i \in DOMAIN V : row = h[i]
      BY <1>3
    <2>2. row.at = i /\ row.bytes = V[i].bytes /\ row.quality = Halves[V[i].dtype]
      BY <1>5, <2>1
    <2>3. V[i].bytes \in Nat /\ Halves[V[i].dtype] \in Nat
      BY <1>2, TablesAssumption
    <2>4. Tier(row) \in 0 .. 2
      BY DEF Tier
    <2> HIDE DEF h
    <2> QED BY <1>2, <2>1, <2>2, <2>3, <2>4
  <1> HIDE DEF h
  <1>7. \A row \in rows : key[row] \in [1 .. 4 -> Int] /\ key[row][4] = row.at
    <2> TAKE row \in rows
    <2> DEFINE t == Tier(row)  b == row.bytes  u == row.quality  a == row.at
    <2>1. t \in Int /\ b \in Int /\ u \in Int /\ a \in Int /\ -b \in Int /\ -u \in Int /\ 2 \in Int
      BY <1>6
    <2>2. key[row] = (IF t = 2 THEN <<2, b, u, a>> ELSE <<t, -b, -u, a>>)
      BY DEF RankKey
    <2> HIDE DEF t, b, u, a, key
    <2>3. <<2, b, u, a>> \in [1 .. 4 -> Int] /\ <<2, b, u, a>>[4] = a
      BY <2>1, RowOfFour
    <2>4. <<t, -b, -u, a>> \in [1 .. 4 -> Int] /\ <<t, -b, -u, a>>[4] = a
      BY <2>1, RowOfFour
    <2> QED BY <2>2, <2>3, <2>4 DEF a
  <1> HIDE DEF key
  <1>8. Keyed(rows, key, 4)
    <2>1. \A x, y \in rows : key[x] = key[y] => x = y
      BY <1>6, <1>7
    <2> QED BY <1>4, <1>7, <2>1 DEF Keyed
  <1> QED BY <1>6, <1>8 DEF key

LEMMA RecommendIs ==
    ASSUME NEW q, CapacityAskOK(q), NEW rows, rows = VariantRows(q, VariantsAsked(q)),
           NEW runs, runs = {row \in rows : row.launchable /\ Tier(row) < 2},
           NEW best, best = Recommend(VariantsOf(q))
    PROVE  /\ (best = << >>) = (runs = {})
           /\ best # << >> => \A row \in runs : row.verdict = best[1].verdict => row.bytes <= best[1].bytes
  <1> DEFINE key == [row \in rows |-> RankKey(row)]
             s == VariantsOf(q)
             usable == {i \in DOMAIN s : Tier(s[i]) < 2 /\ s[i].launchable}
             at == CHOOSE i \in usable : \A j \in usable : i <= j
  <1>1. Keyed(rows, key, 4) /\ \A row \in rows : Tier(row) \in 0 .. 2 /\ row.bytes \in Nat
    BY VariantsSorted
  <1>2. s = InOrder(rows, key)
    BY DEF VariantsOf
  <1>3. best = IF usable = {} THEN << >> ELSE <<s[at]>>
    BY DEF Recommend
  <1> HIDE DEF key, s
  <1>4. /\ s \in Seq(rows) /\ DOMAIN s = 1 .. Cardinality(rows) /\ Cardinality(rows) \in Nat
        /\ \A x \in rows : \E i \in DOMAIN s : s[i] = x
    BY <1>1, <1>2, OnlyMembers
  <1>5. \A i, j \in DOMAIN s : i < j => Precedes(key[s[i]], key[s[j]])
    <2>1. Sorted(s, rows, key)
      BY <1>1, <1>2, InOrderIs
    <2> QED BY <1>4, <2>1 DEF Sorted
  <1>6. \A i \in DOMAIN s : s[i] \in rows
    BY <1>4
  <1>7. (usable = {}) = (runs = {})
    <2>1. ASSUME usable # {} PROVE runs # {}
      BY <1>6, <2>1
    <2>2. ASSUME runs # {} PROVE usable # {}
      BY <1>4, <2>2
    <2> QED BY <2>1, <2>2
  <1>8. (best = << >>) = (usable = {})
    <2> HIDE DEF usable, at
    <2> QED BY <1>3
  <1>9. ASSUME best # << >>, NEW row \in runs, row.verdict = best[1].verdict PROVE row.bytes <= best[1].bytes
    <2>1. usable # {} /\ usable \subseteq Nat
      BY <1>4, <1>8, <1>9
    <2>2. at \in usable /\ \A j \in usable : at <= j
      <3> HIDE DEF usable
      <3>1. Min(usable) \in usable /\ \A j \in usable : Min(usable) <= j
        BY <2>1, LeastOfNaturals
      <3> QED BY <3>1
    <2>3. best[1] = s[at]
      BY <1>3, <2>1
    <2> HIDE DEF at
    <2>4. PICK j \in DOMAIN s : s[j] = row
      BY <1>4
    <2>5. j \in usable
      BY <2>4
    <2>6. at \in DOMAIN s /\ s[at] \in rows /\ Tier(s[at]) < 2 /\ row \in rows /\ Tier(row) < 2
      BY <1>6, <2>2
    <2> DEFINE a == s[at]
    <2>7. CASE at = j
      BY <1>1, <2>3, <2>4, <2>6, <2>7
    <2>8. CASE at < j
      <3>1. Precedes(key[a], key[row])
        BY <1>5, <2>4, <2>6, <2>8
      <3>2. Tier(row) = Tier(a)
        BY <1>9, <2>3 DEF Tier
      <3> HIDE DEF a
      <3>3. a \in rows /\ row \in rows /\ Tier(a) < 2 /\ Tier(row) < 2
        BY <2>6 DEF a
      <3>4. \A x \in rows : Tier(x) < 2 => key[x][1] = Tier(x) /\ key[x][2] = -x.bytes
        <4> TAKE x \in rows
        <4> SUFFICES ASSUME Tier(x) < 2 PROVE key[x][1] = Tier(x) /\ key[x][2] = -x.bytes
          OBVIOUS
        <4>1. key[x] = <<Tier(x), -x.bytes, -x.quality, x.at>>
          <5>1. ~(Tier(x) = 2)
            BY <1>1
          <5> QED BY <5>1 DEF key, RankKey
        <4> QED BY <4>1
      <3>5. 4 \in Nat /\ key[a] \in [1 .. 4 -> Int] /\ key[row] \in [1 .. 4 -> Int]
        BY <1>1, <3>3 DEF Keyed
      <3>6. 4 >= 2 /\ key[a][1] = key[row][1] => key[a][2] <= key[row][2]
        BY <3>1, <3>5, PrecedesByFirst
      <3>7. -a.bytes <= -row.bytes
        BY <3>2, <3>3, <3>4, <3>6
      <3>8. a.bytes \in Nat /\ row.bytes \in Nat
        BY <1>1, <3>3
      <3>9. row.bytes <= a.bytes
        BY <3>7, <3>8
      <3> QED BY <2>3, <3>9 DEF a
    <2>9. at <= j /\ at \in Nat /\ j \in Nat
      BY <1>4, <2>1, <2>2, <2>4, <2>5
    <2> QED BY <2>7, <2>8, <2>9
  <1> QED BY <1>7, <1>8, <1>9

CapacityInv ==
    /\ capAsk \in CapacityRequests
    /\ \/ capAnswer = NotAnswered
       \/ capAnswer = NothingToAsk
       \/ Profiles(capAsk) # << >> /\ capAnswer = CapacityOf(capAsk, LiveBudgets(capAsk))
       \/ Profiles(capAsk) # << >> /\ capAnswer = [rows |-> VariantsOf(capAsk)]
       \/ \E both, gates : capAnswer = ServeAnswer(both, gates)

LEMMA CapacityInvHolds == CapacitySpec => []CapacityInv
  <1>1. CapacityInit => CapacityInv
    BY DEF CapacityInit, CapacityInv
  <1>2. CapacityInv /\ [CapacityNext]_capVars => CapacityInv'
    <2>1. ASSUME CapacityInv, UNCHANGED capVars PROVE CapacityInv'
      BY <2>1 DEF CapacityInv, capVars
    <2>2. ASSUME CapacityInv, CapacityNext PROVE CapacityInv'
      <3>1. capAsk' = capAsk /\ capAsk \in CapacityRequests
        BY <2>2 DEF CapacityInv, CapacityNext
      <3>2. CASE capAnswer' = NothingToAsk
        BY <3>1, <3>2 DEF CapacityInv
      <3>3. CASE Profiles(capAsk) # << >> /\ capAnswer' = CapacityOf(capAsk, LiveBudgets(capAsk))
        BY <3>1, <3>3 DEF CapacityInv
      <3>4. CASE Profiles(capAsk) # << >> /\ capAnswer' = [rows |-> VariantsOf(capAsk)]
        BY <3>1, <3>4 DEF CapacityInv
      <3>5. CASE \E both, gates : capAnswer' = ServeAnswer(both, gates)
        BY <3>1, <3>5 DEF CapacityInv
      <3> QED BY <2>2, <3>2, <3>3, <3>4, <3>5 DEF CapacityNext
    <2> QED BY <2>1, <2>2
  <1> QED BY <1>1, <1>2, PTL DEF CapacitySpec

(* Which of the answers it is shows in its fields.                         *)
LEMMA AnswerIs ==
    ASSUME CapacityInv
    PROVE  /\ CapacityAskOK(capAsk)
           /\ "static" \in DOMAIN capAnswer \/ "probed" \in DOMAIN capAnswer =>
                 Profiles(capAsk) # << >> /\ capAnswer = CapacityOf(capAsk, LiveBudgets(capAsk))
           /\ "rows" \in DOMAIN capAnswer => capAnswer = [rows |-> VariantsOf(capAsk)]
  <1>1. CapacityAskOK(capAsk)
    BY CapacityAskAssumption DEF CapacityInv
  <1>2. /\ DOMAIN NotAnswered = {"of"} /\ DOMAIN NothingToAsk = {"error"}
        /\ \A a : DOMAIN [rows |-> a] = {"rows"}
        /\ \A both, gates : DOMAIN ServeAnswer(both, gates) = {"both", "decision"}
        /\ \A q, live : DOMAIN CapacityOf(q, live) = {"probed", "live", "static"}
    BY DEF NotAnswered, NothingToAsk, ServeAnswer, CapacityOf
  <1>3. "static" \in DOMAIN capAnswer \/ "probed" \in DOMAIN capAnswer =>
           Profiles(capAsk) # << >> /\ capAnswer = CapacityOf(capAsk, LiveBudgets(capAsk))
    BY <1>2 DEF CapacityInv
  <1>4. "rows" \in DOMAIN capAnswer => capAnswer = [rows |-> VariantsOf(capAsk)]
    BY <1>2 DEF CapacityInv
  <1> QED BY <1>1, <1>3, <1>4

LEMMA ProbeIsRight == ASSUME CapacityInv PROVE ProbedRight
  <1> DEFINE p == CHOOSE n \in ToSet(capAsk.nodes) : n.id = capAnswer.probed
             first == Profiles(capAsk)[1]
  <1>1. SUFFICES ASSUME "probed" \in DOMAIN capAnswer
                 PROVE  /\ capAsk.named # {} => p.id \in capAsk.named
                        /\ \A n \in Candidates(capAsk) : p.id # capAsk.local => n.id # capAsk.local /\ n.ceiling <= p.ceiling
    BY DEF ProbedRight
  <1>2. /\ CapacityAskOK(capAsk) /\ Profiles(capAsk) # << >>
        /\ capAnswer = CapacityOf(capAsk, LiveBudgets(capAsk))
    BY <1>1, AnswerIs
  <1>3. capAnswer.probed = first.id
    BY <1>2 DEF CapacityOf
  <1>4. Leads(first, capAsk)
    BY <1>2, ProfilesAre
  <1> HIDE DEF first
  <1>5. first \in ToSet(capAsk.nodes) /\ (capAsk.named # {} => first.id \in capAsk.named)
    BY <1>2, <1>4, ScopeIs DEF Leads
  <1>6. \A m, n \in ToSet(capAsk.nodes) : m.id = n.id => m = n
    BY <1>2, CapacityAskIs
  <1>7. p = first
    <2>1. p \in ToSet(capAsk.nodes) /\ p.id = first.id
      BY <1>3, <1>5
    <2> HIDE DEF p
    <2> QED BY <1>5, <1>6, <2>1
  <1> HIDE DEF p
  <1> QED BY <1>4, <1>5, <1>7 DEF Leads

LEMMA LadderIsNotWasted == ASSUME CapacityInv PROVE LadderNotWasted
  <1> DEFINE rungs == Rungs(capAsk.shape, capAsk.weight)
             most(side, i) == MaxContextOn(Asked(capAsk, side[2]), rungs[i])
             limit == IF capAsk.native > 0 THEN capAsk.native ELSE FallbackContext
  <1>1. SUFFICES ASSUME capAsk.context = 0, NEW side \in Sides
                 PROVE  /\ (\E i \in DOMAIN rungs : most(side, i) > 0)
                              => side[1].verdict # "wont_fit" /\ side[1].best > 0
                        /\ (\E i \in DOMAIN rungs : most(side, i) >= MinUseful) /\ limit >= MinUseful
                              => side[1].context >= MinUseful
    BY DEF LadderNotWasted
  <1>2. "static" \in DOMAIN capAnswer
    BY <1>1 DEF Sides
  <1>3. /\ CapacityAskOK(capAsk) /\ Profiles(capAsk) # << >>
        /\ capAnswer = CapacityOf(capAsk, LiveBudgets(capAsk))
    BY <1>2, AnswerIs
  <1>4. Budgets(LiveBudgets(capAsk)) /\ Budgets(<< >>)
    BY <1>3, LiveAre
  <1>5. PICK live : Budgets(live) /\ side[1] = SideOf(capAsk, live) /\ side[2] = live
    <2> DEFINE now == LiveBudgets(capAsk)
    <2>1. /\ capAnswer.live = (IF DOMAIN now = {} THEN << >> ELSE <<SideOf(capAsk, now)>>)
          /\ capAnswer.static = (IF OnHosts(capAsk) THEN << >> ELSE <<SideOf(capAsk, << >>)>>)
      BY <1>3 DEF CapacityOf
    <2> HIDE DEF now
    <2>2. \/ \E i \in DOMAIN capAnswer.static : side = <<capAnswer.static[i], << >> >>
          \/ \E i \in DOMAIN capAnswer.live : side = <<capAnswer.live[i], now>>
      BY <1>1, <1>2 DEF Sides, now
    <2>3. ASSUME NEW i \in DOMAIN capAnswer.static, side = <<capAnswer.static[i], << >> >>
          PROVE  side[1] = SideOf(capAsk, << >>) /\ side[2] = << >>
      BY <2>1, <2>3
    <2>4. ASSUME NEW i \in DOMAIN capAnswer.live, side = <<capAnswer.live[i], now>>
          PROVE  side[1] = SideOf(capAsk, now) /\ side[2] = now
      BY <2>1, <2>4
    <2>5. Budgets(now) /\ Budgets(<< >>)
      BY <1>4 DEF now
    <2> QED BY <2>2, <2>3, <2>4, <2>5
  <1>6. limit = Window(capAsk.native)
    BY DEF Window
  <1> DEFINE q == capAsk
  <1>7. /\ (\E i \in DOMAIN rungs : most(side, i) > 0) => side[1].verdict # "wont_fit" /\ side[1].best > 0
        /\ (\E i \in DOMAIN rungs : most(side, i) >= MinUseful) /\ Window(q.native) >= MinUseful
              => side[1].context >= MinUseful
    <2>1. rungs = Rungs(q.shape, q.weight) /\ q.context = 0
      BY <1>1
    <2> HIDE DEF rungs
    <2> QED BY <1>3, <1>5, <2>1, SideIs
  <1> QED BY <1>6, <1>7

LEMMA RecommendationRuns == ASSUME CapacityInv PROVE RecommendedRuns
  <1> DEFINE rows == VariantRows(capAsk, VariantsAsked(capAsk))
             runs == {row \in rows : row.launchable /\ Tier(row) < 2}
             best == Recommend(capAnswer.rows)
  <1>1. SUFFICES ASSUME "rows" \in DOMAIN capAnswer
                 PROVE  /\ (best = << >>) = (runs = {})
                        /\ best # << >> => \A row \in runs : row.verdict = best[1].verdict => row.bytes <= best[1].bytes
    BY DEF RecommendedRuns
  <1>2. CapacityAskOK(capAsk) /\ capAnswer = [rows |-> VariantsOf(capAsk)]
    BY <1>1, AnswerIs
  <1>3. best = Recommend(VariantsOf(capAsk))
    BY <1>2
  <1> HIDE DEF best
  <1>4. /\ (best = << >>) = (runs = {})
        /\ best # << >> => \A row \in runs : row.verdict = best[1].verdict => row.bytes <= best[1].bytes
    BY <1>2, <1>3, RecommendIs
  <1> QED BY <1>4

(* The capacity answers keep their promise: the context the probe picks    *)
(* refuses no model some rung could have served, the answer is about the   *)
(* machine it should be about, and the variant recommended is the largest  *)
(* of those that run.                                                      *)
THEOREM CapacityKeepsItsPromise == CapacitySpec => []CapacityPromise
  <1>1. CapacityInv => CapacityPromise
    BY LadderIsNotWasted, ProbeIsRight, RecommendationRuns DEF CapacityPromise
  <1> QED BY <1>1, CapacityInvHolds, PTL
=============================================================================
