--------------------------- MODULE ServingProofs ---------------------------
(***************************************************************************)
(* The launch route, for any number of machines, calls and requests and    *)
(* any sizes of memory; the speech runtime, for any voices and calls; and  *)
(* the router, for any targets, weights, seats and requests.               *)
(***************************************************************************)
EXTENDS Launch, Routing, Speech, NumberFacts, TLAPS

----------------------------------------------------------------------------
(* Among() and GroupMemory() are recursive functions; each has a solution. *)

Firsts(f, s, these) ==
    f = [k \in 0 .. Len(s) |->
           IF k = 0 THEN << >> ELSE IF s[k] \in these THEN Append(f[k - 1], s[k]) ELSE f[k - 1]]
FirstsFcn(s, these) == CHOOSE f : Firsts(f, s, these)

LEMMA AmongUnfolds == ASSUME NEW s, NEW these PROVE Among(s, these) = FirstsFcn(s, these)[Len(s)]
  BY DEF Among, FirstsFcn, Firsts

LEMMA FirstsExists ==
    ASSUME NEW S, NEW s \in Seq(S), NEW these
    PROVE  Firsts(FirstsFcn(s, these), s, these)
  <1> DEFINE L == Len(s)
             V == Seq(S)
             G == [k \in 1 .. L |-> [v \in V |-> IF s[k] \in these THEN Append(v, s[k]) ELSE v]]
  <1>1. L \in Nat /\ << >> \in V /\ G \in [1 .. L -> [V -> V]]
    OBVIOUS
  <1>0. PICK f : Follows(f, L, V, << >>, G)
    <2> HIDE DEF L, V, G
    <2> QED BY <1>1, RecursionHolds
  <1>2. f \in [0 .. L -> V] /\ f[0] = << >> /\ \A k \in 1 .. L : f[k] = G[k][f[k - 1]]
    <2> HIDE DEF L, V, G
    <2> QED BY <1>0 DEF Follows
  <1>3. \A k \in 1 .. L : f[k] = IF s[k] \in these THEN Append(f[k - 1], s[k]) ELSE f[k - 1]
    <2>1. \A k \in 1 .. L : f[k - 1] \in V
      <3> HIDE DEF G, V, L
      <3> QED BY <1>1, <1>2
    <2>2. \A k \in 1 .. L, v \in V : G[k][v] = IF s[k] \in these THEN Append(v, s[k]) ELSE v
      OBVIOUS
    <2> HIDE DEF G, V, L
    <2> QED BY <1>2, <2>1, <2>2
  <1>4. Firsts(f, s, these)
    <2> HIDE DEF L, V, G
    <2>1. \A k \in 0 .. L : f[k] = IF k = 0 THEN << >>
                                   ELSE IF s[k] \in these THEN Append(f[k - 1], s[k]) ELSE f[k - 1]
      <3>1. \A k \in 0 .. L : k = 0 \/ (k # 0 /\ k \in 1 .. L)
        BY <1>1
      <3> QED BY <3>1, <1>2, <1>3
    <2>2. f = [k \in 0 .. L |-> IF k = 0 THEN << >>
                                ELSE IF s[k] \in these THEN Append(f[k - 1], s[k]) ELSE f[k - 1]]
      BY <1>2, <2>1
    <2> QED BY <2>2 DEF Firsts, L
  <1> HIDE DEF Firsts
  <1> QED BY <1>4 DEF FirstsFcn

LEMMA SetOfAppend ==
    ASSUME NEW S, NEW s \in Seq(S), NEW e \in S
    PROVE  ToSet(Append(s, e)) = ToSet(s) \cup {e}
  <1> DEFINE t == Append(s, e)
  <1>1. /\ DOMAIN s = 1 .. Len(s) /\ DOMAIN t = 1 .. Len(s) + 1 /\ Len(s) \in Nat
        /\ t[Len(s) + 1] = e /\ \A i \in 1 .. Len(s) : t[i] = s[i]
    OBVIOUS
  <1>2. \A i : i \in 1 .. Len(s) + 1 <=> i \in 1 .. Len(s) \/ i = Len(s) + 1
    BY <1>1
  <1> HIDE DEF t
  <1>3. ToSet(t) = ToSet(s) \cup {e}
    BY <1>1, <1>2 DEF ToSet
  <1> QED BY <1>3 DEF t

LEMMA SetOfEmpty == ToSet(<< >>) = {}
  BY DEF ToSet

(* What Among() returns: a sequence of those members that are in the set.  *)
LEMMA AmongIs ==
    ASSUME NEW S, NEW s \in Seq(S), NEW these
    PROVE  Among(s, these) \in Seq(S) /\ ToSet(Among(s, these)) = ToSet(s) \cap these
  <1> DEFINE L == Len(s)
             f == FirstsFcn(s, these)
             Right(n) == /\ f[n] \in Seq(S)
                         /\ \A x : x \in ToSet(f[n]) <=> x \in these /\ \E i \in 1 .. n : x = s[i]
             X == {n \in Nat : n <= L => Right(n)}
  <1>l. L \in Nat /\ \A k \in 1 .. L : s[k] \in S
    OBVIOUS
  <1>a. Among(s, these) = f[L]
    BY AmongUnfolds
  <1>e. Firsts(f, s, these)
    BY FirstsExists
  <1> HIDE DEF f
  <1>f. \A k \in 0 .. L : f[k] = IF k = 0 THEN << >>
                                 ELSE IF s[k] \in these THEN Append(f[k - 1], s[k]) ELSE f[k - 1]
    BY <1>e DEF Firsts
  <1> HIDE DEF L
  <1>1. 0 \in X
    <2>1. f[0] = << >>
      BY <1>f, <1>l
    <2>2. Right(0)
      BY <2>1, SetOfEmpty
    <2> QED BY <2>2
  <1>2. ASSUME NEW n \in Nat, n \in X PROVE n + 1 \in X
    <2> SUFFICES ASSUME n + 1 <= L PROVE Right(n + 1)
      OBVIOUS
    <2>1. Right(n)
      BY <1>2, <1>l
    <2>2. n + 1 \in 0 .. L /\ n + 1 # 0 /\ (n + 1) - 1 = n /\ s[n + 1] \in S
      BY <1>l
    <2>3. \A i : i \in 1 .. n + 1 <=> i \in 1 .. n \/ i = n + 1
      OBVIOUS
    <2>4. CASE s[n + 1] \in these
      <3>1. f[n + 1] = Append(f[n], s[n + 1])
        BY <1>f, <2>2, <2>4
      <3>2. f[n + 1] \in Seq(S)
        BY <3>1, <2>1, <2>2
      <3>3. ToSet(f[n + 1]) = ToSet(f[n]) \cup {s[n + 1]}
        BY <3>1, <2>1, <2>2, SetOfAppend
      <3> QED BY <3>2, <3>3, <2>1, <2>3, <2>4
    <2>5. CASE s[n + 1] \notin these
      <3>1. f[n + 1] = f[n]
        BY <1>f, <2>2, <2>5
      <3> QED BY <3>1, <2>1, <2>3, <2>5
    <2> QED BY <2>4, <2>5
  <1>3. L \in X
    <2> HIDE DEF X
    <2> QED BY <1>1, <1>2, <1>l, InductiveSet
  <1>4. Right(L)
    BY <1>3, <1>l
  <1>5. \A x : x \in ToSet(s) <=> \E i \in 1 .. L : x = s[i]
    BY DEF ToSet, L
  <1> QED BY <1>a, <1>4, <1>5

Adds(f, g) == f = [k \in 0 .. Len(g) |-> IF k = 0 THEN 0 ELSE f[k - 1] + Ceiling[g[k]]]
AddsFcn(g) == CHOOSE f : Adds(f, g)

LEMMA MemoryUnfolds == ASSUME NEW g PROVE GroupMemory(g) = AddsFcn(g)[Len(g)]
  BY DEF GroupMemory, AddsFcn, Adds

(* The memory of a group of machines is a natural number.                  *)
LEMMA MemoryIs == ASSUME NEW g \in Seq(Nodes) PROVE GroupMemory(g) \in Nat
  <1> DEFINE L == Len(g)
             G == [k \in 1 .. L |-> [v \in Nat |-> v + Ceiling[g[k]]]]
             a == AddsFcn(g)
  <1>1. L \in Nat /\ \A k \in 1 .. L : Ceiling[g[k]] \in Nat
    BY LaunchAssumption
  <1>2. G \in [1 .. L -> [Nat -> Nat]]
    BY <1>1
  <1>0. PICK f : Follows(f, L, Nat, 0, G)
    <2> HIDE DEF L, G
    <2> QED BY <1>1, <1>2, RecursionHolds
  <1>3. f \in [0 .. L -> Nat] /\ f[0] = 0 /\ \A k \in 1 .. L : f[k] = G[k][f[k - 1]]
    <2> HIDE DEF L, G
    <2> QED BY <1>0 DEF Follows
  <1>4. \A k \in 1 .. L : f[k] = f[k - 1] + Ceiling[g[k]]
    <2>1. \A k \in 1 .. L : f[k - 1] \in Nat
      <3> HIDE DEF G, L
      <3> QED BY <1>1, <1>3
    <2>2. \A k \in 1 .. L, v \in Nat : G[k][v] = v + Ceiling[g[k]]
      OBVIOUS
    <2> HIDE DEF G, L
    <2> QED BY <1>3, <2>1, <2>2
  <1>5. Adds(f, g)
    <2> HIDE DEF L, G
    <2>1. \A k \in 0 .. L : f[k] = IF k = 0 THEN 0 ELSE f[k - 1] + Ceiling[g[k]]
      BY <1>1, <1>3, <1>4
    <2>2. f = [k \in 0 .. L |-> IF k = 0 THEN 0 ELSE f[k - 1] + Ceiling[g[k]]]
      BY <1>3, <2>1
    <2> QED BY <2>2 DEF Adds, L
  <1>6. Adds(a, g)
    <2> HIDE DEF Adds
    <2> QED BY <1>5 DEF AddsFcn
  <1> HIDE DEF a
  <1>7. \A k \in 0 .. L : a[k] = IF k = 0 THEN 0 ELSE a[k - 1] + Ceiling[g[k]]
    BY <1>6 DEF Adds
  <1> HIDE DEF L
  <1>8. a[0] \in Nat /\ \A k \in 1 .. L : a[k - 1] \in Nat => a[k] \in Nat
    <2>1. 0 \in 0 .. L /\ \A k \in 1 .. L : k \in 0 .. L /\ k # 0
      BY <1>1
    <2>2. a[0] = 0 /\ \A k \in 1 .. L : a[k] = a[k - 1] + Ceiling[g[k]]
      BY <1>7, <2>1
    <2>3. ASSUME NEW k \in 1 .. L, a[k - 1] \in Nat PROVE a[k] \in Nat
      <3>1. a[k] = a[k - 1] + Ceiling[g[k]] /\ Ceiling[g[k]] \in Nat
        BY <1>1, <2>2
      <3> QED BY <2>3, <3>1
    <2> QED BY <2>2, <2>3
  <1>9. a[L] \in Nat
    <2>1. \A k \in 0 .. L : a[k] \in Nat
      BY <1>1, <1>8, Along
    <2> QED BY <1>1, <2>1
  <1> QED BY <1>9, MemoryUnfolds DEF a, L

----------------------------------------------------------------------------
(* Plans.                                                                  *)

LEMMA GroupIs ==
    ASSUME NEW nodes \in Seq(Nodes), NEW n \in ToSet(nodes)
    PROVE  /\ Group(nodes, n) \in Seq(Nodes) /\ GroupMemory(Group(nodes, n)) \in Nat
           /\ n \in ToSet(Group(nodes, n)) /\ ToSet(Group(nodes, n)) \subseteq ToSet(nodes)
           /\ ~Unlike(Group(nodes, n))
  <1> DEFINE like == {m \in Nodes : HardwareOf[m] = HardwareOf[n]}
             g == Group(nodes, n)
  <1>1. n \in Nodes
    BY DEF ToSet
  <1>2. g \in Seq(Nodes) /\ ToSet(g) = ToSet(nodes) \cap like
    BY AmongIs DEF Group
  <1> HIDE DEF g
  <1>3. n \in ToSet(g) /\ ToSet(g) \subseteq ToSet(nodes)
    BY <1>1, <1>2
  <1>4. ~Unlike(g)
    BY <1>2 DEF Unlike
  <1>5. GroupMemory(g) \in Nat
    BY <1>2, MemoryIs
  <1> QED BY <1>2, <1>3, <1>4, <1>5 DEF g

(* One of finitely many groups is the strongest, and its machines are      *)
(* alike.                                                                  *)
LEMMA StrongestIs ==
    ASSUME NEW nodes \in Seq(Nodes), nodes # << >>
    PROVE  \E n \in ToSet(nodes) : StrongestGroup(nodes) = Group(nodes, n)
  <1> DEFINE w == Len(nodes)
             f == [i \in 1 .. w |-> GroupMemory(Group(nodes, nodes[i]))]
             Gs == {Group(nodes, n) : n \in ToSet(nodes)}
             Best(g) == \A h \in Gs : GroupMemory(h) <= GroupMemory(g)
  <1>1. w \in Nat \ {0} /\ \A i \in 1 .. w : nodes[i] \in ToSet(nodes)
    BY DEF ToSet
  <1>2. \A n \in ToSet(nodes) : \E i \in 1 .. w : n = nodes[i]
    BY DEF ToSet
  <1> HIDE DEF w
  <1>3. f \in [1 .. w -> Nat]
    BY <1>1, GroupIs
  <1>4. \A i \in 1 .. w : f[i] = GroupMemory(Group(nodes, nodes[i]))
    OBVIOUS
  <1> HIDE DEF f
  <1>5. PICK i \in 1 .. w : \A j \in 1 .. w : f[j] <= f[i]
    BY <1>1, <1>3, GreatestOfRow
  <1>6. Best(Group(nodes, nodes[i]))
    <2> SUFFICES ASSUME NEW n \in ToSet(nodes)
                 PROVE  GroupMemory(Group(nodes, n)) <= GroupMemory(Group(nodes, nodes[i]))
      OBVIOUS
    <2>1. PICK j \in 1 .. w : n = nodes[j]
      BY <1>2
    <2>2. f[j] = GroupMemory(Group(nodes, n)) /\ f[i] = GroupMemory(Group(nodes, nodes[i])) /\ f[j] <= f[i]
      BY <2>1, <1>4, <1>5
    <2> QED BY <2>2
  <1>7. Group(nodes, nodes[i]) \in Gs
    BY <1>1
  <1>8. StrongestGroup(nodes) = CHOOSE g \in Gs : Best(g)
    BY DEF StrongestGroup
  <1> HIDE DEF Best
  <1>9. StrongestGroup(nodes) \in Gs
    <2> HIDE DEF Gs
    <2> QED BY <1>6, <1>7, <1>8
  <1> QED BY <1>9

LEMMA FirstOf ==
    ASSUME NEW S, NEW s \in Seq(S), NEW k \in 1 .. Len(s)
    PROVE  /\ SubSeq(s, 1, k) \in Seq(S) /\ Len(SubSeq(s, 1, k)) = k /\ SubSeq(s, 1, k) # << >>
           /\ ToSet(SubSeq(s, 1, k)) \subseteq ToSet(s)
  <1> DEFINE t == SubSeq(s, 1, k)
  <1>1. t \in Seq(S) /\ Len(t) = k
    OBVIOUS
  <1>2. DOMAIN t = 1 .. k /\ \A i \in 1 .. k : t[i] = s[i]
    OBVIOUS
  <1>3. \A i \in 1 .. k : i \in DOMAIN s
    OBVIOUS
  <1> HIDE DEF t
  <1>4. ToSet(t) \subseteq ToSet(s)
    BY <1>2, <1>3 DEF ToSet
  <1>5. t # << >>
    BY <1>1
  <1> QED BY <1>1, <1>4, <1>5 DEF t

LEMMA RecommendedIs ==
    ASSUME NEW nodes \in Seq(Nodes), nodes # << >>, NEW pool \in BOOLEAN
    PROVE  /\ Recommended(nodes, pool) \in Seq(Nodes) /\ Recommended(nodes, pool) # << >>
           /\ ToSet(Recommended(nodes, pool)) \subseteq ToSet(nodes)
           /\ ~pool => ~Unlike(Recommended(nodes, pool))
  <1> DEFINE from == IF pool THEN nodes ELSE StrongestGroup(nodes)
             enough == {k \in 1 .. Len(from) : Fits(SubSeq(from, 1, k), 1, << >>)}
             k == IF enough = {} THEN Len(from) ELSE Min(enough)
  <1>1. /\ from \in Seq(Nodes) /\ from # << >> /\ ToSet(from) \subseteq ToSet(nodes)
        /\ ~pool => ~Unlike(from)
    <2>1. CASE pool
      BY <2>1
    <2>2. CASE ~pool
      <3>1. PICK n \in ToSet(nodes) : StrongestGroup(nodes) = Group(nodes, n)
        BY StrongestIs
      <3> DEFINE g == Group(nodes, n)
      <3>2. from = g
        BY <2>2, <3>1
      <3>3. g \in Seq(Nodes) /\ n \in ToSet(g) /\ ToSet(g) \subseteq ToSet(nodes) /\ ~Unlike(g)
        BY GroupIs
      <3> HIDE DEF g, from
      <3>4. g # << >>
        BY <3>3, SetOfEmpty
      <3> QED BY <3>2, <3>3, <3>4
    <2> QED BY <2>1, <2>2
  <1>2. Recommended(nodes, pool) = SubSeq(from, 1, k)
    BY DEF Recommended
  <1> HIDE DEF from
  <1>3. k \in 1 .. Len(from)
    <2>1. CASE enough = {}
      BY <2>1, <1>1
    <2>2. CASE enough # {}
      <3>1. enough \subseteq Nat /\ enough \subseteq 1 .. Len(from)
        OBVIOUS
      <3> HIDE DEF enough
      <3>2. Min(enough) \in enough
        BY <3>1, <2>2, LeastOfNaturals
      <3> QED BY <3>1, <3>2, <2>2
    <2> QED BY <2>1, <2>2
  <1> HIDE DEF k
  <1> DEFINE t == SubSeq(from, 1, k)
  <1>4. t \in Seq(Nodes) /\ t # << >> /\ ToSet(t) \subseteq ToSet(from)
    BY <1>1, <1>3, FirstOf
  <1>5. Recommended(nodes, pool) = t
    BY <1>2
  <1> HIDE DEF t
  <1>6. ~pool => ~Unlike(t)
    BY <1>1, <1>4 DEF Unlike
  <1> QED BY <1>1, <1>4, <1>5, <1>6

(* What is known of a plan: it uses machines, those the operator named, as *)
(* many as he said, and unlike ones only if he named them or their number. *)
Planned(body, plan) ==
    /\ plan \in Seq(Nodes) /\ plan # << >>
    /\ body.named => ToSet(plan) \subseteq ToSet(body.nodes)
    /\ body.degree > 0 => Len(plan) = body.degree
    /\ ~body.named /\ body.degree = 0 => ~Unlike(plan)

LEMMA PlanIs ==
    ASSUME NEW body \in LaunchRequests, body.degree >= 0, NEW nodes \in Seq(Nodes), nodes # << >>,
           body.named => nodes = body.nodes, LegalDegree(body, nodes)
    PROVE  Planned(body, PlanOf(body, nodes))
  <1>1. body.named \in BOOLEAN /\ body.degree \in Nat
    BY LaunchAssumption
  <1>2. CASE body.degree = 0
    <2> DEFINE p == Recommended(nodes, body.named)
    <2>1. p \in Seq(Nodes) /\ p # << >> /\ ToSet(p) \subseteq ToSet(nodes) /\ (~body.named => ~Unlike(p))
      BY <1>1, RecommendedIs
    <2>2. PlanOf(body, nodes) = p
      BY <1>2 DEF PlanOf
    <2> HIDE DEF p
    <2>3. ~(body.degree > 0)
      BY <1>2
    <2> QED BY <2>1, <2>2, <2>3 DEF Planned
  <1>3. CASE body.degree # 0
    <2> DEFINE p == SubSeq(nodes, 1, body.degree)
    <2>1. body.degree \in 1 .. Len(nodes)
      BY <1>1, <1>3 DEF LegalDegree
    <2>2. p \in Seq(Nodes) /\ p # << >> /\ Len(p) = body.degree /\ ToSet(p) \subseteq ToSet(nodes)
      BY <2>1, FirstOf
    <2>3. PlanOf(body, nodes) = p
      BY <1>3 DEF PlanOf
    <2> HIDE DEF p
    <2> QED BY <2>2, <2>3, <1>3 DEF Planned
  <1> QED BY <1>2, <1>3

----------------------------------------------------------------------------
(* The two fits: what holds in the memory that is left holds in all of it. *)

LEMMA NeedIs ==
    ASSUME NEW context \in Nat, NEW ranks \in Nat \ {0}
    PROVE  Need(context, ranks) \in Int
  <1> DEFINE x == WeightBytes + context * CacheBytes
  <1>1. x \in Nat
    BY LaunchAssumption
  <1> HIDE DEF x
  <1>2. (x + ranks - 1) \div ranks \in Int
    BY <1>1
  <1> QED BY <1>2 DEF Need, LaunchCeil, x

LEMMA LiveWithinStatic ==
    ASSUME NEW plan \in Seq(Nodes), plan # << >>, NEW context \in Nat, NEW budgets,
           \A n \in DOMAIN budgets : budgets[n] \in Nat /\ budgets[n] <= Ceiling[n],
           Fits(plan, context, budgets)
    PROVE  Fits(plan, context, << >>)
  <1> DEFINE P == ToSet(plan)
             left(n) == IF n \in DOMAIN budgets THEN budgets[n] ELSE Ceiling[n]
             A == {left(n) : n \in P}
             B == {Ceiling[n] : n \in P}
             need == Need(context, Len(plan))
  <1>1. P # {} /\ P \subseteq Nodes
    <2>1. Len(plan) \in Nat \ {0} /\ DOMAIN plan = 1 .. Len(plan) /\ \A i \in DOMAIN plan : plan[i] \in Nodes
      OBVIOUS
    <2>2. 1 \in DOMAIN plan
      BY <2>1
    <2> QED BY <2>1, <2>2 DEF ToSet
  <1>2. \A n \in P : Ceiling[n] \in Nat /\ left(n) \in Nat /\ left(n) <= Ceiling[n]
    BY <1>1, LaunchAssumption
  <1>3. need \in Int
    BY NeedIs
  <1>4. need <= Min(A)
    <2>1. Budget(plan, budgets) = Min(A)
      BY DEF Budget
    <2>2. need <= Budget(plan, budgets)
      BY DEF Fits
    <2> HIDE DEF A, need
    <2> QED BY <2>1, <2>2
  <1>5. Budget(plan, << >>) = Min(B)
    <2>1. DOMAIN << >> = {}
      OBVIOUS
    <2>2. \A n : (IF n \in DOMAIN << >> THEN << >>[n] ELSE Ceiling[n]) = Ceiling[n]
      BY <2>1
    <2>3. {IF n \in DOMAIN << >> THEN << >>[n] ELSE Ceiling[n] : n \in P} = B
      BY <2>2
    <2> QED BY <2>3 DEF Budget
  <1> HIDE DEF P, left, need
  <1>6. Min(A) \in A /\ \A y \in A : Min(A) <= y
    <2>1. A \subseteq Nat /\ A # {}
      BY <1>1, <1>2
    <2> HIDE DEF A
    <2> QED BY <2>1, LeastOfNaturals
  <1>7. Min(B) \in B
    <2>1. B \subseteq Nat /\ B # {}
      BY <1>1, <1>2
    <2> HIDE DEF B
    <2> QED BY <2>1, LeastOfNaturals
  <1> DEFINE a == Min(A)  b == Min(B)
  <1>8. PICK n \in P : b = Ceiling[n]
    BY <1>7
  <1>9. a <= left(n) /\ a \in Nat
    BY <1>6, <1>2
  <1> HIDE DEF a, b
  <1>10. need <= b
    <2>1. need <= a
      BY <1>4 DEF a
    <2> QED BY <2>1, <1>2, <1>3, <1>8, <1>9
  <1> QED BY <1>10, <1>5 DEF Fits, b, need

LEMMA ContextIs ==
    ASSUME NEW body \in LaunchRequests, NEW plan, NEW budgets
    PROVE  /\ ContextOf(body, plan, budgets) \in Nat
           /\ body.context > 0 => ContextOf(body, plan, budgets) = body.context
  <1> DEFINE fitting == {c \in 1 .. Window : Fits(plan, c, budgets)}
  <1>1. body.context \in Nat /\ Window \in Nat
    BY LaunchAssumption
  <1>2. fitting # {} => Max(fitting) \in Nat
    <2>1. fitting \subseteq 1 .. Window
      OBVIOUS
    <2> HIDE DEF fitting
    <2>2. fitting # {} => Max(fitting) \in fitting
      BY <2>1, <1>1, GreatestOfBounded
    <2>3. \A c \in 1 .. Window : c \in Nat
      BY <1>1
    <2> QED BY <2>1, <2>2, <2>3
  <1>3. ContextOf(body, plan, budgets)
          = IF body.context > 0 THEN body.context ELSE IF fitting = {} THEN 1 ELSE Max(fitting)
    BY DEF ContextOf
  <1> HIDE DEF fitting
  <1> QED BY <1>1, <1>2, <1>3

(* Memory that was read is a natural number below the ceiling.             *)
LEMMA LiveBudgetIs ==
    ASSUME NEW plan, used \in [Nodes -> {Unsampled} \cup UsedLevels], up \subseteq Nodes
    PROVE  /\ DOMAIN LiveBudget(plan) \subseteq ToSet(plan)
           /\ \A n \in DOMAIN LiveBudget(plan) :
                  LiveBudget(plan)[n] \in Nat /\ LiveBudget(plan)[n] <= Ceiling[n]
  <1> DEFINE D == {m \in ToSet(plan) \cap up : used[m] # Unsampled}
  <1>1. LiveBudget(plan) = [n \in D |-> Allocatable(n)]
    BY DEF LiveBudget
  <1>2. D \subseteq ToSet(plan) /\ \A n \in D : n \in Nodes /\ used[n] \in Nat /\ Ceiling[n] \in Nat
    BY LaunchAssumption
  <1>3. \A n \in D : Allocatable(n) \in Nat /\ Allocatable(n) <= Ceiling[n]
    BY <1>2 DEF Allocatable
  <1> HIDE DEF D
  <1> QED BY <1>1, <1>2, <1>3

----------------------------------------------------------------------------
(* The preview and the gates of the launch.                                *)

(* What a launch that passes the gates has.                                *)
Passes(body, plan, o) ==
    /\ body.runtime \in Supports /\ CanShard(body, plan) /\ o.static
    /\ o.mixed => body.mixed
    /\ o.live = "wont_fit" => body.over

LEMMA GateIs ==
    ASSUME NEW body, NEW plan, NEW o
    PROVE  Gate(body, plan, o) = "launch" <=> Passes(body, plan, o)
  <1> DEFINE A == body.runtime \notin Supports
             B == ~CanShard(body, plan)
             C == ~o.static
             D == o.mixed /\ ~body.mixed
             E == o.live = "wont_fit" /\ ~body.over
  <1>1. Gate(body, plan, o) = IF A THEN "runtime_unsupported" ELSE IF B THEN "runtime_cannot_shard"
                            ELSE IF C THEN "wont_fit" ELSE IF D THEN "mixed_hardware_not_allowed"
                            ELSE IF E THEN "live_memory_insufficient" ELSE "launch"
    BY DEF Gate
  <1>2. Passes(body, plan, o) <=> ~A /\ ~B /\ ~C /\ ~D /\ ~E
    BY DEF Passes
  <1> HIDE DEF A, B, C, D, E
  <1> QED BY <1>1, <1>2

LEMMA OutcomeIs ==
    ASSUME NEW body \in LaunchRequests, NEW plan \in Seq(Nodes), plan # << >>, NEW budgets,
           \A n \in DOMAIN budgets : budgets[n] \in Nat /\ budgets[n] <= Ceiling[n]
    PROVE  LET o == Outcome(body, plan, budgets)
           IN  o.live \in {"unknown", "fits", "wont_fit"} /\ (o.live = "fits" => o.static)
  <1> DEFINE c == ContextOf(body, plan, budgets)
             o == Outcome(body, plan, budgets)
  <1>1. c \in Nat
    BY ContextIs
  <1> HIDE DEF c
  <1>2. /\ o.static = Fits(plan, c, << >>)
        /\ o.live = IF budgets = << >> THEN "unknown" ELSE IF Fits(plan, c, budgets) THEN "fits" ELSE "wont_fit"
    BY DEF Outcome, c
  <1>3. Fits(plan, c, budgets) => Fits(plan, c, << >>)
    BY <1>1, LiveWithinStatic
  <1> HIDE DEF o
  <1>4. o.live \in {"unknown", "fits", "wont_fit"} /\ (o.live = "fits" => o.static)
    BY <1>2, <1>3
  <1> QED BY <1>4 DEF o

LEMMA ServeAgrees ==
    ASSUME NEW body \in LaunchRequests, body.runtime \in Shards, NEW plan, NEW o,
           o.live \in {"unknown", "fits", "wont_fit"}, o.live = "fits" => o.static
    PROVE  LET s == Serve(body, o)
               gate == Gate(Ticked(body, s.overrides), plan, o)
           IN  /\ s.allowed => gate = "launch"
               /\ ~s.allowed /\ s.overrides = {} => gate # "launch"
  <1> DEFINE s == Serve(body, o)
             b == Ticked(body, s.overrides)
             refused == IF o.live = "unknown" THEN ~o.static ELSE o.live = "wont_fit"
             over == IF refused THEN {"over"} ELSE {}
             mixed == IF o.mixed THEN {"mixed"} ELSE {}
             ticks == IF refused /\ o.live = "unknown" THEN {} ELSE over \cup mixed
  <1>1. b.runtime = body.runtime /\ (b.over <=> "over" \in s.overrides) /\ (b.mixed <=> "mixed" \in s.overrides)
    BY LaunchAssumption DEF Ticked
  <1>2. CanShard(b, plan)
    BY <1>1 DEF CanShard
  <1>3. body.runtime \notin Supports => ~s.allowed
    BY DEF Serve
  <1>4. body.runtime \in Supports => (s.allowed <=> ~refused) /\ s.overrides = ticks
    BY DEF Serve
  <1> HIDE DEF s, b
  <1>5. Gate(b, plan, o) = "launch" <=> Passes(b, plan, o)
    BY GateIs
  <1>6. ASSUME s.allowed PROVE Gate(b, plan, o) = "launch"
    <2>1. body.runtime \in Supports /\ ~refused /\ s.overrides = ticks
      BY <1>3, <1>4, <1>6
    <2>2. o.static /\ o.live # "wont_fit"
      BY <2>1
    <2>3. o.mixed => "mixed" \in s.overrides
      BY <2>1
    <2> QED BY <2>1, <2>2, <2>3, <1>1, <1>2, <1>5 DEF Passes
  <1>7. ASSUME ~s.allowed, s.overrides = {} PROVE Gate(b, plan, o) # "launch"
    <2>1. CASE body.runtime \notin Supports
      BY <2>1, <1>1, <1>5 DEF Passes
    <2>2. CASE body.runtime \in Supports
      <3>1. refused /\ ticks = {}
        BY <2>2, <1>4, <1>7
      <3>2. o.live = "unknown"
        BY <3>1
      <3>3. ~o.static
        BY <3>1, <3>2
      <3> QED BY <3>3, <1>5 DEF Passes
    <2> QED BY <2>1, <2>2
  <1> QED BY <1>6, <1>7 DEF s, b

(* _select_nodes() hands on enrolled machines.                             *)
LEMMA ChosenIs ==
    ASSUME NEW body \in LaunchRequests, NEW healthy, healthy \subseteq Nodes, SelectNodes(body, healthy).ok
    PROVE  /\ SelectNodes(body, healthy).nodes \in Seq(Nodes)
           /\ body.named => SelectNodes(body, healthy).nodes = body.nodes
  <1>1. CASE ~body.named
    <2>1. SelectNodes(body, healthy).nodes = Among(NodeIds, healthy)
      BY <1>1 DEF SelectNodes
    <2>2. Among(NodeIds, healthy) \in Seq(Nodes)
      BY AmongIs, LaunchAssumption
    <2> QED BY <1>1, <2>1, <2>2
  <1>2. CASE body.named
    <2>1. SelectNodes(body, healthy).nodes = body.nodes /\ ToSet(body.nodes) \subseteq healthy
      BY <1>2 DEF SelectNodes
    <2>2. body.nodes \in Seq(ToSet(body.nodes))
      BY LaunchAssumption
    <2>3. ToSet(body.nodes) \subseteq Nodes
      BY <2>1
    <2>4. body.nodes \in Seq(Nodes)
      <3> DEFINE t == body.nodes  S == ToSet(t)
      <3>1. t \in Seq(S) /\ S \subseteq Nodes
        BY <2>2, <2>3
      <3> HIDE DEF t, S
      <3>2. t \in Seq(Nodes)
        BY <3>1
      <3> QED BY <3>2 DEF t
    <2> QED BY <2>1, <2>4
  <1> QED BY <1>1, <1>2

LEMMA PreviewAgrees ==
    ASSUME up \subseteq Nodes, used \in [Nodes -> {Unsampled} \cup UsedLevels],
           NEW body \in LaunchRequests, body.runtime \in Shards
    PROVE  Agrees(body)
  <1> DEFINE plan == PlannedNow(body)
             nodes == SelectNodes(body, up).nodes
             budgets == LiveBudget(plan)
             o == Outcome(body, plan, budgets)
             s == Serve(body, o)
             gate == Gate(Ticked(body, s.overrides), plan, o)
  <1> SUFFICES ASSUME Plannable(body)
               PROVE  /\ s.allowed => gate = "launch"
                      /\ ~s.allowed /\ s.overrides = {} => gate # "launch"
    BY DEF Agrees
  <1>1. /\ WellFormed(body) /\ SelectNodes(body, up).ok /\ nodes # << >> /\ LegalDegree(body, nodes)
    BY DEF Plannable
  <1>2. nodes \in Seq(Nodes) /\ (body.named => nodes = body.nodes)
    BY <1>1, ChosenIs
  <1>3. body.degree >= 0
    BY <1>1 DEF WellFormed
  <1>4. plan = PlanOf(body, nodes)
    BY DEF PlannedNow
  <1> HIDE DEF nodes, plan
  <1>5. Planned(body, plan)
    BY <1>1, <1>2, <1>3, <1>4, PlanIs
  <1>6. plan \in Seq(Nodes) /\ plan # << >>
    BY <1>5 DEF Planned
  <1>7. \A n \in DOMAIN budgets : budgets[n] \in Nat /\ budgets[n] <= Ceiling[n]
    BY LiveBudgetIs
  <1> HIDE DEF budgets
  <1>8. o.live \in {"unknown", "fits", "wont_fit"} /\ (o.live = "fits" => o.static)
    BY <1>6, <1>7, OutcomeIs
  <1> HIDE DEF o
  <1> QED BY <1>8, ServeAgrees

----------------------------------------------------------------------------
(* The inductive invariant.  A call keeps, from stage to stage, what the   *)
(* earlier stages have found out about its request, and a call that is     *)
(* launching has passed the gates with the very figures it will hand over. *)

Underway == {"resolving", "planning", "fitting", "launching"}

Parsed(w) ==
    /\ w.body \in LaunchRequests /\ WellFormed(w.body)
    /\ w.body.kind = "launch" => ~w.body.dtype

NodesKnown(w) ==
    /\ w.nodes \in Seq(Nodes) /\ w.nodes # << >>
    /\ w.body.named => w.nodes = w.body.nodes

Laid(w) == Planned(w.body, w.plan) /\ EveryNodeUsed(w.body, w.plan)

Admitted(w) ==
    w.body.kind = "launch" /\ Passes(w.body, w.plan, Outcome(w.body, w.plan, w.budgets))

CallInv(w) ==
    /\ DOMAIN w = {"stage", "body", "nodes", "plan", "budgets", "answer"}
    /\ w.stage \in {"idle", "done"} \cup Underway
    /\ w.stage = "done" <=> w.answer # "none"
    /\ DOMAIN w.budgets \subseteq ToSet(w.plan)
    /\ w.stage \in Underway => Parsed(w)
    /\ w.stage = "planning" => NodesKnown(w)
    /\ w.stage \in {"fitting", "launching"} => Laid(w)
    /\ w.stage = "launching" => Admitted(w)

Accepted(d) ==
    /\ Fits(d.plan, d.context, << >>)
    /\ d.body.runtime \in Supports /\ (Len(d.plan) > 1 => d.body.runtime \in Shards)
    /\ Unlike(d.plan) => \/ d.body.named /\ d.body.mixed /\ "mixed" \in d.warned
                         \/ ~d.body.named /\ d.body.degree > 0
    /\ "over" \in d.warned => d.body.over
    /\ ~d.body.dtype
    /\ d.body.named => ToSet(d.plan) \subseteq ToSet(d.body.nodes)
    /\ d.body.named /\ d.body.degree > 0 => ToSet(d.plan) = ToSet(d.body.nodes)
    /\ d.body.degree > 0 => Len(d.plan) = d.body.degree
    /\ d.body.context > 0 => d.context = d.body.context

LInv ==
    /\ up \subseteq Nodes /\ used \in [Nodes -> {Unsampled} \cup UsedLevels]
    /\ DOMAIN work = LaunchCalls /\ \A c \in LaunchCalls : CallInv(work[c])
    /\ \A d \in placed : Accepted(d)

LEMMA CallMoves ==
    ASSUME LInv, NEW c \in LaunchCalls, NEW w, CallInv(w), work' = [work EXCEPT ![c] = w],
           UNCHANGED <<up, used>>, \A d \in placed' : d \in placed \/ Accepted(d)
    PROVE  LInv'
  <1>1. DOMAIN work' = LaunchCalls /\ \A b \in LaunchCalls : work'[b] = IF b = c THEN w ELSE work[b]
    BY DEF LInv
  <1>2. \A b \in LaunchCalls : CallInv(work'[b])
    <2> HIDE DEF CallInv
    <2> QED BY <1>1 DEF LInv
  <1>3. \A d \in placed' : Accepted(d)
    <2> HIDE DEF Accepted
    <2> QED BY DEF LInv
  <1> HIDE DEF CallInv, Accepted
  <1> QED BY <1>1, <1>2, <1>3 DEF LInv

LEMMA FreshIs == CallInv(Fresh)
  <1>1. DOMAIN << >> \subseteq ToSet(<< >>)
    OBVIOUS
  <1> QED BY <1>1 DEF CallInv, Fresh, Underway

(* A call that answers has no more to promise than its books.              *)
LEMMA AnswerIs ==
    ASSUME NEW c, CallInv(work[c]), NEW code, code # "none"
    PROVE  CallInv(Answer(c, code))
  <1> DEFINE w == work[c]  v == Answer(c, code)
  <1>1. /\ DOMAIN v = DOMAIN w /\ v.stage = "done" /\ v.answer = code
        /\ v.budgets = w.budgets /\ v.plan = w.plan
    BY DEF Answer, CallInv
  <1> HIDE DEF v
  <1>2. CallInv(v)
    BY <1>1 DEF CallInv, Underway
  <1> QED BY <1>2 DEF v

LEMMA BeginKeeps ==
    ASSUME LInv, NEW c \in LaunchCalls, NEW body \in LaunchRequests, Begin(c, body)
    PROVE  LInv'
  <1> DEFINE w == [Fresh EXCEPT !.body = body, !.stage = "resolving"]
             refused(code) == [w EXCEPT !.stage = "done", !.answer = code]
             v == IF body.kind = "launch" /\ body.dtype THEN refused("dtype_not_launchable")
                  ELSE IF ~WellFormed(body) THEN refused("invalid_request")
                  ELSE w
  <1>1. work' = [work EXCEPT ![c] = v] /\ UNCHANGED <<up, used, placed>>
    BY DEF Begin
  <1>2. /\ DOMAIN w = {"stage", "body", "nodes", "plan", "budgets", "answer"}
        /\ w.stage = "resolving" /\ w.body = body /\ w.answer = "none" /\ w.budgets = << >> /\ w.plan = << >>
    BY DEF Fresh
  <1>e. DOMAIN << >> \subseteq ToSet(<< >>)
    OBVIOUS
  <1> HIDE DEF w
  <1>3. ASSUME NEW code, code # "none" PROVE CallInv(refused(code))
    <2> DEFINE u == refused(code)
    <2>1. DOMAIN u = DOMAIN w /\ u.stage = "done" /\ u.answer = code /\ u.budgets = << >> /\ u.plan = << >>
      BY <1>2
    <2> HIDE DEF u
    <2>2. CallInv(u)
      BY <2>1, <1>2, <1>3, <1>e DEF CallInv, Underway
    <2> QED BY <2>2 DEF u
  <1>4. ASSUME WellFormed(body), ~(body.kind = "launch" /\ body.dtype) PROVE CallInv(w)
    BY <1>2, <1>4, <1>e DEF CallInv, Underway, Parsed
  <1> HIDE DEF refused
  <1>5. CallInv(v)
    <2>1. CASE body.kind = "launch" /\ body.dtype
      BY <2>1, <1>3
    <2>2. CASE ~(body.kind = "launch" /\ body.dtype) /\ ~WellFormed(body)
      BY <2>2, <1>3
    <2>3. CASE ~(body.kind = "launch" /\ body.dtype) /\ WellFormed(body)
      BY <2>3, <1>4
    <2> QED BY <2>1, <2>2, <2>3
  <1> HIDE DEF v, CallInv
  <1> QED BY <1>1, <1>5, CallMoves

LEMMA ResolveKeeps ==
    ASSUME LInv, NEW c \in LaunchCalls, NEW found \in BOOLEAN, Resolve(c, found)
    PROVE  LInv'
  <1> DEFINE w == work[c]
             chosen == SelectNodes(w.body, up)
             u == [w EXCEPT !.stage = "planning", !.nodes = chosen.nodes]
             v == IF ~found THEN Answer(c, "plan_error")
                  ELSE IF ~chosen.ok THEN Answer(c, "placement_refused")
                  ELSE IF chosen.nodes = << >> THEN Answer(c, "plan_error")
                  ELSE u
  <1>1. CallInv(w) /\ up \subseteq Nodes
    BY DEF LInv
  <1>2. w.stage = "resolving" /\ work' = [work EXCEPT ![c] = v] /\ UNCHANGED <<up, used, placed>>
    BY DEF Resolve, LInv
  <1>3. CallInv(Answer(c, "plan_error")) /\ CallInv(Answer(c, "placement_refused"))
    <2> HIDE DEF CallInv
    <2> QED BY <1>1, AnswerIs
  <1>4. ASSUME chosen.ok, chosen.nodes # << >> PROVE CallInv(u)
    <2>1. Parsed(w) /\ w.answer = "none" /\ DOMAIN w.budgets \subseteq ToSet(w.plan)
      <3> HIDE DEF w
      <3> QED BY <1>1, <1>2 DEF CallInv, Underway
    <2>2. chosen.nodes \in Seq(Nodes) /\ (w.body.named => chosen.nodes = w.body.nodes)
      <3>1. w.body \in LaunchRequests
        BY <2>1 DEF Parsed
      <3> HIDE DEF w
      <3> QED BY <3>1, <1>1, <1>4, ChosenIs
    <2>3. /\ DOMAIN u = {"stage", "body", "nodes", "plan", "budgets", "answer"} /\ u.stage = "planning"
          /\ u.body = w.body /\ u.nodes = chosen.nodes /\ u.plan = w.plan /\ u.budgets = w.budgets
          /\ u.answer = w.answer
      BY <1>1 DEF CallInv
    <2> HIDE DEF u, chosen, w
    <2>4. Parsed(u) /\ NodesKnown(u)
      BY <2>1, <2>2, <2>3, <1>4 DEF Parsed, NodesKnown
    <2> QED BY <2>1, <2>3, <2>4 DEF CallInv, Underway
  <1> HIDE DEF u, chosen, CallInv
  <1>5. CallInv(v)
    BY <1>3, <1>4
  <1> HIDE DEF v
  <1> QED BY <1>2, <1>5, CallMoves

LEMMA PlanAndFitKeeps ==
    ASSUME LInv, NEW c \in LaunchCalls, PlanAndFit(c)
    PROVE  LInv'
  <1> DEFINE w == work[c]
             plan == PlanOf(w.body, w.nodes)
             readings == LiveBudget(plan)
             u == [w EXCEPT !.stage = "fitting", !.plan = plan, !.budgets = readings]
             v == IF ~LegalDegree(w.body, w.nodes) THEN Answer(c, "illegal_parallelism")
                  ELSE IF ~EveryNodeUsed(w.body, plan) THEN Answer(c, "placement_underfilled")
                  ELSE u
  <1>1. CallInv(w)
    BY DEF LInv
  <1>2. w.stage = "planning" /\ work' = [work EXCEPT ![c] = v] /\ UNCHANGED <<up, used, placed>>
    BY DEF PlanAndFit, LInv
  <1>3. CallInv(Answer(c, "illegal_parallelism")) /\ CallInv(Answer(c, "placement_underfilled"))
    <2> HIDE DEF CallInv
    <2> QED BY <1>1, AnswerIs
  <1>4. ASSUME LegalDegree(w.body, w.nodes), EveryNodeUsed(w.body, plan) PROVE CallInv(u)
    <2>1. Parsed(w) /\ NodesKnown(w) /\ w.answer = "none"
      <3> HIDE DEF w
      <3> QED BY <1>1, <1>2 DEF CallInv, Underway
    <2>2. /\ DOMAIN u = {"stage", "body", "nodes", "plan", "budgets", "answer"} /\ u.stage = "fitting"
          /\ u.body = w.body /\ u.plan = plan /\ u.budgets = readings /\ u.answer = w.answer
      BY <1>1 DEF CallInv
    <2>3. DOMAIN readings \subseteq ToSet(plan)
      <3> HIDE DEF plan
      <3> QED BY LiveBudgetIs DEF LInv
    <2> HIDE DEF u, readings
    <2>4. Planned(w.body, plan)
      <3>1. w.body \in LaunchRequests /\ w.body.degree >= 0
        BY <2>1 DEF Parsed, WellFormed
      <3>2. w.nodes \in Seq(Nodes) /\ w.nodes # << >> /\ (w.body.named => w.nodes = w.body.nodes)
        BY <2>1 DEF NodesKnown
      <3> HIDE DEF w
      <3> QED BY <3>1, <3>2, <1>4, PlanIs
    <2> HIDE DEF w, plan
    <2>5. Parsed(u) /\ Laid(u)
      BY <2>1, <2>2, <2>4, <1>4 DEF Parsed, Laid
    <2> QED BY <2>1, <2>2, <2>3, <2>5 DEF CallInv, Underway
  <1> HIDE DEF u, plan, CallInv
  <1>5. CallInv(v)
    BY <1>3, <1>4
  <1> HIDE DEF v
  <1> QED BY <1>2, <1>5, CallMoves

LEMMA JudgeKeeps ==
    ASSUME LInv, NEW c \in LaunchCalls, Judge(c)
    PROVE  LInv'
  <1> DEFINE w == work[c]
             o == Outcome(w.body, w.plan, w.budgets)
             gate == Gate(w.body, w.plan, o)
             u == [w EXCEPT !.stage = "launching"]
             told == IF Serve(w.body, o).allowed THEN "allowed" ELSE "refused"
             v == IF w.body.kind = "plan" THEN Answer(c, told)
                  ELSE IF gate # "launch" THEN Answer(c, gate) ELSE u
  <1>1. CallInv(w)
    BY DEF LInv
  <1>2. w.stage = "fitting" /\ work' = [work EXCEPT ![c] = v] /\ UNCHANGED <<up, used, placed>>
    BY DEF Judge, LInv
  <1>3. CallInv(Answer(c, told)) /\ CallInv(Answer(c, gate))
    <2>1. told # "none"
      OBVIOUS
    <2>2. gate # "none"
      BY DEF Gate
    <2> HIDE DEF CallInv, told, gate
    <2> QED BY <1>1, <2>1, <2>2, AnswerIs
  <1>4. ASSUME w.body.kind # "plan", gate = "launch" PROVE CallInv(u)
    <2>1. Parsed(w) /\ Laid(w) /\ w.answer = "none" /\ DOMAIN w.budgets \subseteq ToSet(w.plan)
      <3> HIDE DEF w
      <3> QED BY <1>1, <1>2 DEF CallInv, Underway
    <2>2. /\ DOMAIN u = {"stage", "body", "nodes", "plan", "budgets", "answer"} /\ u.stage = "launching"
          /\ u.body = w.body /\ u.plan = w.plan /\ u.budgets = w.budgets /\ u.answer = w.answer
      BY <1>1 DEF CallInv
    <2>3. w.body.kind = "launch"
      BY <2>1, <1>4, LaunchAssumption DEF Parsed
    <2>4. Passes(w.body, w.plan, o)
      <3> HIDE DEF o, w
      <3> QED BY <1>4, GateIs
    <2> HIDE DEF u, w
    <2>5. Parsed(u) /\ Laid(u) /\ Admitted(u)
      BY <2>1, <2>2, <2>3, <2>4 DEF Parsed, Laid, Admitted
    <2> QED BY <2>1, <2>2, <2>5 DEF CallInv, Underway
  <1> HIDE DEF u, gate, told, CallInv
  <1>5. CallInv(v)
    BY <1>3, <1>4
  <1> HIDE DEF v
  <1> QED BY <1>2, <1>5, CallMoves

(* What is handed over is what the gates have let through: the figures are *)
(* the call's own, whatever the cluster has come to meanwhile.             *)
LEMMA HandKeeps ==
    ASSUME LInv, NEW c \in LaunchCalls, NEW works \in BOOLEAN, Hand(c, works)
    PROVE  LInv'
  <1> DEFINE w == work[c]
             o == Outcome(w.body, w.plan, w.budgets)
             warned == (IF o.live = "wont_fit" THEN {"over"} ELSE {})
                       \cup (IF o.mixed THEN {"mixed"} ELSE {})
                       \cup (IF w.body.named \/ w.body.degree > 0 THEN {"operator"} ELSE {})
             e == [by |-> c, name |-> w.body.name, body |-> w.body, plan |-> w.plan,
                   context |-> o.context, warned |-> warned]
  <1>1. CallInv(w) /\ w.stage = "launching"
    BY DEF LInv, Hand
  <1>2. PICK code \in {"launch_failed", "already_deployed", "created"} :
            /\ work' = [work EXCEPT ![c] = Answer(c, code)] /\ UNCHANGED <<up, used>>
            /\ placed' = placed \/ placed' = placed \cup {e}
    BY DEF Hand
  <1>3. CallInv(Answer(c, code))
    <2> HIDE DEF CallInv
    <2> QED BY <1>1, <1>2, AnswerIs
  <1>4. Parsed(w) /\ Laid(w) /\ Admitted(w)
    <2> HIDE DEF w
    <2> QED BY <1>1 DEF CallInv, Underway
  <1>5. Accepted(e)
    <2>1. /\ e.body = w.body /\ e.plan = w.plan /\ e.context = o.context /\ e.warned = warned
      OBVIOUS
    <2>2. /\ o.context = ContextOf(w.body, w.plan, w.budgets) /\ o.static = Fits(w.plan, o.context, << >>)
          /\ o.mixed = (w.body.named /\ Unlike(w.plan))
      BY DEF Outcome
    <2>3. w.body.context > 0 => o.context = w.body.context
      BY <2>2, <1>4, ContextIs DEF Parsed
    <2>4. /\ Planned(w.body, w.plan) /\ EveryNodeUsed(w.body, w.plan)
          /\ w.body.kind = "launch" /\ ~w.body.dtype /\ Passes(w.body, w.plan, o)
          /\ w.body.degree \in Nat /\ w.body.named \in BOOLEAN
      BY <1>4, LaunchAssumption DEF Laid, Admitted, Parsed, WellFormed
    <2>5. /\ "over" \in warned <=> o.live = "wont_fit"
          /\ "mixed" \in warned <=> o.mixed
      OBVIOUS
    <2> HIDE DEF e, warned, o, w
    <2>6. Fits(e.plan, e.context, << >>) /\ (e.body.context > 0 => e.context = e.body.context)
      BY <2>1, <2>2, <2>3, <2>4 DEF Passes
    <2>7. e.body.runtime \in Supports /\ (Len(e.plan) > 1 => e.body.runtime \in Shards)
      BY <2>1, <2>4 DEF Passes, CanShard
    <2>8. "over" \in e.warned => e.body.over
      BY <2>1, <2>4, <2>5 DEF Passes
    <2>9. Unlike(e.plan) => \/ e.body.named /\ e.body.mixed /\ "mixed" \in e.warned
                            \/ ~e.body.named /\ e.body.degree > 0
      <3> SUFFICES ASSUME Unlike(w.plan)
                   PROVE  \/ w.body.named /\ w.body.mixed /\ o.mixed
                          \/ ~w.body.named /\ w.body.degree > 0
        BY <2>1, <2>5
      <3>1. CASE w.body.named
        BY <3>1, <2>2, <2>4 DEF Passes
      <3>2. CASE ~w.body.named
        <4>1. w.body.degree # 0
          BY <3>2, <2>4 DEF Planned
        <4>2. w.body.degree > 0
          BY <4>1, <2>4
        <4> QED BY <3>2, <4>2
      <3> QED BY <3>1, <3>2
    <2>10. /\ e.body.named => ToSet(e.plan) \subseteq ToSet(e.body.nodes)
           /\ e.body.degree > 0 => Len(e.plan) = e.body.degree
      BY <2>1, <2>4 DEF Planned
    <2>11. e.body.named /\ e.body.degree > 0 => ToSet(e.plan) = ToSet(e.body.nodes)
      BY <2>1, <2>4 DEF EveryNodeUsed
    <2>12. ~e.body.dtype
      BY <2>1, <2>4
    <2> QED BY <2>6, <2>7, <2>8, <2>9, <2>10, <2>11, <2>12 DEF Accepted
  <1>6. \A d \in placed' : d \in placed \/ Accepted(d)
    <2> HIDE DEF e, Accepted
    <2> QED BY <1>2, <1>5
  <1> HIDE DEF CallInv, Accepted
  <1> QED BY <1>2, <1>3, <1>6, CallMoves

LEMMA ForgetKeeps == ASSUME LInv, NEW c \in LaunchCalls, Forget(c) PROVE LInv'
  <1>1. work' = [work EXCEPT ![c] = Fresh] /\ UNCHANGED <<up, used, placed>>
    BY DEF Forget
  <1> HIDE DEF CallInv
  <1> QED BY <1>1, FreshIs, CallMoves

LEMMA WorldKeeps ==
    ASSUME LInv, NEW n \in Nodes, NodeFlaps(n) \/ \E u \in UsedLevels : Sample(n, u)
    PROVE  LInv'
  <1>1. up' \subseteq Nodes /\ used' \in [Nodes -> {Unsampled} \cup UsedLevels]
    BY DEF LInv, NodeFlaps, Sample
  <1>2. UNCHANGED <<work, placed>>
    BY DEF NodeFlaps, Sample
  <1> HIDE DEF CallInv, Accepted
  <1> QED BY <1>1, <1>2 DEF LInv

LEMMA LInit == LaunchInit => LInv
  <1> SUFFICES ASSUME LaunchInit PROVE LInv
    OBVIOUS
  <1>1. \A c \in LaunchCalls : CallInv(work[c])
    BY FreshIs DEF LaunchInit
  <1> HIDE DEF CallInv, Accepted
  <1> QED BY <1>1 DEF LaunchInit, LInv

LEMMA LStep == LInv /\ [LaunchNext]_launchVars => LInv'
  <1> SUFFICES ASSUME LInv, [LaunchNext]_launchVars PROVE LInv'
    OBVIOUS
  <1>1. CASE UNCHANGED launchVars
    BY <1>1 DEF LInv, launchVars
  <1>2. CASE LaunchSteps
    BY <1>2, ResolveKeeps, PlanAndFitKeeps, JudgeKeeps, HandKeeps DEF LaunchSteps
  <1>3. CASE LaunchBegins
    BY <1>3, ForgetKeeps, BeginKeeps DEF LaunchBegins
  <1>4. CASE LaunchWorld
    BY <1>4, WorldKeeps DEF LaunchWorld
  <1> QED BY <1>1, <1>2, <1>3, <1>4 DEF LaunchNext

(* Whatever becomes of the machines and their memory between the stages of *)
(* POST /api/deployments: what is launched can run where it is put, as the *)
(* operator chose it, and the preview and the launch are one decision.     *)
THEOREM LaunchKeepsItsPromise == LaunchSpec => []LaunchPromise
  <1>1. LInv => LaunchPromise
    <2> SUFFICES ASSUME LInv PROVE LaunchPromise
      OBVIOUS
    <2>1. LaunchTypeOK
      BY DEF LInv, CallInv, Laid, Planned, Underway, LaunchTypeOK
    <2>2. LaunchesCanRun /\ OperatorsChoice
      BY DEF LInv, Accepted, LaunchesCanRun, OperatorsChoice
    <2>3. ButtonHonest
      BY PreviewAgrees DEF LInv, ButtonHonest
    <2> QED BY <2>1, <2>2, <2>3 DEF LaunchPromise
  <1> QED BY <1>1, LInit, LStep, PTL DEF LaunchSpec

----------------------------------------------------------------------------
(* Speech.                                                                 *)

Voices == (Speakers \ OwnVoices) \X Rows
ServerRecords == [at: Stages, offset: 1 .. Len(Offers) + 1, taken: SUBSET Speakers,
                  pick: Voices \cup {<<"none", "none">>}]
CallRecords == [at: {"idle", "waiting", "speaking", "encoding"}, voice: Speakers \cup {"none"}]
Installing == {"install", "clip", "text"}

PickOK(b) ==
    b.at \in {"clip", "text"} => b.pick \in Voices /\ b.pick[1] \notin b.taken /\ b.offset <= Len(Offers)
ServersOK ==
    /\ server \in [Servers -> ServerRecords] /\ \A v \in Servers : PickOK(server[v])
    /\ library = [v \in Servers |-> library[v]] /\ \A v \in Servers : DOMAIN library[v] \subseteq Speakers
FilesOK ==
    /\ clips \in [Speakers -> Rows \cup {"none"}] /\ texts \in [Speakers -> Rows \cup {"none", "part"}]
    /\ unreadable \subseteq Rows

(* The requests past the gate of a server, and what goes with them (q:     *)
(* call, f: flight): the count is theirs, one of them speaks, and the      *)
(* server is up, so that an end of the process forgets them all.           *)
Inside(q, v) == {c \in SpeechCalls : CalledAt[c] = v /\ q[c].at # "idle"}
OneSpeaks(q) ==
    \A c, d \in SpeechCalls : CalledAt[c] = CalledAt[d] /\ q[c].at = "speaking" /\ q[d].at = "speaking" => c = d
QueueInv(q, f) ==
    /\ q \in [SpeechCalls -> CallRecords] /\ f \in [Servers -> 0 .. Limit]
    /\ \A v \in Servers : f[v] = Cardinality(Inside(q, v))
    /\ OneSpeaks(q)
AtWork(q, s) == \A c \in SpeechCalls : q[c].at # "idle" => s[CalledAt[c]].at = "up"

(* The transcript of a row that can be heard is beside that row's clip;    *)
(* whoever installs has taken the speakers of all such pairs, and puts a   *)
(* transcript beside the clip it has just written.                         *)
PairsInv(k, t) ==
    \A s \in Speakers \ OwnVoices : t[s] \in Rows \ unreadable => k[s] = t[s]
TakenInv(b, k, t) ==
    b.at \in Installing => \A s \in Speakers \ OwnVoices : t[s] \in Rows \ unreadable => s \in b.taken
PickInv(b, k) == b.at = "text" => k[b.pick[1]] = b.pick[2]

SInv == /\ ServersOK /\ FilesOK /\ QueueInv(call, flight) /\ AtWork(call, server)
VInv == /\ PairsInv(clips, texts)
        /\ \A v \in Servers : TakenInv(server[v], clips, texts) /\ PickInv(server[v], clips)

LEMMA LimitIs == Limit \in Nat \ {0}
  BY SpeechAssumption DEF Limit

LEMMA FiniteInside == ASSUME NEW q, NEW v PROVE IsFiniteSet(Inside(q, v)) /\ Cardinality(Inside(q, v)) \in Nat
  <1>1. Inside(q, v) \subseteq SpeechCalls
    BY DEF Inside
  <1> QED BY <1>1, SpeechAssumption, FS_Subset, FS_CardinalityType

(* A request that comes in makes one more, one that leaves one less, and   *)
(* one that goes on changes nothing.                                       *)
LEMMA Enters ==
    ASSUME NEW q \in [SpeechCalls -> CallRecords], NEW f \in [Servers -> 0 .. Limit], QueueInv(q, f),
           NEW c \in SpeechCalls, NEW x \in CallRecords, q[c].at = "idle", x.at = "waiting",
           f[CalledAt[c]] < Limit
    PROVE  QueueInv([q EXCEPT ![c] = x], [f EXCEPT ![CalledAt[c]] = f[CalledAt[c]] + 1])
  <1> DEFINE w == CalledAt[c]
             r == [q EXCEPT ![c] = x]
             g == [f EXCEPT ![w] = f[w] + 1]
  <1>1. w \in Servers
    BY SpeechAssumption
  <1>2. r \in [SpeechCalls -> CallRecords] /\ r[c] = x /\ \A d \in SpeechCalls \ {c} : r[d] = q[d]
    OBVIOUS
  <1>3. g \in [Servers -> 0 .. Limit] /\ g[w] = f[w] + 1 /\ \A v \in Servers \ {w} : g[v] = f[v]
    BY <1>1, LimitIs
  <1> HIDE DEF r, g
  <1>4. Inside(r, w) = Inside(q, w) \cup {c} /\ c \notin Inside(q, w)
    BY <1>2 DEF Inside
  <1>5. Cardinality(Inside(r, w)) = Cardinality(Inside(q, w)) + 1
    <2>1. IsFiniteSet(Inside(q, w))
      BY FiniteInside
    <2> QED BY <1>4, <2>1, FS_AddElement
  <1>6. ASSUME NEW v \in Servers \ {w} PROVE Inside(r, v) = Inside(q, v)
    BY <1>2 DEF Inside
  <1>7. ASSUME NEW v \in Servers PROVE g[v] = Cardinality(Inside(r, v))
    BY <1>1, <1>3, <1>5, <1>6 DEF QueueInv
  <1>8. OneSpeaks(r)
    BY <1>2 DEF QueueInv, OneSpeaks
  <1>9. QueueInv(r, g)
    BY <1>2, <1>3, <1>7, <1>8 DEF QueueInv
  <1> QED BY <1>9 DEF r, g

LEMMA Leaves ==
    ASSUME NEW q \in [SpeechCalls -> CallRecords], NEW f \in [Servers -> 0 .. Limit], QueueInv(q, f),
           NEW c \in SpeechCalls, q[c].at # "idle"
    PROVE  /\ f[CalledAt[c]] > 0
           /\ QueueInv([q EXCEPT ![c] = Idle], [f EXCEPT ![CalledAt[c]] = f[CalledAt[c]] - 1])
  <1> DEFINE w == CalledAt[c]
             r == [q EXCEPT ![c] = Idle]
             g == [f EXCEPT ![w] = f[w] - 1]
  <1>1. w \in Servers
    BY SpeechAssumption
  <1>2. r \in [SpeechCalls -> CallRecords] /\ r[c].at = "idle" /\ \A d \in SpeechCalls \ {c} : r[d] = q[d]
    BY DEF Idle, CallRecords
  <1>3. Inside(r, w) = Inside(q, w) \ {c} /\ c \in Inside(q, w)
    <2> HIDE DEF r
    <2> QED BY <1>2 DEF Inside
  <1>4. /\ Cardinality(Inside(r, w)) = Cardinality(Inside(q, w)) - 1
        /\ Cardinality(Inside(r, w)) \in Nat
    <2>1. IsFiniteSet(Inside(q, w)) /\ Cardinality(Inside(r, w)) \in Nat
      BY FiniteInside
    <2> QED BY <1>3, <2>1, FS_RemoveElement
  <1>5. f[w] = Cardinality(Inside(q, w)) /\ f[w] \in 0 .. Limit
    BY <1>1 DEF QueueInv
  <1>6. f[w] > 0
    <2>1. Cardinality(Inside(q, w)) \in Nat
      BY FiniteInside
    <2> QED BY <1>4, <1>5, <2>1
  <1>7. g \in [Servers -> 0 .. Limit] /\ g[w] = f[w] - 1 /\ \A v \in Servers \ {w} : g[v] = f[v]
    BY <1>1, <1>5, <1>6, LimitIs
  <1> HIDE DEF r, g
  <1>8. ASSUME NEW v \in Servers \ {w} PROVE Inside(r, v) = Inside(q, v)
    BY <1>2 DEF Inside
  <1>9. ASSUME NEW v \in Servers PROVE g[v] = Cardinality(Inside(r, v))
    BY <1>1, <1>4, <1>5, <1>7, <1>8 DEF QueueInv
  <1>10. OneSpeaks(r)
    BY <1>2 DEF QueueInv, OneSpeaks
  <1>11. QueueInv(r, g)
    BY <1>2, <1>7, <1>9, <1>10 DEF QueueInv
  <1> QED BY <1>6, <1>11 DEF r, g

LEMMA GoesOn ==
    ASSUME NEW q \in [SpeechCalls -> CallRecords], NEW f \in [Servers -> 0 .. Limit], QueueInv(q, f),
           NEW c \in SpeechCalls, q[c].at # "idle", NEW to \in {"speaking", "encoding"},
           to = "speaking" => \A d \in SpeechCalls : CalledAt[d] = CalledAt[c] => q[d].at # "speaking"
    PROVE  QueueInv([q EXCEPT ![c].at = to], f)
  <1> DEFINE r == [q EXCEPT ![c].at = to]
  <1>1. /\ r \in [SpeechCalls -> CallRecords] /\ r[c].at = to /\ \A d \in SpeechCalls \ {c} : r[d] = q[d]
    BY DEF CallRecords
  <1> HIDE DEF r
  <1>2. ASSUME NEW v \in Servers PROVE Inside(r, v) = Inside(q, v)
    BY <1>1 DEF Inside
  <1>3. OneSpeaks(r)
    BY <1>1 DEF QueueInv, OneSpeaks
  <1>4. QueueInv(r, f)
    BY <1>1, <1>2, <1>3 DEF QueueInv
  <1> QED BY <1>4 DEF r

(* A process that ends, or starts, with nobody inside.                     *)
LEMMA Emptied ==
    ASSUME NEW q \in [SpeechCalls -> CallRecords], NEW f \in [Servers -> 0 .. Limit], QueueInv(q, f),
           NEW v \in Servers
    PROVE  QueueInv([c \in SpeechCalls |-> IF CalledAt[c] = v THEN Idle ELSE q[c]], [f EXCEPT ![v] = 0])
  <1> DEFINE r == [c \in SpeechCalls |-> IF CalledAt[c] = v THEN Idle ELSE q[c]]
             g == [f EXCEPT ![v] = 0]
  <1>1. /\ r \in [SpeechCalls -> CallRecords]
        /\ \A c \in SpeechCalls : CalledAt[c] = v => r[c].at = "idle"
        /\ \A c \in SpeechCalls : CalledAt[c] # v => r[c] = q[c]
    BY DEF Idle, CallRecords
  <1>2. g \in [Servers -> 0 .. Limit] /\ g[v] = 0 /\ \A w \in Servers \ {v} : g[w] = f[w]
    BY LimitIs
  <1> HIDE DEF r, g
  <1>3. Inside(r, v) = {}
    BY <1>1 DEF Inside
  <1>4. ASSUME NEW w \in Servers \ {v} PROVE Inside(r, w) = Inside(q, w)
    BY <1>1 DEF Inside
  <1>5. ASSUME NEW w \in Servers PROVE g[w] = Cardinality(Inside(r, w))
    BY <1>2, <1>3, <1>4, FS_EmptySet DEF QueueInv
  <1>6. OneSpeaks(r)
    BY <1>1 DEF QueueInv, OneSpeaks
  <1>7. QueueInv(r, g)
    BY <1>1, <1>2, <1>5, <1>6 DEF QueueInv
  <1> QED BY <1>7 DEF r, g

(* The first row of a speaker that is free, where there is one.            *)
LEMMA PickIs ==
    ASSUME NEW v \in Servers, server[v] \in ServerRecords, server[v].offset <= Len(Offers),
           PickRow(v) # <<"none", "none">>
    PROVE  PickRow(v) \in Voices /\ PickRow(v)[1] \notin server[v].taken
  <1> DEFINE o == server[v].offset
             rows == Offers[o]
             free == {i \in DOMAIN rows : rows[i][1] \notin server[v].taken}
             k == CHOOSE i \in free : \A j \in free : i <= j
  <1>1. o \in 1 .. Len(Offers) /\ Offers \in Seq(Seq(Voices))
    BY OffersAssumption DEF ServerRecords, Voices
  <1>2. rows \in Seq(Voices)
    BY <1>1
  <1>3. free \subseteq Nat /\ free # {}
    <2>1. free # {}
      BY DEF PickRow
    <2> QED BY <1>2, <2>1
  <1>4. k \in free
    <2> HIDE DEF free
    <2>1. Min(free) \in free /\ \A j \in free : Min(free) <= j
      BY <1>3, LeastOfNaturals
    <2> QED BY <2>1
  <1>5. PickRow(v) = rows[k]
    BY <1>3 DEF PickRow
  <1>6. k \in DOMAIN rows /\ rows[k][1] \notin server[v].taken
    <2> HIDE DEF k
    <2> QED BY <1>4
  <1>7. rows[k] \in Voices
    <2> HIDE DEF k, rows
    <2> QED BY <1>2, <1>6
  <1> QED BY <1>5, <1>6, <1>7

(* What the steps of one server make of its record.                        *)
LEMMA NextOffsetIs ==
    ASSUME NEW v, server[v] \in ServerRecords, server[v].offset <= Len(Offers)
    PROVE  /\ NextOffset(v) \in ServerRecords /\ NextOffset(v).at = "install"
           /\ NextOffset(v).taken = server[v].taken
  <1> DEFINE b == server[v]  L == Len(Offers)  P == Voices \cup {<<"none", "none">>}
  <1>1. L \in Nat
    BY OffersAssumption
  <1>2. b \in [at: Stages, offset: 1 .. L + 1, taken: SUBSET Speakers, pick: P] /\ b.offset <= L
    BY DEF ServerRecords
  <1>3. NextOffset(v) = [b EXCEPT !.at = "install", !.offset = b.offset + 1]
    BY DEF NextOffset
  <1> HIDE DEF b, L, P
  <1>4. b.offset + 1 \in 1 .. L + 1
    BY <1>1, <1>2
  <1>5. /\ NextOffset(v) \in [at: Stages, offset: 1 .. L + 1, taken: SUBSET Speakers, pick: P]
        /\ NextOffset(v).at = "install" /\ NextOffset(v).taken = b.taken
    BY <1>2, <1>3, <1>4 DEF Stages
  <1> QED BY <1>5 DEF ServerRecords, b, L, P

LEMMA DownIs == Down \in ServerRecords /\ Down.at = "down" /\ Down.taken = {} /\ PickOK(Down)
  <1>1. Len(Offers) \in Nat
    BY OffersAssumption
  <1> QED BY <1>1 DEF Down, ServerRecords, Stages, PickOK

(* Nobody inside a server that is not up: a step of it keeps the queue.    *)
LEMMA NotUpKeeps ==
    ASSUME SInv, NEW v \in Servers, NEW b \in ServerRecords, server[v].at # "up",
           server' = [server EXCEPT ![v] = b], call' = call, flight' = flight
    PROVE  QueueInv(call', flight') /\ AtWork(call', server')
  <1>1. AtWork(call, server')
    BY DEF SInv, ServersOK, AtWork
  <1> QED BY <1>1 DEF SInv

LEMMA ServerKept ==
    ASSUME SInv, NEW v \in Servers, NEW b \in ServerRecords, PickOK(b), server' = [server EXCEPT ![v] = b]
    PROVE  /\ server' \in [Servers -> ServerRecords] /\ server'[v] = b
           /\ \A w \in Servers : PickOK(server'[w])
           /\ \A w \in Servers \ {v} : server'[w] = server[w]
  BY DEF SInv, ServersOK

LEMMA LibraryKept ==
    ASSUME ServersOK, NEW v \in Servers, NEW l, DOMAIN l \subseteq Speakers, library' = [library EXCEPT ![v] = l]
    PROVE  library' = [w \in Servers |-> library'[w]] /\ \A w \in Servers : DOMAIN library'[w] \subseteq Speakers
  BY DEF ServersOK

LEMMA Typed ==
    ASSUME SInv, NEW v \in Servers
    PROVE  server[v] \in ServerRecords /\ PickOK(server[v]) /\ Len(Offers) \in Nat
  BY OffersAssumption DEF SInv, ServersOK

LEMMA QueueTyped ==
    ASSUME SInv
    PROVE  /\ call \in [SpeechCalls -> CallRecords] /\ flight \in [Servers -> 0 .. Limit]
           /\ QueueInv(call, flight) /\ AtWork(call, server)
  BY DEF SInv, QueueInv

LEMMA StepTyped == ASSUME SInv, [SpeechNext]_speechVars PROVE SInv'
  <1>1. ASSUME NEW v \in Servers, NEW ok \in BOOLEAN, StartServer(v, ok) PROVE SInv'
    <2> DEFINE b == [Down EXCEPT !.at = IF ok /\ Loadable = {} THEN "install" ELSE "load"]
    <2>1. b \in ServerRecords /\ PickOK(b)
      BY DownIs DEF ServerRecords, Stages, PickOK
    <2>2. server[v].at # "up" /\ server' = [server EXCEPT ![v] = b]
      BY <1>1 DEF StartServer
    <2> HIDE DEF b
    <2>3. UNCHANGED <<clips, texts, unreadable, library, flight, call>>
      BY <1>1 DEF StartServer
    <2> QED BY <2>1, <2>2, <2>3, NotUpKeeps, ServerKept DEF SInv, ServersOK, FilesOK
  <1>2. ASSUME NEW v \in Servers, NEW ok \in BOOLEAN, FetchRow(v, ok) PROVE SInv'
    <2> DEFINE b == IF ok /\ PickRow(v) # <<"none", "none">>
                    THEN [server[v] EXCEPT !.at = "clip", !.pick = PickRow(v)] ELSE NextOffset(v)
    <2>1. server[v].at # "up" /\ server' = [server EXCEPT ![v] = b] /\ server[v].offset <= Len(Offers)
      BY <1>2 DEF FetchRow
    <2>2. b \in ServerRecords /\ PickOK(b)
      <3>1. CASE ok /\ PickRow(v) # <<"none", "none">>
        <4> DEFINE r == PickRow(v)
        <4>1. r \in Voices /\ r[1] \notin server[v].taken
          BY <3>1, <2>1, Typed, PickIs
        <4>2. b = [server[v] EXCEPT !.at = "clip", !.pick = r]
          BY <3>1
        <4> HIDE DEF r
        <4> QED BY <2>1, <4>1, <4>2, Typed DEF ServerRecords, Stages, PickOK
      <3>2. CASE ~(ok /\ PickRow(v) # <<"none", "none">>)
        <4>1. NextOffset(v) \in ServerRecords /\ NextOffset(v).at = "install"
          BY <2>1, Typed, NextOffsetIs
        <4> QED BY <3>2, <4>1 DEF PickOK
      <3> QED BY <3>1, <3>2
    <2> HIDE DEF b
    <2>3. UNCHANGED <<clips, texts, unreadable, library, flight, call>>
      BY <1>2 DEF FetchRow
    <2> QED BY <2>1, <2>2, <2>3, NotUpKeeps, ServerKept DEF SInv, ServersOK, FilesOK
  <1>3. ASSUME NEW v \in Servers, NEW ok \in BOOLEAN, WriteClip(v, ok) PROVE SInv'
    <2> DEFINE b == IF ok THEN [server[v] EXCEPT !.at = "text"] ELSE NextOffset(v)
    <2>1. server[v].at # "up" /\ server[v].at = "clip" /\ server' = [server EXCEPT ![v] = b]
      BY <1>3 DEF WriteClip
    <2>2. server[v].pick \in Voices /\ server[v].offset <= Len(Offers)
      BY <2>1, Typed DEF PickOK
    <2>3. b \in ServerRecords /\ PickOK(b)
      <3>1. [server[v] EXCEPT !.at = "text"] \in ServerRecords /\ PickOK([server[v] EXCEPT !.at = "text"])
        BY <2>1, Typed DEF ServerRecords, Stages, PickOK
      <3>2. NextOffset(v) \in ServerRecords /\ PickOK(NextOffset(v))
        BY <2>2, Typed, NextOffsetIs DEF PickOK
      <3> QED BY <3>1, <3>2
    <2> HIDE DEF b
    <2>4. UNCHANGED <<texts, unreadable, library, flight, call>>
      BY <1>3 DEF WriteClip
    <2>5. clips' \in [Speakers -> Rows \cup {"none"}]
      BY <1>3, <2>2 DEF WriteClip, SInv, FilesOK, Voices
    <2> QED BY <2>1, <2>3, <2>4, <2>5, NotUpKeeps, ServerKept DEF SInv, ServersOK, FilesOK
  <1>4. ASSUME NEW v \in Servers, NEW ok \in BOOLEAN, WriteText(v, ok) PROVE SInv'
    <2> DEFINE b == IF ok THEN [NextOffset(v) EXCEPT !.taken = Taken(v)] ELSE NextOffset(v)
    <2>1. server[v].at # "up" /\ server[v].at = "text" /\ server' = [server EXCEPT ![v] = b]
      BY <1>4 DEF WriteText
    <2>2. server[v].pick \in Voices /\ server[v].offset <= Len(Offers)
      BY <2>1, Typed DEF PickOK
    <2>3. b \in ServerRecords /\ PickOK(b)
      <3>1. NextOffset(v) \in ServerRecords /\ NextOffset(v).at = "install"
        BY <2>2, Typed, NextOffsetIs
      <3>2. Taken(v) \in SUBSET Speakers
        BY <2>2, Typed DEF Taken, Voices, ServerRecords
      <3>3. /\ [NextOffset(v) EXCEPT !.taken = Taken(v)] \in ServerRecords
            /\ [NextOffset(v) EXCEPT !.taken = Taken(v)].at = "install"
        BY <3>1, <3>2 DEF ServerRecords
      <3> QED BY <3>1, <3>3 DEF PickOK
    <2> HIDE DEF b
    <2>4. UNCHANGED <<clips, unreadable, library, flight, call>>
      BY <1>4 DEF WriteText
    <2>5. texts' \in [Speakers -> Rows \cup {"none", "part"}]
      BY <1>4, <2>2 DEF WriteText, SInv, FilesOK, Voices
    <2> QED BY <2>1, <2>3, <2>4, <2>5, NotUpKeeps, ServerKept DEF SInv, ServersOK, FilesOK
  <1>5. ASSUME NEW v \in Servers, Installed(v) PROVE SInv'
    <2> DEFINE b == [Down EXCEPT !.at = "load"]
    <2>1. b \in ServerRecords /\ PickOK(b)
      BY DownIs DEF ServerRecords, Stages, PickOK
    <2>2. server[v].at # "up" /\ server' = [server EXCEPT ![v] = b]
      BY <1>5 DEF Installed
    <2> HIDE DEF b
    <2>3. UNCHANGED <<clips, texts, unreadable, library, flight, call>>
      BY <1>5 DEF Installed
    <2> QED BY <2>1, <2>2, <2>3, NotUpKeeps, ServerKept DEF SInv, ServersOK, FilesOK
  <1>6. ASSUME NEW v \in Servers, LoadEngine(v) PROVE SInv'
    <2> DEFINE b == [server[v] EXCEPT !.at = "up"]
               l == [s \in Loadable |-> <<clips[s], texts[s]>>]
               q == [c \in SpeechCalls |-> IF CalledAt[c] = v THEN Idle ELSE call[c]]
    <2>1. b \in ServerRecords /\ b.at = "up" /\ PickOK(b)
      BY Typed DEF ServerRecords, Stages, PickOK
    <2>2. server[v].at = "load" /\ server' = [server EXCEPT ![v] = b] /\ library' = [library EXCEPT ![v] = l]
      BY <1>6 DEF LoadEngine
    <2>3. DOMAIN l \subseteq Speakers
      BY DEF Loadable
    <2>4. UNCHANGED <<clips, texts, unreadable, call>> /\ flight' = [flight EXCEPT ![v] = 0]
      BY <1>6 DEF LoadEngine
    <2>5. Inside(call, v) = {} /\ flight[v] = 0
      <3>1. Inside(call, v) = {}
        BY <2>2 DEF SInv, AtWork, Inside
      <3> QED BY <3>1, FS_EmptySet DEF SInv, QueueInv
    <2>6. flight' = flight
      BY <2>4, <2>5 DEF SInv, QueueInv
    <2> HIDE DEF b, l
    <2>7. AtWork(call', server')
      BY <2>1, <2>2, <2>4 DEF SInv, ServersOK, AtWork
    <2> QED BY <2>1, <2>2, <2>3, <2>4, <2>6, <2>7, ServerKept, LibraryKept DEF SInv, ServersOK, FilesOK
  <1>7. ASSUME NEW v \in Servers, Exit(v) PROVE SInv'
    <2>1. server' = [server EXCEPT ![v] = Down] /\ library' = [library EXCEPT ![v] = << >>]
      BY <1>7 DEF Exit
    <2>2. UNCHANGED <<clips, texts, unreadable>>
      BY <1>7 DEF Exit
    <2>3. /\ flight' = [flight EXCEPT ![v] = 0]
          /\ call' = [c \in SpeechCalls |-> IF CalledAt[c] = v THEN Idle ELSE call[c]]
      BY <1>7 DEF Exit
    <2>4. QueueInv(call', flight')
      BY <2>3, Emptied, QueueTyped
    <2>5. AtWork(call', server')
      BY <2>1, <2>3 DEF SInv, ServersOK, AtWork, Idle
    <2>6. DOMAIN << >> \subseteq Speakers
      OBVIOUS
    <2> QED BY <2>1, <2>2, <2>4, <2>5, <2>6, DownIs, ServerKept, LibraryKept DEF SInv, ServersOK, FilesOK
  <1>8. ASSUME NEW v \in Servers, ExitWriting(v) PROVE SInv'
    <2>1. server' = [server EXCEPT ![v] = Down] /\ library' = [library EXCEPT ![v] = << >>] /\ server[v].at # "up"
      BY <1>8 DEF ExitWriting
    <2>2. UNCHANGED <<clips, unreadable, flight, call>>
      BY <1>8 DEF ExitWriting
    <2>3. texts' \in [Speakers -> Rows \cup {"none", "part"}]
      BY <1>8 DEF ExitWriting, SInv, FilesOK
    <2>4. DOMAIN << >> \subseteq Speakers
      OBVIOUS
    <2> QED BY <2>1, <2>2, <2>3, <2>4, DownIs, NotUpKeeps, ServerKept, LibraryKept DEF SInv, ServersOK, FilesOK
  <1>9. ASSUME NEW s \in Speakers, PutVoice(s) \/ DropVoice(s) PROVE SInv'
    <2>1. UNCHANGED <<unreadable, server, library, flight, call>>
      BY <1>9 DEF PutVoice, DropVoice
    <2>2. "own" \in Rows
      BY DEF Rows
    <2>3. clips' \in [Speakers -> Rows \cup {"none"}] /\ texts' \in [Speakers -> Rows \cup {"none", "part"}]
      <3> HIDE DEF Rows
      <3> QED BY <1>9, <2>2 DEF PutVoice, DropVoice, SInv, FilesOK
    <2> QED BY <2>1, <2>3 DEF SInv, ServersOK, FilesOK
  <1>10. ASSUME NEW c \in SpeechCalls, NEW voice \in Speakers \cup {"none"}, Speak(c, voice) PROVE SInv'
    <2> DEFINE x == [at |-> "waiting", voice |-> voice]
    <2>1. /\ call[c].at = "idle" /\ server[CalledAt[c]].at = "up" /\ flight[CalledAt[c]] < Limit
          /\ flight' = [flight EXCEPT ![CalledAt[c]] = flight[CalledAt[c]] + 1]
          /\ call' = [call EXCEPT ![c] = x] /\ UNCHANGED <<clips, texts, unreadable, server, library>>
      BY <1>10 DEF Speak
    <2>2. x \in CallRecords /\ x.at = "waiting"
      BY DEF CallRecords
    <2> HIDE DEF x
    <2>3. QueueInv(call', flight')
      BY <2>1, <2>2, Enters, QueueTyped
    <2>4. AtWork(call', server')
      <3>1. \A d \in SpeechCalls \ {c} : call'[d] = call[d]
        BY <2>1 DEF SInv, QueueInv
      <3> QED BY <2>1, <3>1 DEF SInv, AtWork
    <2> QED BY <2>1, <2>3, <2>4 DEF SInv, ServersOK, FilesOK
  <1>11. ASSUME NEW c \in SpeechCalls, TakeGpu(c) PROVE SInv'
    <2>1. /\ call[c].at = "waiting" /\ call' = [call EXCEPT ![c].at = "speaking"]
          /\ \A d \in SpeechCalls : CalledAt[d] = CalledAt[c] => call[d].at # "speaking"
          /\ UNCHANGED <<clips, texts, unreadable, server, library, flight>>
      BY <1>11 DEF TakeGpu
    <2>2. QueueInv(call', flight')
      BY <2>1, GoesOn, QueueTyped
    <2>3. AtWork(call', server')
      <3>1. (\A d \in SpeechCalls \ {c} : call'[d] = call[d]) /\ server[CalledAt[c]].at = "up"
        BY <2>1 DEF SInv, QueueInv, AtWork
      <3> QED BY <2>1, <3>1 DEF SInv, AtWork
    <2> QED BY <2>1, <2>2, <2>3 DEF SInv, ServersOK, FilesOK
  <1>12. ASSUME NEW c \in SpeechCalls, Generated(c) PROVE SInv'
    <2>1. /\ call[c].at = "speaking" /\ call' = [call EXCEPT ![c].at = "encoding"]
          /\ UNCHANGED <<clips, texts, unreadable, server, library, flight>>
      BY <1>12 DEF Generated
    <2>2. QueueInv(call', flight')
      BY <2>1, GoesOn, QueueTyped
    <2>3. AtWork(call', server')
      <3>1. (\A d \in SpeechCalls \ {c} : call'[d] = call[d]) /\ server[CalledAt[c]].at = "up"
        BY <2>1 DEF SInv, QueueInv, AtWork
      <3> QED BY <2>1, <3>1 DEF SInv, AtWork
    <2> QED BY <2>1, <2>2, <2>3 DEF SInv, ServersOK, FilesOK
  <1>13. ASSUME NEW c \in SpeechCalls, SpeechAnswered(c) PROVE SInv'
    <2>1. /\ call[c].at # "idle" /\ call' = [call EXCEPT ![c] = Idle]
          /\ flight' = [flight EXCEPT ![CalledAt[c]] = Left(c)]
          /\ UNCHANGED <<clips, texts, unreadable, server, library>>
      BY <1>13 DEF SpeechAnswered
    <2>2. /\ flight[CalledAt[c]] > 0
          /\ QueueInv([call EXCEPT ![c] = Idle], [flight EXCEPT ![CalledAt[c]] = flight[CalledAt[c]] - 1])
      BY <2>1, Leaves, QueueTyped
    <2>3. Left(c) = flight[CalledAt[c]] - 1
      BY <2>2 DEF Left
    <2>4. QueueInv(call', flight')
      BY <2>1, <2>2, <2>3
    <2>5. AtWork(call', server')
      <3>1. (\A d \in SpeechCalls \ {c} : call'[d] = call[d]) /\ server[CalledAt[c]].at = "up"
        BY <2>1 DEF SInv, QueueInv, AtWork
      <3> QED BY <2>1, <3>1 DEF SInv, AtWork
    <2> QED BY <2>1, <2>4, <2>5 DEF SInv, ServersOK, FilesOK
  <1>14. CASE UNCHANGED speechVars
    BY <1>14 DEF speechVars, SInv, ServersOK, FilesOK
  <1> QED BY <1>1, <1>2, <1>3, <1>4, <1>5, <1>6, <1>7, <1>8, <1>9, <1>10, <1>11, <1>12, <1>13, <1>14 DEF SpeechNext

(* One runtime of a machine.                                               *)
OneServer == \A v, w \in Servers : v = w

(* What the files and the servers of a step have to show for it.           *)
LEMMA VoicesKept ==
    ASSUME SInv, VInv, OneServer, NEW v \in Servers, NEW b \in ServerRecords, server' = [server EXCEPT ![v] = b],
           unreadable' = unreadable, PairsInv(clips', texts'), TakenInv(b, clips', texts'), PickInv(b, clips')
    PROVE  VInv'
  <1>1. \A w \in Servers : w = v
    BY DEF OneServer
  <1>2. server'[v] = b
    BY DEF SInv, ServersOK
  <1>3. PairsInv(clips, texts)'
    BY DEF PairsInv
  <1>4. ASSUME NEW w \in Servers PROVE TakenInv(server[w], clips, texts)' /\ PickInv(server[w], clips)'
    BY <1>1, <1>2 DEF TakenInv, PickInv
  <1> QED BY <1>3, <1>4 DEF VInv

LEMMA StepVoices == ASSUME SInv, VInv, OneServer, [SpeechNext]_speechVars PROVE VInv'
  <1>u. unreadable' = unreadable
    BY DEF SpeechNext, StartServer, FetchRow, WriteClip, WriteText, Installed, LoadEngine, Exit, ExitWriting,
           PutVoice, DropVoice, Speak, TakeGpu, Generated, SpeechAnswered, speechVars
  <1>n. Rows \cap {"none", "part"} = {}
    BY OffersAssumption
  <1>1. ASSUME NEW v \in Servers, NEW ok \in BOOLEAN, StartServer(v, ok) PROVE VInv'
    <2> DEFINE b == [Down EXCEPT !.at = IF ok /\ Loadable = {} THEN "install" ELSE "load"]
    <2>1. b \in ServerRecords /\ (b.at = "install" => Loadable = {}) /\ b.at \in {"install", "load"}
      BY DownIs DEF ServerRecords, Stages
    <2>2. server' = [server EXCEPT ![v] = b] /\ clips' = clips /\ texts' = texts
      BY <1>1 DEF StartServer
    <2> HIDE DEF b
    <2>3. TakenInv(b, clips, texts)
      <3>1. ASSUME Loadable = {}, NEW s \in Speakers \ OwnVoices, texts[s] \in Rows \ unreadable PROVE FALSE
        <4>1. clips[s] = texts[s]
          BY <3>1 DEF VInv, PairsInv
        <4>2. s \in Loadable
          BY <3>1, <4>1, <1>n DEF Loadable
        <4> QED BY <3>1, <4>2
      <3> QED BY <2>1, <3>1 DEF TakenInv, Installing
    <2>4. PickInv(b, clips)
      BY <2>1 DEF PickInv
    <2> QED BY <1>u, <2>1, <2>2, <2>3, <2>4, VoicesKept DEF VInv
  <1>2. ASSUME NEW v \in Servers, NEW ok \in BOOLEAN, FetchRow(v, ok) PROVE VInv'
    <2> DEFINE b == IF ok /\ PickRow(v) # <<"none", "none">>
                    THEN [server[v] EXCEPT !.at = "clip", !.pick = PickRow(v)] ELSE NextOffset(v)
    <2>1. /\ server' = [server EXCEPT ![v] = b] /\ clips' = clips /\ texts' = texts
          /\ server[v].at = "install" /\ server[v].offset <= Len(Offers)
      BY <1>2 DEF FetchRow
    <2>2. b \in ServerRecords /\ b.taken = server[v].taken /\ b.at \in {"clip", "install"}
      <3>1. CASE ok /\ PickRow(v) # <<"none", "none">>
        <4> DEFINE r == PickRow(v)
        <4>1. r \in Voices
          BY <3>1, <2>1, Typed, PickIs
        <4>2. b = [server[v] EXCEPT !.at = "clip", !.pick = r]
          BY <3>1
        <4> HIDE DEF r, b
        <4> QED BY <4>1, <4>2, Typed DEF ServerRecords, Stages
      <3>2. CASE ~(ok /\ PickRow(v) # <<"none", "none">>)
        <4>1. /\ NextOffset(v) \in ServerRecords /\ NextOffset(v).at = "install"
              /\ NextOffset(v).taken = server[v].taken
          BY <2>1, Typed, NextOffsetIs
        <4> QED BY <3>2, <4>1
      <3> QED BY <3>1, <3>2
    <2> HIDE DEF b
    <2>3. TakenInv(b, clips, texts)
      BY <2>1, <2>2 DEF VInv, TakenInv, Installing
    <2>4. PickInv(b, clips)
      BY <2>2 DEF PickInv
    <2> QED BY <1>u, <2>1, <2>2, <2>3, <2>4, VoicesKept DEF VInv
  <1>3. ASSUME NEW v \in Servers, NEW ok \in BOOLEAN, WriteClip(v, ok) PROVE VInv'
    <2> DEFINE b == IF ok THEN [server[v] EXCEPT !.at = "text"] ELSE NextOffset(v)
               s == server[v].pick[1]
               r == server[v].pick[2]
    <2>1. server[v].at = "clip" /\ server' = [server EXCEPT ![v] = b] /\ texts' = texts
      BY <1>3 DEF WriteClip
    <2>2. server[v].pick \in Voices /\ server[v].offset <= Len(Offers) /\ s \notin server[v].taken
      BY <2>1, Typed DEF PickOK
    <2>3. /\ [server[v] EXCEPT !.at = "text"] \in ServerRecords /\ NextOffset(v) \in ServerRecords
          /\ NextOffset(v).taken = server[v].taken /\ NextOffset(v).at = "install"
      <3>1. [server[v] EXCEPT !.at = "text"] \in ServerRecords
        BY Typed DEF ServerRecords, Stages
      <3> QED BY <2>2, <3>1, Typed, NextOffsetIs
    <2>4. /\ b \in ServerRecords /\ b.taken = server[v].taken
          /\ ok => b.pick = server[v].pick
          /\ ~ok => b.at = "install"
      <3>1. CASE ok
        BY <2>3, <3>1, Typed DEF ServerRecords
      <3>2. CASE ~ok
        BY <2>3, <3>2
      <3> QED BY <3>1, <3>2
    <2>5. s \in Speakers \ OwnVoices /\ r \in Rows
      BY <2>2 DEF Voices
    <2>6. TakenInv(server[v], clips, texts) /\ server[v].at \in Installing
      BY <2>1 DEF VInv, Installing
    <2>7. texts[s] \notin Rows \ unreadable
      BY <2>2, <2>5, <2>6 DEF TakenInv
    <2>8. clips' = IF ok THEN [clips EXCEPT ![s] = r] ELSE clips
      BY <1>3 DEF WriteClip
    <2> HIDE DEF b, s, r
    <2>9. \A x \in Speakers : x # s => clips'[x] = clips[x]
      BY <2>8 DEF SInv, FilesOK
    <2>10. PairsInv(clips', texts)
      BY <2>7, <2>9 DEF VInv, PairsInv
    <2>11. TakenInv(b, clips', texts)
      BY <2>4, <2>6 DEF TakenInv
    <2>12. PickInv(b, clips')
      <3>1. CASE ok
        <4>1. clips'[s] = r
          BY <3>1, <2>5, <2>8 DEF SInv, FilesOK
        <4> QED BY <3>1, <4>1, <2>4 DEF PickInv, s, r
      <3>2. CASE ~ok
        BY <3>2, <2>4 DEF PickInv
      <3> QED BY <3>1, <3>2
    <2> QED BY <1>u, <2>1, <2>4, <2>10, <2>11, <2>12, VoicesKept
  <1>4. ASSUME NEW v \in Servers, NEW ok \in BOOLEAN, WriteText(v, ok) PROVE VInv'
    <2> DEFINE b == IF ok THEN [NextOffset(v) EXCEPT !.taken = Taken(v)] ELSE NextOffset(v)
               s == server[v].pick[1]
               r == server[v].pick[2]
    <2>1. server[v].at = "text" /\ server' = [server EXCEPT ![v] = b] /\ clips' = clips
      BY <1>4 DEF WriteText
    <2>2. server[v].pick \in Voices /\ server[v].offset <= Len(Offers)
      BY <2>1, Typed DEF PickOK
    <2>3. /\ NextOffset(v) \in ServerRecords
          /\ NextOffset(v).taken = server[v].taken /\ NextOffset(v).at = "install"
      BY <2>2, Typed, NextOffsetIs
    <2>4. s \in Speakers \ OwnVoices /\ r \in Rows
      BY <2>2 DEF Voices
    <2>5. /\ b \in ServerRecords /\ b.at = "install"
          /\ b.taken = IF ok THEN server[v].taken \cup {s} ELSE server[v].taken
      <3>1. Taken(v) = server[v].taken \cup {s} /\ Taken(v) \in SUBSET Speakers
        BY <2>4, Typed DEF Taken, ServerRecords
      <3>2. CASE ok
        BY <2>3, <3>1, <3>2 DEF ServerRecords
      <3>3. CASE ~ok
        BY <2>3, <3>3
      <3> QED BY <3>2, <3>3
    <2>6. TakenInv(server[v], clips, texts) /\ server[v].at \in Installing /\ clips[s] = r
      BY <2>1 DEF VInv, Installing, PickInv
    <2>7. texts' = IF ok THEN [texts EXCEPT ![s] = r] ELSE texts
      BY <1>4 DEF WriteText
    <2> HIDE DEF b, s, r
    <2>8. /\ \A x \in Speakers : x # s => texts'[x] = texts[x]
          /\ texts'[s] = IF ok THEN r ELSE texts[s]
      BY <2>4, <2>7 DEF SInv, FilesOK
    <2>9. PairsInv(clips, texts')
      BY <2>6, <2>8 DEF VInv, PairsInv
    <2>10. TakenInv(b, clips, texts')
      <3>1. CASE ok
        BY <3>1, <2>5, <2>6, <2>8 DEF TakenInv
      <3>2. CASE ~ok
        <4>1. texts' = texts /\ b.taken = server[v].taken
          BY <3>2, <2>5, <2>7
        <4> QED BY <4>1, <2>6 DEF TakenInv
      <3> QED BY <3>1, <3>2
    <2>11. PickInv(b, clips)
      BY <2>5 DEF PickInv
    <2> QED BY <1>u, <2>1, <2>5, <2>9, <2>10, <2>11, VoicesKept
  <1>5. ASSUME NEW v \in Servers, Installed(v) \/ LoadEngine(v) \/ Exit(v) PROVE VInv'
    <2> DEFINE b == IF Installed(v) THEN [Down EXCEPT !.at = "load"]
                    ELSE IF LoadEngine(v) THEN [server[v] EXCEPT !.at = "up"] ELSE Down
    <2>1. server' = [server EXCEPT ![v] = b] /\ clips' = clips /\ texts' = texts
      BY <1>5 DEF Installed, LoadEngine, Exit
    <2>2. b \in ServerRecords /\ b.at \in {"load", "up", "down"}
      BY Typed, DownIs DEF ServerRecords, Stages
    <2> HIDE DEF b
    <2>3. TakenInv(b, clips, texts) /\ PickInv(b, clips)
      BY <2>2 DEF TakenInv, PickInv, Installing
    <2> QED BY <1>u, <2>1, <2>2, <2>3, VoicesKept DEF VInv
  <1>6. ASSUME NEW v \in Servers, ExitWriting(v) PROVE VInv'
    <2>1. server' = [server EXCEPT ![v] = Down] /\ clips' = clips
      BY <1>6 DEF ExitWriting
    <2>2. TakenInv(Down, clips, texts') /\ PickInv(Down, clips)
      BY DownIs DEF TakenInv, PickInv, Installing
    <2>3. PairsInv(clips, texts')
      <3>1. \A s \in Speakers : texts'[s] = texts[s] \/ texts'[s] = "part"
        BY <1>6 DEF ExitWriting, SInv, FilesOK
      <3> QED BY <3>1, <1>n DEF VInv, PairsInv
    <2> QED BY <1>u, <2>1, <2>2, <2>3, DownIs, VoicesKept
  <1>7. ASSUME NEW s \in Speakers, PutVoice(s) \/ DropVoice(s) PROVE VInv'
    <2>1. s \in OwnVoices /\ server' = server
      BY <1>7 DEF PutVoice, DropVoice
    <2>2. \A x \in Speakers \ OwnVoices : clips'[x] = clips[x] /\ texts'[x] = texts[x]
      BY <1>7, <2>1 DEF PutVoice, DropVoice, SInv, FilesOK
    <2>3. PairsInv(clips, texts)'
      BY <1>u, <2>2 DEF VInv, PairsInv
    <2>4. ASSUME NEW v \in Servers PROVE TakenInv(server[v], clips, texts)' /\ PickInv(server[v], clips)'
      <3>1. TakenInv(server[v], clips, texts)'
        BY <1>u, <2>1, <2>2 DEF VInv, TakenInv
      <3>2. server[v].at = "text" => server[v].pick[1] \in Speakers \ OwnVoices
        BY Typed DEF PickOK, Voices
      <3>3. PickInv(server[v], clips)'
        BY <2>1, <2>2, <3>2 DEF VInv, PickInv
      <3> QED BY <3>1, <3>3
    <2> QED BY <2>3, <2>4 DEF VInv
  <1>8. CASE UNCHANGED <<clips, texts, server>>
    BY <1>8, <1>u DEF VInv, PairsInv, TakenInv, PickInv
  <1>9. ASSUME NEW c \in SpeechCalls, NEW voice,
               Speak(c, voice) \/ TakeGpu(c) \/ Generated(c) \/ SpeechAnswered(c)
        PROVE  UNCHANGED <<clips, texts, server>>
    BY <1>9 DEF Speak, TakeGpu, Generated, SpeechAnswered
  <1>10. UNCHANGED speechVars => UNCHANGED <<clips, texts, server>>
    BY DEF speechVars
  <1> QED BY <1>1, <1>2, <1>3, <1>4, <1>5, <1>6, <1>7, <1>8, <1>9, <1>10 DEF SpeechNext

LEMMA SpeechStarts == SpeechInit => SInv /\ VInv
  <1> SUFFICES ASSUME SpeechInit PROVE SInv /\ VInv
    OBVIOUS
  <1>n. Rows \cap {"none", "part"} = {}
    BY OffersAssumption
  <1>1. ServersOK
    BY DownIs DEF SpeechInit, ServersOK
  <1>2. FilesOK
    BY DEF SpeechInit, FilesOK
  <1>3. QueueInv(call, flight)
    <2>1. call \in [SpeechCalls -> CallRecords] /\ \A c \in SpeechCalls : call[c].at = "idle"
      BY DEF SpeechInit, Idle, CallRecords
    <2>2. flight \in [Servers -> 0 .. Limit] /\ \A v \in Servers : flight[v] = 0
      BY LimitIs DEF SpeechInit
    <2>3. \A v \in Servers : Inside(call, v) = {}
      BY <2>1 DEF Inside
    <2> QED BY <2>1, <2>2, <2>3, FS_EmptySet DEF QueueInv, OneSpeaks
  <1>4. AtWork(call, server)
    BY DEF SpeechInit, AtWork, Idle
  <1>5. VInv
    BY <1>n DEF SpeechInit, VInv, PairsInv, TakenInv, PickInv, Installing, Down
  <1> QED BY <1>1, <1>2, <1>3, <1>4, <1>5 DEF SInv

LEMMA SpeechCounts == SInv => SpeechTypeOK /\ AdmissionExact
  <1> SUFFICES ASSUME SInv PROVE SpeechTypeOK /\ AdmissionExact
    OBVIOUS
  <1>1. SpeechTypeOK
    BY QueueTyped DEF SInv, ServersOK, FilesOK, SpeechTypeOK, ServerRecords, CallRecords
  <1>2. ASSUME NEW v \in Servers
        PROVE  LET at(s) == {c \in SpeechCalls : CalledAt[c] = v /\ call[c].at = s} IN
               /\ flight[v] = Cardinality(at("waiting") \cup at("speaking") \cup at("encoding"))
               /\ Cardinality(at("speaking")) <= 1
    <2> DEFINE at(s) == {c \in SpeechCalls : CalledAt[c] = v /\ call[c].at = s}
    <2>1. \A c \in SpeechCalls : call[c].at \in {"idle", "waiting", "speaking", "encoding"}
      BY QueueTyped DEF CallRecords
    <2>2. at("waiting") \cup at("speaking") \cup at("encoding") = Inside(call, v)
      BY <2>1 DEF Inside
    <2>3. flight[v] = Cardinality(Inside(call, v)) /\ OneSpeaks(call)
      BY QueueTyped DEF QueueInv
    <2>4. at("speaking") = {} \/ \E c \in SpeechCalls : at("speaking") = {c}
      BY <2>3 DEF OneSpeaks
    <2> HIDE DEF at
    <2>5. Cardinality(at("speaking")) <= 1
      <3> DEFINE S == at("speaking")
      <3>1. S = {} \/ \E c : S = {c}
        BY <2>4
      <3> HIDE DEF S
      <3>2. Cardinality(S) = 0 \/ Cardinality(S) = 1
        BY <3>1, FS_EmptySet, FS_Singleton
      <3> QED BY <3>2 DEF S
    <2>6. flight[v] = Cardinality(at("waiting") \cup at("speaking") \cup at("encoding"))
      BY <2>2, <2>3
    <2> QED BY <2>5, <2>6 DEF at
  <1> QED BY <1>1, <1>2 DEF AdmissionExact

(* The installer writes a clip only where no pair is.                      *)
LEMMA StepKeepsVoices ==
    ASSUME SInv, VInv, [SpeechNext]_speechVars, NEW s \in Loadable, texts[s] = clips[s], clips'[s] # clips[s]
    PROVE  clips'[s] = "none"
  <1>1. s \in Speakers /\ clips[s] # "none" /\ clips[s] \notin unreadable /\ clips \in [Speakers -> Rows \cup {"none"}]
    BY DEF Loadable, SInv, FilesOK
  <1>2. ASSUME NEW v \in Servers, NEW ok \in BOOLEAN, WriteClip(v, ok) PROVE FALSE
    <2> DEFINE p == server[v].pick[1]
    <2>1. server[v].at = "clip" /\ clips' = IF ok THEN [clips EXCEPT ![p] = server[v].pick[2]] ELSE clips
      BY <1>2 DEF WriteClip
    <2>2. p \in Speakers \ OwnVoices /\ p \notin server[v].taken
      <3>1. server[v].pick \in Voices /\ server[v].pick[1] \notin server[v].taken
        BY <2>1, Typed DEF PickOK
      <3> QED BY <3>1 DEF Voices
    <2>3. texts[p] \notin Rows \ unreadable
      BY <2>1, <2>2 DEF VInv, TakenInv, Installing
    <2>4. s = p
      <3> HIDE DEF p
      <3> QED BY <1>1, <2>1
    <2> HIDE DEF p
    <2> QED BY <1>1, <2>3, <2>4
  <1>3. ASSUME NEW x \in Speakers, PutVoice(x) PROVE FALSE
    BY <1>1, <1>3 DEF PutVoice
  <1>4. ASSUME NEW x \in Speakers, DropVoice(x) PROVE clips'[s] = "none"
    BY <1>1, <1>4 DEF DropVoice
  <1>5. ASSUME clips' = clips PROVE FALSE
    BY <1>5
  <1>6. clips' = clips \/ (\E v \in Servers, ok \in BOOLEAN : WriteClip(v, ok))
                        \/ (\E x \in Speakers : PutVoice(x) \/ DropVoice(x))
    BY DEF SpeechNext, StartServer, FetchRow, WriteText, Installed, LoadEngine, Exit, ExitWriting,
           Speak, TakeGpu, Generated, SpeechAnswered, speechVars
  <1> QED BY <1>2, <1>3, <1>4, <1>5, <1>6

(* Admission.try_enter() and leave() (runtimes/tts.py): however each       *)
(* request ends, in_flight is the number of those past the gate, and one   *)
(* generation runs at a time; for any number of runtimes, requests and     *)
(* voices, of any length of the queue.                                     *)
THEOREM SpeechIsCounted == SpeechSpec => [](SpeechTypeOK /\ AdmissionExact)
  <1>1. SpeechInit => SInv
    BY SpeechStarts
  <1>2. SInv /\ [SpeechNext]_speechVars => SInv'
    BY StepTyped
  <1> QED BY <1>1, <1>2, SpeechCounts, PTL DEF SpeechSpec

(* The whole promise, where one runtime uses the directory of voices at a  *)
(* time: ensure_default_voices() also overwrites no pair that could be     *)
(* loaded, whichever of its downloads and writes fail and wherever a       *)
(* process ended before.  Two runtimes that install at once do.            *)
THEOREM SpeechKeepsItsPromise == ASSUME OneServer PROVE SpeechSpec => SpeechPromise
  <1>1. SpeechInit => SInv /\ VInv
    BY SpeechStarts
  <1>2. SInv /\ VInv /\ [SpeechNext]_speechVars => SInv' /\ VInv'
    BY StepTyped, StepVoices
  <1>3. SInv /\ VInv /\ [SpeechNext]_speechVars
            => [\A s \in Loadable : texts[s] = clips[s] /\ clips'[s] # clips[s] => clips'[s] = "none"]_speechVars
    BY StepKeepsVoices
  <1> QED BY <1>1, <1>2, <1>3, SpeechCounts, PTL DEF SpeechSpec, SpeechPromise, UsableKept

----------------------------------------------------------------------------
(* The targets of a served name, their order, and the first of a pool.     *)

LEMMA TargetsAre ==
    /\ IsFiniteSet(Targets) /\ Targets # {} /\ Cardinality(Targets) \in Nat \ {0}
    /\ \A t \in Targets : Rank(t) \in Nat /\ IdOrder[Rank(t)] = t
  <1>1. \A t \in Targets : \E i \in DOMAIN IdOrder : IdOrder[i] = t
    BY IdsOrdered DEF ToSet
  <1>2. \A t \in Targets : Rank(t) \in DOMAIN IdOrder /\ IdOrder[Rank(t)] = t
    BY <1>1 DEF Rank
  <1>3. DOMAIN IdOrder = 1 .. Len(IdOrder) /\ Len(IdOrder) \in Nat /\ IdOrder \in [1 .. Len(IdOrder) -> Targets]
    BY IdsOrdered
  <1>4. \A t \in Targets : Rank(t) \in Nat
    BY <1>2, <1>3
  <1>5. 1 \in DOMAIN IdOrder /\ IdOrder[1] \in Targets
    BY IdsOrdered
  <1>6. IdOrder \in Surjection(1 .. Len(IdOrder), Targets)
    BY <1>1, <1>3 DEF Surjection
  <1>7. IsFiniteSet(Targets)
    BY <1>3, <1>6, FS_Interval, FS_Surjection
  <1>8. Cardinality(Targets) # 0
    BY <1>5, <1>7, FS_EmptySet
  <1> QED BY <1>2, <1>4, <1>5, <1>7, <1>8, FS_CardinalityType

LEMMA PoolIs ==
    ASSUME NEW S, S \subseteq Targets
    PROVE  IsFiniteSet(S) /\ Cardinality(S) \in Nat /\ Cardinality(S) <= Cardinality(Targets)
  BY TargetsAre, FS_Subset, FS_CardinalityType

LEMMA RanksDiffer ==
    ASSUME NEW t \in Targets, NEW u \in Targets, t # u
    PROVE  Rank(t) < Rank(u) \/ Rank(u) < Rank(t)
  BY TargetsAre

(* The stable order is total.                                              *)
LEMMA AheadIs ==
    ASSUME NEW t \in Targets, NEW u \in Targets
    PROVE  /\ t # u => Ahead(t, u) \/ Ahead(u, t)
           /\ ~(Ahead(t, u) /\ Ahead(u, t))
           /\ \A v \in Targets : Ahead(t, u) /\ Ahead(u, v) => Ahead(t, v)
  <1>1. \A v \in Targets : Rank(v) \in Nat
    BY TargetsAre
  <1>2. t # u => Rank(t) < Rank(u) \/ Rank(u) < Rank(t)
    BY RanksDiffer
  <1>3. ~(Rank(t) < Rank(u) /\ Rank(u) < Rank(t))
    BY <1>1
  <1>4. \A v \in Targets : Rank(t) < Rank(u) /\ Rank(u) < Rank(v) => Rank(t) < Rank(v)
    BY <1>1
  <1> QED BY <1>2, <1>3, <1>4 DEF Ahead

Before(pool, t) == {u \in pool : Ahead(u, t)}

(* Every place of a pool's order is one target's, and no two are the same  *)
(* one's: the number of those ahead tells the targets apart.               *)
LEMMA PlacesAre ==
    ASSUME NEW pool, pool \subseteq Targets
    PROVE  \A i \in 1 .. Cardinality(pool) : \E t \in pool : Cardinality(Before(pool, t)) = i - 1
  <1> DEFINE n == Cardinality(pool)
             place == [t \in pool |-> Cardinality(Before(pool, t)) + 1]
  <1>1. IsFiniteSet(pool) /\ n \in Nat
    BY PoolIs
  <1>2. \A t \in pool : IsFiniteSet(Before(pool, t)) /\ Cardinality(Before(pool, t)) \in Nat
    BY <1>1, FS_Subset, FS_CardinalityType DEF Before
  <1>3. ASSUME NEW t \in pool PROVE Cardinality(Before(pool, t)) < n
    <2>1. t \notin Before(pool, t)
      BY AheadIs DEF Before
    <2>2. Before(pool, t) \subseteq pool /\ Before(pool, t) # pool
      BY <2>1 DEF Before
    <2>3. Cardinality(Before(pool, t)) <= n /\ (Cardinality(Before(pool, t)) = n => Before(pool, t) = pool)
      BY <1>1, <2>2, FS_Subset
    <2> HIDE DEF n
    <2> QED BY <1>1, <1>2, <2>2, <2>3
  <1>4. ASSUME NEW t \in pool, NEW u \in pool, Ahead(t, u)
        PROVE  Cardinality(Before(pool, t)) < Cardinality(Before(pool, u))
    <2>1. Before(pool, t) \subseteq Before(pool, u)
      <3>1. \A v \in pool : Ahead(v, t) => Ahead(v, u)
        BY <1>4, AheadIs
      <3> QED BY <3>1 DEF Before
    <2>2. t \in Before(pool, u) /\ t \notin Before(pool, t)
      BY <1>4, AheadIs DEF Before
    <2>3. /\ Cardinality(Before(pool, t)) <= Cardinality(Before(pool, u))
          /\ Cardinality(Before(pool, t)) = Cardinality(Before(pool, u)) => Before(pool, t) = Before(pool, u)
      BY <1>2, <2>1, FS_Subset
    <2> QED BY <1>2, <2>2, <2>3
  <1>5. place \in Injection(pool, 1 .. n)
    <2>1. \A t \in pool : Cardinality(Before(pool, t)) + 1 \in 1 .. n
      <3> HIDE DEF n
      <3> QED BY <1>1, <1>2, <1>3
    <2>2. ASSUME NEW t \in pool, NEW u \in pool, place[t] = place[u] PROVE t = u
      <3>1. Cardinality(Before(pool, t)) = Cardinality(Before(pool, u))
        BY <1>2, <2>2
      <3>2. ~Ahead(t, u) /\ ~Ahead(u, t)
        BY <1>2, <1>4, <3>1
      <3> QED BY <3>2, AheadIs
    <2>3. place \in [pool -> 1 .. n]
      BY <2>1
    <2> HIDE DEF place, n
    <2> QED BY <2>2, <2>3 DEF Injection, IsInjective
  <1>6. place \in Bijection(pool, 1 .. n)
    <2>1. IsFiniteSet(1 .. n) /\ Cardinality(1 .. n) = n
      BY <1>1, FS_Interval
    <2>2. Cardinality(pool) = Cardinality(1 .. n)
      BY <2>1
    <2> HIDE DEF place, n
    <2> QED BY <1>5, <2>1, <2>2, FS_Injection DEF Bijection
  <1>7. \A i \in 1 .. n : \E t \in pool : place[t] = i
    <2> HIDE DEF place, n
    <2> QED BY <1>6 DEF Bijection, Surjection
  <1>8. \A i \in 1 .. n : \A t \in pool : place[t] = i => Cardinality(Before(pool, t)) = i - 1
    <2> HIDE DEF n
    <2> QED BY <1>2, <1>1
  <1> HIDE DEF place
  <1> QED BY <1>7, <1>8

(* What StableOrder() returns: a row of the pool's targets, each once.     *)
LEMMA OrderIs ==
    ASSUME NEW pool, pool \subseteq Targets
    PROVE  /\ StableOrder(pool) \in Seq(pool) /\ Len(StableOrder(pool)) = Cardinality(pool)
           /\ \A i \in 1 .. Cardinality(pool) : StableOrder(pool)[i] \in pool
           /\ \A i, j \in 1 .. Cardinality(pool) : i # j => StableOrder(pool)[i] # StableOrder(pool)[j]
  <1> DEFINE n == Cardinality(pool)  order == StableOrder(pool)
  <1>1. n \in Nat
    BY PoolIs
  <1>2. order = [i \in 1 .. n |-> CHOOSE t \in pool : Cardinality(Before(pool, t)) = i - 1]
    BY DEF StableOrder, Before
  <1>3. \A i \in 1 .. n : order[i] \in pool /\ Cardinality(Before(pool, order[i])) = i - 1
    <2>1. \A i \in 1 .. n : \E t \in pool : Cardinality(Before(pool, t)) = i - 1
      BY PlacesAre
    <2> HIDE DEF order, n
    <2> QED BY <1>2, <2>1
  <1> HIDE DEF order, n
  <1>4. order \in Seq(pool) /\ Len(order) = n
    <2>1. order \in [1 .. n -> pool]
      BY <1>2, <1>3
    <2> QED BY <1>1, <2>1
  <1>5. \A i, j \in 1 .. n : i # j => order[i] # order[j]
    <2> SUFFICES ASSUME NEW i \in 1 .. n, NEW j \in 1 .. n, order[i] = order[j] PROVE i = j
      OBVIOUS
    <2>1. i - 1 = j - 1
      BY <1>3
    <2> QED BY <2>1, <1>1
  <1> QED BY <1>3, <1>4, <1>5 DEF order, n

(* Each of the orders a policy asks for has a first target in any pool.    *)
FreerOf(b, t, u) == b[t] < b[u] \/ (b[t] = b[u] /\ Rank(t) < Rank(u))
CheaperOf(p, b, t, u) == \/ p[t] < p[u]
                         \/ p[t] = p[u] /\ b[t] < b[u]
                         \/ p[t] = p[u] /\ b[t] = b[u] /\ Rank(t) < Rank(u)
RicherOf(c, t, u) == c[t] > c[u] \/ (c[t] = c[u] /\ Rank(t) < Rank(u))

LEMMA FreeestIs ==
    ASSUME NEW S, S \subseteq Targets, S # {}, NEW b \in [Targets -> Int]
    PROVE  \E t \in S : \A u \in S \ {t} : FreerOf(b, t, u)
  <1> DEFINE R == {p \in S \X S : FreerOf(b, p[1], p[2])}
  <1>1. \A t \in S : b[t] \in Int /\ Rank(t) \in Nat
    BY TargetsAre
  <1>2. \A t, u \in S : t # u => Rank(t) < Rank(u) \/ Rank(u) < Rank(t)
    BY RanksDiffer
  <1>3. \A t, u \in S : <<t, u>> \in R <=> FreerOf(b, t, u)
    OBVIOUS
  <1>4. \A t, u \in S : t # u => FreerOf(b, t, u) \/ FreerOf(b, u, t)
    BY <1>1, <1>2 DEF FreerOf
  <1>5. \A t, u, v \in S : FreerOf(b, t, u) /\ FreerOf(b, u, v) => FreerOf(b, t, v)
    BY <1>1 DEF FreerOf
  <1>6. IsFiniteSet(S)
    BY PoolIs
  <1> HIDE DEF R
  <1>7. \E t \in S : \A u \in S \ {t} : <<t, u>> \in R
    <2>1. \A t, u \in S : t # u => <<t, u>> \in R \/ <<u, t>> \in R
      BY <1>3, <1>4
    <2>2. \A t, u, v \in S : <<t, u>> \in R /\ <<u, v>> \in R => <<t, v>> \in R
      BY <1>3, <1>5
    <2> QED BY <1>6, <2>1, <2>2, FirstInOrder
  <1> QED BY <1>3, <1>7

LEMMA CheapestIs ==
    ASSUME NEW S, S \subseteq Targets, S # {}, NEW b \in [Targets -> Int], NEW p, \A t \in S : p[t] \in Int
    PROVE  \E t \in S : \A u \in S \ {t} : CheaperOf(p, b, t, u)
  <1> DEFINE R == {q \in S \X S : CheaperOf(p, b, q[1], q[2])}
  <1>1. \A t \in S : b[t] \in Int /\ p[t] \in Int /\ Rank(t) \in Nat
    BY TargetsAre
  <1>2. \A t, u \in S : t # u => Rank(t) < Rank(u) \/ Rank(u) < Rank(t)
    BY RanksDiffer
  <1>3. \A t, u \in S : <<t, u>> \in R <=> CheaperOf(p, b, t, u)
    OBVIOUS
  <1>4. \A t, u \in S : t # u => CheaperOf(p, b, t, u) \/ CheaperOf(p, b, u, t)
    BY <1>1, <1>2 DEF CheaperOf
  <1>5. \A t, u, v \in S : CheaperOf(p, b, t, u) /\ CheaperOf(p, b, u, v) => CheaperOf(p, b, t, v)
    BY <1>1 DEF CheaperOf
  <1>6. IsFiniteSet(S)
    BY PoolIs
  <1> HIDE DEF R
  <1>7. \E t \in S : \A u \in S \ {t} : <<t, u>> \in R
    <2>1. \A t, u \in S : t # u => <<t, u>> \in R \/ <<u, t>> \in R
      BY <1>3, <1>4
    <2>2. \A t, u, v \in S : <<t, u>> \in R /\ <<u, v>> \in R => <<t, v>> \in R
      BY <1>3, <1>5
    <2> QED BY <1>6, <2>1, <2>2, FirstInOrder
  <1> QED BY <1>3, <1>7

LEMMA RichestIs ==
    ASSUME NEW S, S \subseteq Targets, S # {}, NEW c \in [Targets -> Int]
    PROVE  \E t \in S : \A u \in S \ {t} : RicherOf(c, t, u)
  <1> DEFINE d == [t \in Targets |-> -c[t]]
  <1>1. d \in [Targets -> Int]
    OBVIOUS
  <1>2. PICK t \in S : \A u \in S \ {t} : FreerOf(d, t, u)
    <2> HIDE DEF d
    <2> QED BY <1>1, FreeestIs
  <1>3. \A u \in S : c[u] \in Int /\ d[u] = -c[u]
    OBVIOUS
  <1> HIDE DEF d
  <1>4. \A u \in S \ {t} : RicherOf(c, t, u)
    BY <1>2, <1>3 DEF FreerOf, RicherOf
  <1> QED BY <1>4

LEMMA LeastOutstandingIs ==
    ASSUME NEW pool, pool \subseteq Targets, busy \in [Targets -> Int]
    PROVE  IF pool = {} THEN LeastOutstanding(pool) = Nowhere ELSE LeastOutstanding(pool) \in pool
  <1>1. CASE pool = {}
    BY <1>1 DEF LeastOutstanding, First
  <1>2. CASE pool # {}
    <2>1. \E t \in pool : \A u \in pool \ {t} : FreerOf(busy, t, u)
      BY <1>2, FreeestIs
    <2>2. LeastOutstanding(pool) = CHOOSE t \in pool : \A u \in pool \ {t} : FreerOf(busy, t, u)
      BY <1>2 DEF LeastOutstanding, First, FreerOf
    <2> QED BY <1>2, <2>1, <2>2
  <1> QED BY <1>1, <1>2

LEMMA MostCreditIs ==
    ASSUME NEW W, W \subseteq Targets, W # {}, Raised(W) \in [Targets -> Int]
    PROVE  MostCredit(W) \in W /\ \A u \in W : Raised(W)[u] <= Raised(W)[MostCredit(W)]
  <1> DEFINE c == Raised(W)  best == MostCredit(W)
  <1>1. \E t \in W : \A u \in W \ {t} : RicherOf(c, t, u)
    <2> HIDE DEF c
    <2> QED BY RichestIs DEF c
  <1>2. best = CHOOSE t \in W : \A u \in W \ {t} : RicherOf(c, t, u)
    BY DEF MostCredit, First, RicherOf
  <1> HIDE DEF best, c
  <1>3. best \in W /\ \A u \in W \ {best} : RicherOf(c, best, u)
    BY <1>1, <1>2
  <1>4. \A u \in W : c[u] \in Int
    BY DEF c
  <1>5. \A u \in W : c[u] <= c[best]
    BY <1>3, <1>4 DEF RicherOf
  <1> QED BY <1>3, <1>5 DEF best, c

----------------------------------------------------------------------------
(* Weights: the shares of one scoring are at most the whole.               *)

Shared(sh) ==
    /\ DOMAIN sh \subseteq Targets
    /\ \A t \in DOMAIN sh : sh[t] \in Nat
    /\ SumOf(sh, DOMAIN sh) <= WeightScale

LEMMA NaturalSum ==
    ASSUME NEW c, NEW S, IsFiniteSet(S), \A x \in S : c[x] \in Nat
    PROVE  Summable(c, S) /\ SumOf(c, S) \in Nat
  <1> DEFINE none == [x \in S |-> 0]
  <1>1. Summable(c, S) /\ Summable(none, S) /\ \A x \in S : none[x] = 0
    BY DEF Summable
  <1>2. \A x \in S : none[x] <= c[x]
    OBVIOUS
  <1> HIDE DEF none
  <1>3. SumOf(none, S) = 0 * Cardinality(S) /\ Cardinality(S) \in Nat
    BY <1>1, SumEqual, FS_CardinalityType
  <1>4. SumOf(none, S) <= SumOf(c, S) /\ SumOf(c, S) \in Int
    BY <1>1, <1>2, SumAtMost, SumOne
  <1> QED BY <1>1, <1>3, <1>4

LEMMA ComputedShared ==
    ASSUME NEW group, group \subseteq Targets, NEW strength, \A t \in group : strength[t] \in Nat
    PROVE  Shared(ComputeWeights(group, strength)) /\ DOMAIN ComputeWeights(group, strength) = group
  <1> DEFINE counted == [t \in group |-> IF BelowFloor(t, strength, group) THEN 0 ELSE strength[t]]
             total == SumOf(counted, group)
             w == ComputeWeights(group, strength)
  <1>1. IsFiniteSet(group) /\ \A t \in group : counted[t] \in Nat
    BY PoolIs
  <1>2. w = [t \in group |-> IF total <= 0 THEN WeightScale \div Cardinality(group)
                             ELSE (counted[t] * WeightScale) \div total]
    BY DEF ComputeWeights, SumOf
  <1> HIDE DEF counted, w
  <1>3. total \in Nat /\ Summable(counted, group)
    BY <1>1, NaturalSum
  <1> HIDE DEF total
  <1>4. DOMAIN w = group /\ WeightScale \in Nat
    BY <1>2, RoutingAssumption
  <1>5. ASSUME total <= 0 PROVE Shared(w)
    <2> DEFINE even == WeightScale \div Cardinality(group)
    <2>1. \A t \in group : w[t] = even
      BY <1>2, <1>5
    <2>2. CASE group = {}
      <3>1. SumOf(w, group) = 0
        BY <2>2, SumNone
      <3> QED BY <2>2, <3>1, <1>4 DEF Shared
    <2>3. CASE group # {}
      <3>1. Cardinality(group) \in Nat \ {0}
        BY <2>3, <1>1, FS_CardinalityType, FS_EmptySet
      <3>2. even \in Nat /\ Cardinality(group) * even <= WeightScale
        BY <3>1, <1>4, Divides
      <3> HIDE DEF even
      <3>3. SumOf(w, group) = even * Cardinality(group)
        BY <1>1, <2>1, <3>2, SumEqual
      <3>4. even * Cardinality(group) = Cardinality(group) * even
        BY <3>1, <3>2
      <3>5. SumOf(w, DOMAIN w) <= WeightScale
        BY <1>4, <3>2, <3>3, <3>4
      <3> QED BY <1>4, <2>1, <3>2, <3>5 DEF Shared
    <2> QED BY <2>2, <2>3
  <1>6. ASSUME total > 0 PROVE Shared(w)
    <2> DEFINE part == [t \in group |-> counted[t] * WeightScale]
               scaled == [t \in group |-> total * w[t]]
               of == [t \in group |-> WeightScale * counted[t]]
    <2>1. \A t \in group : counted[t] * WeightScale \in Nat /\ w[t] = (counted[t] * WeightScale) \div total
      BY <1>1, <1>2, <1>3, <1>4, <1>6
    <2>2. ASSUME NEW t \in group PROVE w[t] \in Nat /\ total * w[t] <= counted[t] * WeightScale
      <3> DEFINE a == counted[t] * WeightScale
      <3>1. a \in Nat /\ w[t] = a \div total /\ total \in Nat \ {0}
        BY <1>3, <1>6, <2>1
      <3> HIDE DEF a
      <3>2. w[t] \in Nat /\ total * w[t] <= a
        BY <3>1, Divides
      <3> QED BY <3>2 DEF a
    <2>3. Summable(w, group) /\ SumOf(w, group) \in Nat
      BY <1>1, <2>2, NaturalSum
    <2>4. SumOf(scaled, group) = total * SumOf(w, group) /\ \A t \in group : scaled[t] = total * w[t]
      <3>1. \A t \in group : scaled[t] = total * w[t]
        OBVIOUS
      <3> HIDE DEF scaled
      <3> QED BY <3>1, <1>3, <2>3, SumTimes
    <2>5. SumOf(of, group) = WeightScale * total /\ \A t \in group : of[t] = WeightScale * counted[t]
      <3>1. \A t \in group : of[t] = WeightScale * counted[t]
        OBVIOUS
      <3> HIDE DEF of
      <3> QED BY <3>1, <1>3, <1>4, SumTimes DEF total
    <2> HIDE DEF scaled, of
    <2>6. \A t \in group : scaled[t] \in Int /\ of[t] \in Int /\ scaled[t] <= of[t]
      BY <1>1, <1>3, <1>4, <2>2, <2>4, <2>5
    <2>7. SumOf(scaled, group) <= SumOf(of, group)
      <3>1. Summable(scaled, group) /\ Summable(of, group)
        BY <1>1, <2>6 DEF Summable
      <3> QED BY <3>1, <2>6, SumAtMost
    <2>8. total * SumOf(w, group) <= total * WeightScale
      <3>1. WeightScale * total = total * WeightScale
        BY <1>3, <1>4
      <3> QED BY <3>1, <2>4, <2>5, <2>7
    <2>9. SumOf(w, group) <= WeightScale
      BY <2>3, <2>8, <1>3, <1>4, <1>6, NotMoreThan
    <2> QED BY <1>4, <2>2, <2>9 DEF Shared
  <1>7. DOMAIN w = group /\ Shared(w)
    <2>1. total <= 0 \/ total > 0
      BY <1>3
    <2> QED BY <2>1, <1>4, <1>5, <1>6
  <1> QED BY <1>7 DEF w

(* An unmeasured remote at the mean of the locals is a natural strength.   *)
LEMMA GroupRawIs ==
    ASSUME NEW group, group \subseteq Targets, NEW strength, \A t \in group : strength[t] \in Nat
    PROVE  \A t \in group : GroupRaw(group, strength)[t] \in Nat
  <1> DEFINE locals == {t \in group \cap Locals : strength[t] > 0}
             sum == SumOf(strength, locals)
             mean == sum \div Cardinality(locals)
  <1>1. GroupRaw(group, strength) =
           [t \in group |-> IF t \in Remotes /\ measured[t] = 0 /\ locals # {} THEN mean ELSE strength[t]]
    BY DEF GroupRaw, SumOf
  <1>2. locals \subseteq Targets /\ \A t \in locals : strength[t] \in Nat
    OBVIOUS
  <1> HIDE DEF locals
  <1>3. IsFiniteSet(locals) /\ sum \in Nat /\ (locals # {} => Cardinality(locals) \in Nat \ {0})
    BY <1>2, PoolIs, NaturalSum, FS_CardinalityType, FS_EmptySet
  <1> HIDE DEF sum
  <1>4. locals # {} => mean \in Nat
    BY <1>3, Divides
  <1> HIDE DEF mean
  <1> QED BY <1>1, <1>4

----------------------------------------------------------------------------
(* Credits.  Let n be the number of targets and k that of any of them: the *)
(* k owe together at most k * (n - k) half rounds.  It holds of every set  *)
(* of them because the one that pays for a round is the richest of those   *)
(* the round was for.                                                      *)

LEMMA Area ==
    ASSUME NEW k \in Int, NEW m \in Int, NEW n \in Int
    PROVE  m * ((k - 1) * (n - (k - 1))) + (k + m) * (n - (k + m)) = (m + 1) * (k * (n - k)) - m * (m + 1)
  <1> DEFINE q == n - k
  <1>1. q \in Int /\ n - (k - 1) = q + 1 /\ n - (k + m) = q - m /\ n - k = q
    OBVIOUS
  <1> HIDE DEF q
  <1>2. m * ((k - 1) * (q + 1)) + (k + m) * (q - m) = (m + 1) * (k * q) - m * (m + 1)
    BY <1>1
  <1> QED BY <1>1, <1>2

LEMMA Balance ==
    ASSUME NEW k \in Nat \ {0}, NEW m \in Nat \ {0}, NEW n \in Nat, NEW T \in Nat, NEW S \in Nat, S <= T,
           NEW s \in Int, NEW x \in Int, NEW a \in Int, NEW g \in Int,
           2 * a >= -(T * ((k - 1) * (n - (k - 1)))), s >= a + x - S,
           2 * g >= -(T * ((k + m) * (n - (k + m)))), s >= g - m * x
    PROVE  2 * s >= -(T * (k * (n - k)))
  <1> DEFINE L == (k - 1) * (n - (k - 1))  G == (k + m) * (n - (k + m))  P == k * (n - k)
             y == 2 * s + T * P
  <1>1. L \in Int /\ G \in Int /\ P \in Int /\ m * L + G = (m + 1) * P - m * (m + 1)
    BY Area
  <1>2. 2 * a >= -(T * L) /\ 2 * g >= -(T * G) /\ y = 2 * s + T * P
    OBVIOUS
  <1> HIDE DEF L, G, P, y
  <1>3. m * (2 * s) >= -(m * (T * L)) + 2 * (m * x) - 2 * (m * S)
    <2> DEFINE z == -(T * L) + 2 * x - 2 * S
    <2>1. z \in Int /\ 2 * s >= z
      BY <1>1, <1>2
    <2>2. m * z = -(m * (T * L)) + 2 * (m * x) - 2 * (m * S)
      BY <1>1
    <2> HIDE DEF z
    <2>3. m * z <= m * (2 * s)
      BY <2>1, TimesGrows
    <2> QED BY <2>2, <2>3
  <1>4. 2 * s >= -(T * G) - 2 * (m * x)
    <2>1. m * x \in Int /\ T * G \in Int
      BY <1>1
    <2> QED BY <2>1, <1>2
  <1>5. m * (T * L) + T * G = (m + 1) * (T * P) - T * (m * (m + 1))
    <2>1. T * (m * L + G) = m * (T * L) + T * G
      BY <1>1
    <2>2. T * ((m + 1) * P - m * (m + 1)) = (m + 1) * (T * P) - T * (m * (m + 1))
      BY <1>1
    <2> QED BY <1>1, <2>1, <2>2
  <1>6. T * (m * (m + 1)) >= 2 * (m * S)
    <2>1. m * S <= m * T
      BY TimesGrows
    <2>2. T * (m * (m + 1)) = (m + 1) * (m * T) /\ m * T \in Nat
      OBVIOUS
    <2>3. (m * T) * 2 <= (m * T) * (m + 1)
      BY <2>2, TimesGrows
    <2>4. m * S \in Int
      OBVIOUS
    <2> QED BY <2>1, <2>2, <2>3, <2>4
  <1>7. (m + 1) * y >= 0
    <2>1. (m + 1) * y = m * (2 * s) + 2 * s + (m + 1) * (T * P)
      BY <1>1, <1>2
    <2>2. /\ m * (2 * s) \in Int /\ m * (T * L) \in Int /\ m * x \in Int /\ m * S \in Int /\ T * G \in Int
          /\ (m + 1) * (T * P) \in Int /\ T * (m * (m + 1)) \in Int
      BY <1>1
    <2> QED BY <1>3, <1>4, <1>5, <1>6, <2>1, <2>2
  <1>8. y \in Int /\ ~(y <= -1)
    <2>1. y \in Int
      BY <1>1, <1>2
    <2>2. y <= -1 => (m + 1) * y <= (m + 1) * (-1)
      BY <2>1, TimesGrows
    <2> QED BY <1>7, <2>1, <2>2
  <1>9. T * P \in Int
    BY <1>1
  <1> QED BY <1>2, <1>8, <1>9 DEF P

Debt(k) == WeightScale * (k * (Cardinality(Targets) - k))
CreditsFair(c) ==
    /\ c \in [Targets -> Int]
    /\ SumOf(c, Targets) = 0
    /\ \A A \in SUBSET Targets : 2 * SumOf(c, A) >= -Debt(Cardinality(A))

LEMMA CreditSums ==
    ASSUME NEW c \in [Targets -> Int], NEW A \in SUBSET Targets
    PROVE  Summable(c, A) /\ SumOf(c, A) \in Int
  <1>1. Summable(c, A)
    BY PoolIs DEF Summable
  <1> QED BY <1>1, SumOne

LEMMA NothingFair == CreditsFair([t \in Targets |-> 0])
  <1> DEFINE c == [t \in Targets |-> 0]  n == Cardinality(Targets)
  <1>1. c \in [Targets -> Int] /\ \A t \in Targets : c[t] = 0
    OBVIOUS
  <1> HIDE DEF c
  <1>2. ASSUME NEW A \in SUBSET Targets PROVE SumOf(c, A) = 0
    <2>1. SumOf(c, A) = 0 * Cardinality(A) /\ Cardinality(A) \in Nat
      <3>1. IsFiniteSet(A) /\ \A t \in A : c[t] = 0
        BY <1>1, PoolIs
      <3> QED BY <3>1, SumEqual, FS_CardinalityType
    <2> QED BY <2>1
  <1>3. ASSUME NEW A \in SUBSET Targets PROVE Debt(Cardinality(A)) \in Nat
    <2>1. Cardinality(A) \in Nat /\ n - Cardinality(A) \in Nat /\ WeightScale \in Nat
      BY PoolIs, TargetsAre, RoutingAssumption
    <2> HIDE DEF n
    <2> QED BY <2>1 DEF Debt, n
  <1>4. \A A \in SUBSET Targets : 2 * SumOf(c, A) >= -Debt(Cardinality(A))
    BY <1>2, <1>3
  <1> QED BY <1>1, <1>2, <1>4 DEF CreditsFair, c

(* A round: everyone of W rises by its share and the richest pays.         *)
LEMMA RoundFair ==
    ASSUME NEW c, CreditsFair(c), NEW W \in SUBSET Targets, NEW w \in [Targets -> Nat],
           \A t \in Targets \ W : w[t] = 0, SumOf(w, W) <= WeightScale, NEW b \in W,
           \A u \in W : c[u] + w[u] <= c[b] + w[b],
           NEW d \in [Targets -> Int],
           \A t \in Targets \ {b} : d[t] = c[t] + w[t], d[b] = (c[b] + w[b]) - SumOf(w, W)
    PROVE  CreditsFair(d)
  <1> DEFINE S == SumOf(w, W)
             r == [t \in Targets |-> c[t] + w[t]]
             n == Cardinality(Targets)
  <1>1. c \in [Targets -> Int] /\ w \in [Targets -> Int] /\ r \in [Targets -> Int]
    BY DEF CreditsFair
  <1>2. S \in Nat /\ S <= WeightScale /\ WeightScale \in Nat /\ n \in Nat /\ b \in Targets
    <2>1. IsFiniteSet(W) /\ \A t \in W : w[t] \in Nat
      BY PoolIs
    <2> QED BY <2>1, NaturalSum, TargetsAre, RoutingAssumption
  <1>3. /\ \A t \in Targets : r[t] = c[t] + w[t]
        /\ \A t \in Targets \ {b} : d[t] = r[t]
        /\ d[b] = r[b] - S
    OBVIOUS
  <1> HIDE DEF r, S, n
  <1>4. ASSUME NEW A \in SUBSET Targets PROVE SumOf(r, A) = SumOf(c, A) + SumOf(w, A)
    <2>1. Summable(c, A) /\ Summable(w, A)
      BY <1>1, CreditSums
    <2>2. \A t \in A : r[t] = c[t] + w[t]
      BY <1>3
    <2> QED BY <2>1, <2>2, SumAdds
  \* What a set has after the round, whether or not the payer is in it.
  <1>5. ASSUME NEW A \in SUBSET Targets, b \notin A PROVE SumOf(d, A) = SumOf(r, A)
    <2>1. \A t \in A : d[t] = r[t]
      BY <1>1, <1>3, <1>5
    <2> QED BY <2>1, CreditSums, SumSame
  <1>6. ASSUME NEW A \in SUBSET Targets, b \in A
        PROVE  SumOf(d, A) = SumOf(r, A) - S /\ SumOf(r, A) = r[b] + SumOf(r, A \ {b})
    <2>1. A \ {b} \in SUBSET Targets /\ b \notin A \ {b}
      OBVIOUS
    <2>2. SumOf(d, A \ {b}) = SumOf(r, A \ {b}) /\ SumOf(r, A \ {b}) \in Int
      BY <2>1, <1>1, <1>5, CreditSums
    <2>3. SumOf(d, A) = d[b] + SumOf(d, A \ {b}) /\ SumOf(r, A) = r[b] + SumOf(r, A \ {b})
      BY <1>1, <1>6, CreditSums, SumLess
    <2>4. d[b] = r[b] - S /\ r[b] \in Int
      BY <1>1, <1>2, <1>3
    <2> QED BY <1>2, <2>2, <2>3, <2>4
  <1>7. ASSUME NEW A \in SUBSET Targets, W \subseteq A PROVE SumOf(w, A) = S
    <2> DEFINE rest == A \ W
    <2>1. SumOf(w, W \cup rest) = SumOf(w, W) + SumOf(w, rest)
      <3>1. W \cap rest = {} /\ Summable(w, W) /\ Summable(w, rest)
        BY <1>1, CreditSums
      <3> HIDE DEF rest
      <3> QED BY <3>1, SumBoth
    <2>2. SumOf(w, rest) = 0 * Cardinality(rest) /\ Cardinality(rest) \in Nat
      <3>1. IsFiniteSet(rest) /\ \A t \in rest : w[t] = 0
        BY PoolIs
      <3> HIDE DEF rest
      <3> QED BY <3>1, SumEqual, FS_CardinalityType
    <2>3. W \cup rest = A
      BY <1>7
    <2> HIDE DEF rest
    <2>4. SumOf(w, W) = S
      BY DEF S
    <2>5. SumOf(w, rest) = 0
      BY <2>2
    <2> QED BY ONLY <2>1, <2>3, <2>4, <2>5, <1>2
  <1>8. ASSUME NEW A \in SUBSET Targets, W \subseteq A PROVE SumOf(d, A) = SumOf(c, A)
    <2>1. SumOf(d, A) = SumOf(r, A) - S /\ SumOf(r, A) = SumOf(c, A) + SumOf(w, A) /\ SumOf(w, A) = S
      BY <1>4, <1>6, <1>7, <1>8
    <2>2. SumOf(c, A) \in Int
      BY <1>1, CreditSums
    <2> QED BY <1>2, <2>1, <2>2
  <1>9. SumOf(d, Targets) = 0
    BY <1>8 DEF CreditsFair
  <1>10. ASSUME NEW A \in SUBSET Targets PROVE 2 * SumOf(d, A) >= -Debt(Cardinality(A))
    <2>c. \A B \in SUBSET Targets : 2 * SumOf(c, B) >= -Debt(Cardinality(B))
      BY DEF CreditsFair
    <2>i. /\ SumOf(c, A) \in Int /\ SumOf(d, A) \in Int /\ SumOf(r, A) \in Int /\ SumOf(w, A) \in Nat
          /\ Debt(Cardinality(A)) \in Int
      <3>1. IsFiniteSet(A) /\ Cardinality(A) \in Nat /\ \A t \in A : w[t] \in Nat
        BY PoolIs
      <3>2. Debt(Cardinality(A)) \in Int
        BY <3>1, <1>2, TargetsAre DEF Debt
      <3> QED BY <3>1, <3>2, <1>1, CreditSums, NaturalSum
    <2>1. CASE b \notin A
      <3>1. SumOf(d, A) = SumOf(c, A) + SumOf(w, A)
        BY <2>1, <1>4, <1>5
      <3>2. 2 * SumOf(c, A) >= -Debt(Cardinality(A))
        BY <2>c
      <3> QED BY <3>1, <3>2, <2>i
    <2>2. CASE W \subseteq A
      <3>1. SumOf(d, A) = SumOf(c, A)
        BY <2>2, <1>8
      <3> QED BY <3>1, <2>c
    <2>3. CASE b \in A /\ ~(W \subseteq A)
      <3> DEFINE M == W \ A  others == A \ {b}  B == A \cup M
                 k == Cardinality(A)  m == Cardinality(M)  x == r[b]
      <3>1. M \in SUBSET Targets /\ others \in SUBSET Targets /\ B \in SUBSET Targets /\ W \subseteq B /\ b \notin M
            /\ A \cap M = {} /\ M # {} /\ M \subseteq W
        BY <2>3
      <3>2. x \in Int /\ \A u \in M : d[u] <= x /\ d[u] \in Int
        <4>1. \A u \in W : r[u] <= r[b]
          BY <1>3
        <4>2. \A u \in M : d[u] = r[u] /\ u \in W
          BY <1>1, <1>3, <3>1
        <4> QED BY <1>1, <1>2, <4>1, <4>2
      <3>3. k \in Nat \ {0} /\ m \in Nat \ {0} /\ Cardinality(others) = k - 1
            /\ Cardinality(B) = k + m
        <4>1. IsFiniteSet(A) /\ IsFiniteSet(M) /\ k \in Nat /\ m \in Nat
          BY <3>1, PoolIs
        <4>2. k # 0 /\ m # 0
          BY <4>1, <2>3, <3>1, FS_EmptySet
        <4>3. Cardinality(others) = k - 1
          BY <4>1, <2>3, FS_RemoveElement
        <4>4. Cardinality(B) = k + m - Cardinality(A \cap M) /\ Cardinality(A \cap M) = 0
          <5> HIDE DEF M
          <5> QED BY <4>1, <3>1, FS_Union, FS_EmptySet
        <4> HIDE DEF k, m, others, B, M
        <4> QED BY <4>1, <4>2, <4>3, <4>4
      <3> HIDE DEF M, others, B, k, m, x
      <3>4. /\ SumOf(c, others) \in Int /\ SumOf(w, others) \in Nat /\ SumOf(c, B) \in Int /\ SumOf(d, M) \in Int
        <4>1. IsFiniteSet(others) /\ \A t \in others : w[t] \in Nat
          BY <3>1, PoolIs
        <4> QED BY <4>1, <3>1, <1>1, CreditSums, NaturalSum
      <3>5. SumOf(d, A) >= SumOf(c, others) + x - S
        <4>1. SumOf(d, A) = SumOf(r, A) - S /\ SumOf(r, A) = x + SumOf(r, others)
          BY <2>3, <1>6 DEF x, others
        <4>2. SumOf(r, others) = SumOf(c, others) + SumOf(w, others)
          BY <3>1, <1>4
        <4> QED BY <4>1, <4>2, <3>2, <3>4, <1>2
      <3>6. SumOf(d, M) <= m * x
        <4> DEFINE top == [u \in M |-> x]
        <4>1. \A u \in M : top[u] = x /\ d[u] <= top[u]
          BY <3>2
        <4>2. IsFiniteSet(M) /\ Summable(d, M)
          BY <3>1, PoolIs, CreditSums
        <4> HIDE DEF top
        <4>3. Summable(top, M)
          BY <3>2, <4>1, <4>2 DEF Summable
        <4>4. SumOf(top, M) = x * m
          BY <3>2, <4>1, <4>2, SumEqual DEF m
        <4>5. x * m = m * x
          BY <3>2, <3>3
        <4> QED BY <4>1, <4>2, <4>3, <4>4, <4>5, SumAtMost
      <3>7. SumOf(d, A) >= SumOf(c, B) - m * x
        <4>1. SumOf(d, B) = SumOf(d, A) + SumOf(d, M)
          BY <3>1, CreditSums, SumBoth DEF B
        <4>2. SumOf(d, B) = SumOf(c, B)
          BY <3>1, <1>8
        <4>3. m * x \in Int
          BY <3>2, <3>3
        <4> QED BY <4>1, <4>2, <4>3, <3>4, <3>6, <2>i
      <3>8. /\ 2 * SumOf(c, others) >= -(WeightScale * ((k - 1) * (n - (k - 1))))
            /\ 2 * SumOf(c, B) >= -(WeightScale * ((k + m) * (n - (k + m))))
        BY <2>c, <3>1, <3>3 DEF Debt, n
      <3>9. 2 * SumOf(d, A) >= -(WeightScale * (k * (n - k)))
        BY ONLY <1>2, <2>i, <3>2, <3>3, <3>4, <3>5, <3>7, <3>8, Balance
      <3> QED BY <3>9 DEF Debt, k, n
    <2> QED BY <2>1, <2>2, <2>3
  <1> QED BY <1>9, <1>10 DEF CreditsFair

(* So one of them alone is bounded both ways, by the others' sum.          *)
LEMMA FairBounds ==
    ASSUME NEW c, CreditsFair(c), NEW t \in Targets
    PROVE  /\ 2 * c[t] <= WeightScale * (Cardinality(Targets) - 1)
           /\ 2 * c[t] >= -(WeightScale * (Cardinality(Targets) - 1))
  <1> DEFINE n == Cardinality(Targets)  others == Targets \ {t}  A == {t}
  <1>1. c \in [Targets -> Int] /\ n \in Nat /\ WeightScale \in Nat /\ c[t] \in Int
    BY TargetsAre, RoutingAssumption DEF CreditsFair
  <1>2. Cardinality(others) = n - 1 /\ Cardinality(A) = 1
    BY TargetsAre, FS_RemoveElement, FS_Singleton
  <1>3. SumOf(c, Targets) = c[t] + SumOf(c, others) /\ SumOf(c, others) \in Int
    BY <1>1, CreditSums, SumLess
  <1>4. SumOf(c, A) = c[t]
    <2>1. SumOf(c, A) = c[t] + SumOf(c, A \ {t})
      BY <1>1, CreditSums, SumLess
    <2>2. A \ {t} = {}
      OBVIOUS
    <2> QED BY <1>1, <2>1, <2>2, SumNone
  <1>5. 2 * SumOf(c, A) >= -Debt(Cardinality(A)) /\ 2 * SumOf(c, others) >= -Debt(Cardinality(others))
        /\ SumOf(c, Targets) = 0
    BY DEF CreditsFair
  <1> HIDE DEF others, A
  <1>6. Debt(1) = WeightScale * (n - 1) /\ Debt(n - 1) = WeightScale * (n - 1) /\ WeightScale * (n - 1) \in Int
    <2>1. 1 * (n - 1) = n - 1 /\ (n - 1) * (n - (n - 1)) = n - 1
      BY <1>1
    <2> QED BY <1>1, <2>1 DEF Debt
  <1> HIDE DEF n
  <1>7. 2 * c[t] >= -(WeightScale * (n - 1)) /\ 2 * SumOf(c, others) >= -(WeightScale * (n - 1))
    BY <1>2, <1>4, <1>5, <1>6
  <1>8. 2 * c[t] <= WeightScale * (n - 1)
    BY <1>1, <1>3, <1>5, <1>6, <1>7
  <1> QED BY <1>7, <1>8 DEF n

----------------------------------------------------------------------------
(* The rotation: from some place on, the targets in their order.           *)

RotatesFrom(pool, r, s, cursor) ==
    /\ \A i \in 1 .. Len(r) : r[i] = StableOrder(pool)[((s + i - 1) % Cardinality(pool)) + 1]
    /\ cursor = (s + Len(r)) % Cardinality(pool)
Rotates(pool, r, cursor) == pool # {} /\ \E s \in Nat : RotatesFrom(pool, r, s, cursor)
AtCursor(pool, cursor) == StableOrder(pool)[(cursor % Cardinality(pool)) + 1]

LEMMA SizeIs == ASSUME NEW pool, pool \subseteq Targets, pool # {} PROVE Cardinality(pool) \in Nat \ {0}
  BY PoolIs, FS_EmptySet

LEMMA CursorIs ==
    ASSUME NEW pool, pool \subseteq Targets, pool # {}, NEW cursor \in Nat
    PROVE  AtCursor(pool, cursor) \in pool /\ (cursor + 1) % Cardinality(pool) \in 0 .. Cardinality(pool) - 1
  <1> DEFINE n == Cardinality(pool)
  <1>1. n \in Nat \ {0}
    BY SizeIs
  <1>2. \A i \in 1 .. n : StableOrder(pool)[i] \in pool
    BY OrderIs
  <1>3. AtCursor(pool, cursor) = StableOrder(pool)[(cursor % n) + 1]
    BY DEF AtCursor
  <1> HIDE DEF n
  <1>4. (cursor % n) + 1 \in 1 .. n /\ (cursor + 1) % n \in 0 .. n - 1
    BY <1>1, Divides
  <1> QED BY <1>2, <1>3, <1>4 DEF n

LEMMA RotationStarts ==
    ASSUME NEW pool, pool \subseteq Targets, pool # {}, NEW cursor \in Nat
    PROVE  Rotates(pool, <<AtCursor(pool, cursor)>>, (cursor + 1) % Cardinality(pool))
  <1> DEFINE r == <<AtCursor(pool, cursor)>>
  <1>1. Len(r) = 1 /\ r[1] = AtCursor(pool, cursor)
    OBVIOUS
  <1> HIDE DEF r
  <1>2. \A i \in 1 .. Len(r) : i = 1 /\ cursor + i - 1 = cursor
    BY <1>1
  <1>3. RotatesFrom(pool, r, cursor, (cursor + 1) % Cardinality(pool))
    BY <1>1, <1>2 DEF RotatesFrom, AtCursor
  <1> QED BY <1>3 DEF Rotates, r

LEMMA RotationGoesOn ==
    ASSUME NEW pool, pool \subseteq Targets, NEW r \in Seq(Targets), r # << >>, NEW cursor \in Nat,
           Rotates(pool, r, cursor)
    PROVE  /\ Rotates(pool, Append(r, AtCursor(pool, cursor)), (cursor + 1) % Cardinality(pool))
           /\ Rotates(pool, Append(Tail(r), AtCursor(pool, cursor)), (cursor + 1) % Cardinality(pool))
  <1> DEFINE n == Cardinality(pool)  L == Len(r)  t == AtCursor(pool, cursor)
             a == Append(r, t)  b == Append(Tail(r), t)  order == StableOrder(pool)
  <1>0. pool # {} /\ n \in Nat \ {0}
    BY SizeIs DEF Rotates
  <1>1. PICK s \in Nat : RotatesFrom(pool, r, s, cursor)
    BY DEF Rotates
  <1>2. L \in Nat \ {0} /\ (\A i \in 1 .. L : r[i] = order[((s + i - 1) % n) + 1]) /\ cursor = (s + L) % n
    BY <1>1 DEF RotatesFrom
  <1>3. /\ Len(a) = L + 1 /\ a[L + 1] = t /\ (\A i \in 1 .. L : a[i] = r[i])
        /\ Len(b) = L /\ b[L] = t /\ (\A i \in 1 .. L - 1 : b[i] = r[i + 1])
    <2>1. t \in Targets
      BY <1>0, CursorIs
    <2> HIDE DEF t
    <2>2. Tail(r) \in Seq(Targets) /\ Len(Tail(r)) = L - 1 /\ \A i \in 1 .. L - 1 : Tail(r)[i] = r[i + 1]
      OBVIOUS
    <2> QED BY <1>2, <2>1, <2>2
  <1>4. t = order[(cursor % n) + 1]
    BY DEF AtCursor
  <1> HIDE DEF n, L, t, a, b, order
  <1>5. cursor % n = cursor
    <2>1. s + L \in Nat
      BY <1>2
    <2>2. cursor \in 0 .. n - 1
      BY <1>0, <1>2, <2>1, Divides
    <2>3. PICK q \in Nat : \E v \in 0 .. n - 1 : cursor = n * q + v /\ cursor % n = v
      BY <1>0, Divided
    <2>4. PICK v \in 0 .. n - 1 : cursor = n * q + v /\ cursor % n = v
      BY <2>3
    <2>5. n * q + v = n * 0 + cursor
      BY <1>0, <2>4
    <2>6. v = cursor
      BY ONLY <1>0, <2>2, <2>5, q \in Nat, v \in 0 .. n - 1, OneRemainder
    <2> QED BY <2>4, <2>6
  <1>6. t = order[((s + L) % n) + 1]
    BY <1>2, <1>4, <1>5
  <1>7. (cursor + 1) % n = (s + L + 1) % n
    <2>1. s + L \in Nat
      BY <1>2
    <2>2. (((s + L) % n) + 1) % n = ((s + L) + 1) % n
      BY <1>0, <2>1, NextRemainder
    <2> QED BY <1>2, <2>2
  <1>8. RotatesFrom(pool, a, s, (cursor + 1) % n)
    <2>1. ASSUME NEW i \in 1 .. Len(a) PROVE a[i] = order[((s + i - 1) % n) + 1]
      <3>1. CASE i = L + 1
        <4>1. s + i - 1 = s + L
          BY <1>2, <3>1
        <4> QED BY <1>3, <1>6, <3>1, <4>1
      <3>2. CASE i \in 1 .. L
        BY <1>2, <1>3, <3>2
      <3> QED BY <1>2, <1>3, <3>1, <3>2
    <2>2. s + Len(a) = s + L + 1
      BY <1>2, <1>3
    <2> QED BY <1>7, <2>1, <2>2 DEF RotatesFrom, n, order
  <1>9. RotatesFrom(pool, b, s + 1, (cursor + 1) % n)
    <2>1. ASSUME NEW i \in 1 .. Len(b) PROVE b[i] = order[(((s + 1) + i - 1) % n) + 1]
      <3>1. CASE i = L
        <4>1. (s + 1) + i - 1 = s + L
          BY <1>2, <3>1
        <4> QED BY <1>3, <1>6, <3>1, <4>1
      <3>2. CASE i \in 1 .. L - 1
        <4>1. i + 1 \in 1 .. L /\ s + (i + 1) - 1 = (s + 1) + i - 1
          BY <1>2, <3>2
        <4>2. b[i] = r[i + 1]
          BY <1>3, <3>2
        <4>3. r[i + 1] = order[((s + (i + 1) - 1) % n) + 1]
          BY <1>2, <4>1
        <4> QED BY <4>1, <4>2, <4>3
      <3> QED BY <1>2, <1>3, <3>1, <3>2
    <2>2. (s + 1) + Len(b) = s + L + 1
      BY <1>2, <1>3
    <2> QED BY <1>7, <2>1, <2>2 DEF RotatesFrom, n, order
  <1>10. s + 1 \in Nat
    OBVIOUS
  <1>11. Rotates(pool, a, (cursor + 1) % n) /\ Rotates(pool, b, (cursor + 1) % n)
    BY <1>0, <1>8, <1>9, <1>10 DEF Rotates
  <1> QED BY <1>11 DEF a, b, t, n

(* Targets fewer steps apart than there are targets are different ones.    *)
LEMMA RotationTells ==
    ASSUME NEW pool, pool \subseteq Targets, NEW r \in Seq(Targets), NEW cursor, Rotates(pool, r, cursor)
    PROVE  \A i, j \in 1 .. Len(r) : i < j /\ j - i < Cardinality(pool) => r[i] # r[j]
  <1> DEFINE n == Cardinality(pool)
  <1>0. n \in Nat \ {0}
    BY SizeIs DEF Rotates
  <1>1. PICK s \in Nat : RotatesFrom(pool, r, s, cursor)
    BY DEF Rotates
  <1>2. \A i \in 1 .. Len(r) : r[i] = StableOrder(pool)[((s + i - 1) % n) + 1]
    BY <1>1 DEF RotatesFrom
  <1>3. \A i, j \in 1 .. n : i # j => StableOrder(pool)[i] # StableOrder(pool)[j]
    BY OrderIs
  <1> HIDE DEF n
  <1>4. ASSUME NEW i \in 1 .. Len(r), NEW j \in 1 .. Len(r), i < j, j - i < n PROVE r[i] # r[j]
    <2> DEFINE x == s + i - 1  y == s + j - 1  p == x % n  q == y % n
    <2>1. x \in Nat /\ y \in Nat /\ x < y /\ y - x < n
      BY <1>4
    <2>2. r[i] = StableOrder(pool)[p + 1] /\ r[j] = StableOrder(pool)[q + 1]
      BY <1>2
    <2> HIDE DEF x, y
    <2>3. p # q /\ p \in 0 .. n - 1 /\ q \in 0 .. n - 1
      BY <1>0, <2>1, OtherRemainder, Divides
    <2> HIDE DEF p, q
    <2>4. p + 1 \in 1 .. n /\ q + 1 \in 1 .. n /\ p + 1 # q + 1
      BY <1>0, <2>3
    <2> QED BY <1>3, <2>2, <2>4
  <1> QED BY <1>4 DEF n

----------------------------------------------------------------------------
(* What every policy answers.                                              *)

RouterTurns == [cursor : 0 .. Cardinality(Targets) - 1, credit : [Targets -> Int],
                sticky : [Keys -> Locals \cup {Nowhere}]]
TurnOK(tn) == tn \in RouterTurns /\ CreditsFair(tn.credit)

(* What the answer of a policy is: nobody only where nobody can be; the    *)
(* cursor moves under round robin alone; a pin that may be used is kept.   *)
Answers(said, policy, pool, key, tn) ==
    /\ TurnOK(said.turn)
    /\ IF said.target # Nowhere THEN said.target \in pool
       ELSE pool = {} \/ (policy = "cost_aware" /\ \A t \in pool : Cost[t] = Unpriced)
    /\ policy # "round_robin" => said.turn.cursor = tn.cursor
    /\ policy = "round_robin" /\ pool # {} => /\ said.target = AtCursor(pool, tn.cursor)
                                             /\ said.turn.cursor = (tn.cursor + 1) % Cardinality(pool)
    /\ policy = "cache_affinity" /\ tn.sticky[key] \in pool => said.target = tn.sticky[key]

LEMMA SaysIs ==
    ASSUME TurnOK(turn), NEW policy, policy \notin {"round_robin", "cache_affinity"}, NEW pool, pool \subseteq Targets,
           NEW t, NEW key,
           IF pool = {} THEN t = Nowhere ELSE t \in pool
    PROVE  Answers(Says(t), policy, pool, key, turn)
  <1>1. Says(t).target = t /\ Says(t).turn = turn
    BY DEF Says
  <1>2. pool # {} => t # Nowhere
    BY RoutingAssumption
  <1>3. IF t # Nowhere THEN t \in pool ELSE pool = {}
    BY <1>2
  <1>4. policy # "round_robin" /\ policy # "cache_affinity"
    OBVIOUS
  <1> QED BY <1>1, <1>3, <1>4 DEF Answers

LEMMA RoundRobinAnswers ==
    ASSUME TurnOK(turn), NEW pool, pool \subseteq Targets, NEW key
    PROVE  Answers(SelectRoundRobin(pool), "round_robin", pool, key, turn)
  <1>1. CASE pool = {}
    <2>1. SelectRoundRobin(pool) = [target |-> Nowhere, turn |-> turn]
      BY <1>1 DEF SelectRoundRobin, Says
    <2> QED BY <1>1, <2>1 DEF Answers
  <1>2. CASE pool # {}
    <2> DEFINE n == Cardinality(pool)
               next == [turn EXCEPT !.cursor = (turn.cursor + 1) % n]
    <2>1. SelectRoundRobin(pool) = [target |-> AtCursor(pool, turn.cursor), turn |-> next]
      <3>1. Len(StableOrder(pool)) = Cardinality(pool)
        BY OrderIs
      <3> QED BY <1>2, <3>1 DEF SelectRoundRobin, AtCursor
    <2>2. turn \in RouterTurns /\ CreditsFair(turn.credit) /\ turn.cursor \in Nat
      BY TargetsAre DEF TurnOK, RouterTurns
    <2>3. AtCursor(pool, turn.cursor) \in pool /\ (turn.cursor + 1) % n \in 0 .. Cardinality(Targets) - 1
      <3>1. n \in Nat /\ n <= Cardinality(Targets) /\ Cardinality(Targets) \in Nat
        BY PoolIs, TargetsAre
      <3>2. AtCursor(pool, turn.cursor) \in pool /\ (turn.cursor + 1) % n \in 0 .. n - 1
        BY <1>2, <2>2, CursorIs
      <3> HIDE DEF n
      <3> QED BY <3>1, <3>2
    <2> HIDE DEF n
    <2>4. next \in RouterTurns /\ next.cursor = (turn.cursor + 1) % n /\ next.credit = turn.credit
      BY <2>2, <2>3 DEF RouterTurns
    <2> HIDE DEF next
    <2>5. AtCursor(pool, turn.cursor) # Nowhere
      BY <2>3, RoutingAssumption
    <2> QED BY <2>1, <2>2, <2>3, <2>4, <2>5, <1>2 DEF Answers, TurnOK, n
  <1> QED BY <1>1, <1>2

LEMMA WeightedAnswers ==
    ASSUME TurnOK(turn), Shared(shares), busy \in [Targets -> Int], NEW pool, pool \subseteq Targets, NEW key
    PROVE  Answers(SelectWeightedCapacity(pool), "weighted_capacity", pool, key, turn)
  <1> DEFINE W == {t \in pool : Weight(t) > 0}
  <1>1. W \subseteq pool /\ W \subseteq Targets /\ W \subseteq DOMAIN shares
    BY DEF Weight
  <1>2. CASE W = {}
    <2>1. SelectWeightedCapacity(pool) = Says(LeastOutstanding(pool))
      BY <1>2 DEF SelectWeightedCapacity
    <2>2. IF pool = {} THEN LeastOutstanding(pool) = Nowhere ELSE LeastOutstanding(pool) \in pool
      BY LeastOutstandingIs
    <2>3. "weighted_capacity" \notin {"round_robin", "cache_affinity"}
      OBVIOUS
    <2> HIDE DEF W
    <2> QED BY <2>1, <2>2, <2>3, SaysIs
  <1>3. CASE W # {}
    <2> DEFINE w == [t \in Targets |-> IF t \in W THEN Weight(t) ELSE 0]
               r == Raised(W)  best == MostCredit(W)
               d == [r EXCEPT ![best] = r[best] - Round(W)]
               next == [turn EXCEPT !.credit = d]
    <2>1. SelectWeightedCapacity(pool) = [target |-> best, turn |-> next]
      BY <1>3 DEF SelectWeightedCapacity
    <2>2. turn \in RouterTurns /\ CreditsFair(turn.credit) /\ turn.credit \in [Targets -> Int]
      BY DEF TurnOK, RouterTurns
    <2>3. \A t \in W : Weight(t) = shares[t] /\ Weight(t) \in Nat
      BY <1>1 DEF Weight, Shared
    <2>4. Round(W) = SumOf(shares, W)
      BY DEF Round, SumOf
    <2> HIDE DEF W
    <2>5. w \in [Targets -> Nat] /\ (\A t \in Targets \ W : w[t] = 0) /\ \A t \in W : w[t] = shares[t]
      BY <1>1, <2>3
    <2>6. r = [t \in Targets |-> turn.credit[t] + w[t]]
      BY DEF Raised
    <2> HIDE DEF w, r
    <2>7. r \in [Targets -> Int] /\ \A t \in Targets : r[t] = turn.credit[t] + w[t]
      BY <2>2, <2>5, <2>6
    <2>8. best \in W /\ \A u \in W : r[u] <= r[best]
      BY <1>1, <1>3, <2>7, MostCreditIs DEF r
    <2> HIDE DEF best
    <2>9. SumOf(w, W) = SumOf(shares, W) /\ SumOf(w, W) <= WeightScale /\ SumOf(w, W) \in Int
      <3>1. Summable(w, W)
        BY <1>1, <2>5, PoolIs DEF Summable
      <3>2. SumOf(w, W) = SumOf(shares, W) /\ SumOf(w, W) \in Int
        <4>1. \A t \in W : w[t] = shares[t]
          BY <2>5
        <4>2. SumOf(w, W) = SumOf(shares, W)
          BY ONLY <3>1, <4>1, SumSame
        <4> QED BY <3>1, <4>2, SumOne
      <3> DEFINE rest == DOMAIN shares \ W
      <3>3. (\A t \in DOMAIN shares : shares[t] \in Nat) /\ SumOf(shares, DOMAIN shares) <= WeightScale
            /\ DOMAIN shares \subseteq Targets
        BY DEF Shared
      <3>4. Summable(shares, W) /\ Summable(shares, rest) /\ SumOf(shares, rest) \in Nat
        <4>1. IsFiniteSet(W) /\ IsFiniteSet(rest) /\ (\A t \in W : shares[t] \in Nat) /\ \A t \in rest : shares[t] \in Nat
          BY <1>1, <3>3, PoolIs
        <4> HIDE DEF rest
        <4> QED BY <4>1, NaturalSum
      <3>5. W \cup rest = DOMAIN shares /\ W \cap rest = {}
        BY <1>1
      <3> HIDE DEF rest
      <3>6. SumOf(shares, DOMAIN shares) = SumOf(shares, W) + SumOf(shares, rest)
        BY <3>4, <3>5, SumBoth
      <3>7. WeightScale \in Nat
        BY RoutingAssumption
      <3> QED BY <3>2, <3>3, <3>4, <3>6, <3>7
    <2>10. /\ d \in [Targets -> Int] /\ (\A t \in Targets \ {best} : d[t] = r[t])
           /\ d[best] = r[best] - SumOf(w, W)
      <3>1. Round(W) = SumOf(w, W) /\ best \in Targets
        BY <1>1, <2>4, <2>8, <2>9
      <3> QED BY <3>1, <2>7, <2>9
    <2> HIDE DEF d
    <2>11. CreditsFair(d)
      <3>1. /\ \A u \in W : turn.credit[u] + w[u] <= turn.credit[best] + w[best]
            /\ \A t \in Targets \ {best} : d[t] = turn.credit[t] + w[t]
            /\ d[best] = (turn.credit[best] + w[best]) - SumOf(w, W)
        BY <1>1, <2>7, <2>8, <2>10
      <3> DEFINE c == turn.credit
      <3>2. /\ CreditsFair(c) /\ \A u \in W : c[u] + w[u] <= c[best] + w[best]
            /\ \A t \in Targets \ {best} : d[t] = c[t] + w[t]
            /\ d[best] = (c[best] + w[best]) - SumOf(w, W)
        BY <2>2, <3>1
      <3> HIDE DEF c
      <3> QED BY <1>1, <2>5, <2>8, <2>9, <2>10, <3>2, RoundFair
    <2>12. next \in RouterTurns /\ next.cursor = turn.cursor /\ next.credit = d
      BY <2>2, <2>10 DEF RouterTurns
    <2> HIDE DEF next
    <2>13. best \in pool /\ best # Nowhere
      BY <1>1, <2>8, RoutingAssumption
    <2> QED BY <2>1, <2>11, <2>12, <2>13 DEF Answers, TurnOK
  <1> QED BY <1>2, <1>3

LEMMA CacheAnswers ==
    ASSUME TurnOK(turn), busy \in [Targets -> Int], NEW offered, offered \subseteq Targets,
           NEW pool, pool \subseteq offered, NEW key \in Keys
    PROVE  Answers(SelectCacheAffinity(offered, pool, key), "cache_affinity", pool, key, turn)
  <1> DEFINE near == offered \cap Locals
             locals == StableOrder(near)
             pinned == turn.sticky[key]
             home == locals[(Home[key] % Len(locals)) + 1]
             said == SelectCacheAffinity(offered, pool, key)
  <1>1. near \subseteq Targets /\ pool \subseteq Targets /\ Nowhere \notin Targets
    BY RoutingAssumption
  <1>2. turn \in RouterTurns /\ CreditsFair(turn.credit) /\ pinned \in Locals \cup {Nowhere}
    BY DEF TurnOK, RouterTurns
  <1>3. Len(locals) = Cardinality(near) /\ Len(locals) \in Nat /\ (near = {} <=> locals = <<>>)
    <2>1. locals \in Seq(near) /\ Len(locals) = Cardinality(near)
      BY <1>1, OrderIs
    <2>2. IsFiniteSet(near) /\ Cardinality(near) \in Nat
      BY <1>1, PoolIs
    <2>3. near = {} <=> Cardinality(near) = 0
      BY <2>2, FS_EmptySet
    <2> HIDE DEF near, locals
    <2> QED BY <2>1, <2>2, <2>3
  <1>4. near # {} => home \in near
    <2> SUFFICES ASSUME near # {} PROVE home \in near
      OBVIOUS
    <2>1. Home[key] \in Nat /\ Len(locals) \in Nat \ {0}
      <3>1. Cardinality(near) # 0
        BY <1>1, PoolIs, FS_EmptySet
      <3> HIDE DEF near, locals
      <3> QED BY <1>3, <3>1, RoutingAssumption
    <2>2. (Home[key] % Len(locals)) + 1 \in 1 .. Cardinality(near)
      <3> HIDE DEF near, locals
      <3>1. Home[key] % Len(locals) \in 0 .. Len(locals) - 1
        BY <2>1, Divides
      <3> QED BY <1>3, <2>1, <3>1
    <2>3. \A i \in 1 .. Cardinality(near) : locals[i] \in near
      BY <1>1, OrderIs
    <2> HIDE DEF near, locals
    <2> QED BY <2>2, <2>3
  <1>5. IF pool = {} THEN LeastOutstanding(pool) = Nowhere ELSE LeastOutstanding(pool) \in pool
    BY <1>1, LeastOutstandingIs
  <1>6. said = IF locals = <<>> THEN Says(LeastOutstanding(pool))
               ELSE IF pinned \in offered \cap pool THEN Says(pinned)
               ELSE IF home \notin pool THEN Says(LeastOutstanding(pool))
               ELSE [target |-> home, turn |-> [turn EXCEPT !.sticky[key] = home]]
    BY DEF SelectCacheAffinity
  <1>7. \A t : Says(t).target = t /\ Says(t).turn = turn
    BY DEF Says
  <1>8. near = {} => pinned \notin pool
    BY <1>1, <1>2
  <1> HIDE DEF near, locals, home, said
  <1> DEFINE p == "cache_affinity"
  <1>9. CASE pinned \notin pool /\ said = Says(LeastOutstanding(pool))
    <2>1. said.target = LeastOutstanding(pool) /\ said.turn = turn
      BY <1>7, <1>9
    <2>2. IF said.target # Nowhere THEN said.target \in pool ELSE pool = {}
      BY <1>1, <1>5, <2>1
    <2>3. Answers(said, p, pool, key, turn)
      BY <1>9, <2>1, <2>2 DEF Answers
    <2> QED BY <2>3 DEF said
  <1>10. CASE pinned \in pool /\ said = Says(pinned)
    <2>1. said.target = pinned /\ said.turn = turn /\ pinned # Nowhere
      BY <1>1, <1>7, <1>10
    <2>2. Answers(said, p, pool, key, turn)
      BY <1>10, <2>1 DEF Answers
    <2> QED BY <2>2 DEF said
  <1>11. CASE pinned \notin pool /\ near # {} /\ home \in pool
              /\ said = [target |-> home, turn |-> [turn EXCEPT !.sticky[key] = home]]
    <2> DEFINE next == [turn EXCEPT !.sticky[key] = home]
    <2>1. home \in Locals /\ home # Nowhere
      BY <1>1, <1>4, <1>11 DEF near
    <2>2. next \in RouterTurns /\ next.cursor = turn.cursor /\ next.credit = turn.credit
      BY <1>2, <2>1 DEF RouterTurns
    <2>3. said.target = home /\ said.turn = next
      BY <1>11
    <2> HIDE DEF next
    <2>4. Answers(said, p, pool, key, turn)
      BY <1>2, <1>11, <2>1, <2>2, <2>3 DEF Answers, TurnOK
    <2> QED BY <2>4 DEF said
  <1>12. pinned \in pool => near # {} /\ pinned \in offered \cap pool
    BY <1>8
  <1> QED BY <1>3, <1>6, <1>9, <1>10, <1>11, <1>12

LEMMA FailoverAnswers ==
    ASSUME TurnOK(turn), NEW pool, pool \subseteq Targets, NEW key
    PROVE  Answers(SelectFailover(pool), "failover", pool, key, turn)
  <1> DEFINE t == IF pool = {} THEN Nowhere ELSE StableOrder(pool)[1]
  <1>1. IF pool = {} THEN t = Nowhere ELSE t \in pool
    <2>1. pool # {} => 1 \in 1 .. Cardinality(pool)
      BY SizeIs
    <2> QED BY <2>1, OrderIs
  <1>2. "failover" \notin {"round_robin", "cache_affinity"}
    OBVIOUS
  <1>3. SelectFailover(pool) = Says(t)
    BY DEF SelectFailover
  <1> HIDE DEF t
  <1> QED BY <1>1, <1>2, <1>3, SaysIs

LEMMA LocalFirstAnswers ==
    ASSUME TurnOK(turn), busy \in [Targets -> Int], NEW pool, pool \subseteq Targets, NEW key
    PROVE  Answers(SelectLocalFirst(pool), "local_first", pool, key, turn)
  <1> DEFINE free == {t \in pool \cap Locals : ~Saturated(t)}
             remote == pool \cap Remotes
             least == LeastOutstanding(free)
             cheapest == CHOOSE t \in remote : \A u \in remote \ {t} : CheaperOf(Priority, busy, t, u)
             t == IF free # {} THEN least ELSE IF remote # {} THEN cheapest ELSE LeastOutstanding(pool)
  <1>1. free \subseteq pool /\ remote \subseteq pool /\ free \subseteq Targets /\ remote \subseteq Targets
    OBVIOUS
  <1>2. SelectLocalFirst(pool) = Says(t)
    BY DEF SelectLocalFirst, First, CheaperOf
  <1>3. free # {} => least \in free
    BY <1>1, LeastOutstandingIs
  <1>4. remote # {} => cheapest \in remote
    <2>1. \A u \in remote : Priority[u] \in Int
      BY RoutingAssumption
    <2> HIDE DEF remote
    <2>2. remote # {} => \E u \in remote : \A v \in remote \ {u} : CheaperOf(Priority, busy, u, v)
      BY <1>1, <2>1, CheapestIs
    <2> QED BY <2>2
  <1>5. IF pool = {} THEN LeastOutstanding(pool) = Nowhere ELSE LeastOutstanding(pool) \in pool
    BY LeastOutstandingIs
  <1> HIDE DEF free, remote, least, cheapest
  <1>6. IF pool = {} THEN t = Nowhere ELSE t \in pool
    BY <1>1, <1>3, <1>4, <1>5
  <1>7. "local_first" \notin {"round_robin", "cache_affinity"}
    OBVIOUS
  <1> HIDE DEF t
  <1> QED BY <1>2, <1>6, <1>7, SaysIs

LEMMA CostAwareAnswers ==
    ASSUME TurnOK(turn), busy \in [Targets -> Int], NEW pool, pool \subseteq Targets, NEW key
    PROVE  Answers(SelectCostAware(pool), "cost_aware", pool, key, turn)
  <1> DEFINE priced == {t \in pool : Cost[t] # Unpriced}
             said == SelectCostAware(pool)
             cheapest == CHOOSE t \in priced : \A u \in priced \ {t} : CheaperOf(Cost, busy, t, u)
             t == IF priced = {} THEN Nowhere ELSE cheapest
  <1>1. said = Says(t)
    BY DEF SelectCostAware, First, CheaperOf
  <1>2. priced \subseteq pool /\ \A u \in priced : Cost[u] \in Int
    BY RoutingAssumption
  <1>3. priced = {} => \A u \in pool : Cost[u] = Unpriced
    OBVIOUS
  <1> HIDE DEF priced, said
  <1>4. priced # {} => cheapest \in priced
    <2>1. priced # {} => \E u \in priced : \A v \in priced \ {u} : CheaperOf(Cost, busy, u, v)
      BY <1>2, CheapestIs
    <2> QED BY <2>1
  <1> HIDE DEF cheapest
  <1>5. IF t # Nowhere THEN t \in pool ELSE \A u \in pool : Cost[u] = Unpriced
    BY <1>2, <1>3, <1>4, RoutingAssumption
  <1> HIDE DEF t
  <1>6. said.target = t /\ said.turn = turn
    BY <1>1 DEF Says
  <1>7. Answers(said, "cost_aware", pool, key, turn)
    BY <1>5, <1>6 DEF Answers
  <1> QED BY <1>7 DEF said

LEMMA SelectedAnswers ==
    ASSUME TurnOK(turn), Shared(shares), busy \in [Targets -> Int], NEW policy \in Policies,
           NEW offered, offered \subseteq Targets, NEW key \in Keys
    PROVE  Answers(Selected(policy, offered, key), policy, {t \in offered : Eligible(t)}, key, turn)
  <1> DEFINE pool == {t \in offered : Eligible(t)}
  <1>1. pool \subseteq offered /\ pool \subseteq Targets
    OBVIOUS
  <1>s. Selected(policy, offered, key) =
          CASE policy = "least_outstanding" -> SelectLeastOutstanding(pool)
            [] policy = "round_robin"       -> SelectRoundRobin(pool)
            [] policy = "weighted_capacity" -> SelectWeightedCapacity(pool)
            [] policy = "cache_affinity"    -> SelectCacheAffinity(offered, pool, key)
            [] policy = "failover"          -> SelectFailover(pool)
            [] policy = "local_first"       -> SelectLocalFirst(pool)
            [] policy = "cost_aware"        -> SelectCostAware(pool)
    BY DEF Selected
  <1> HIDE DEF pool
  <1> SUFFICES Answers(Selected(policy, offered, key), policy, pool, key, turn)
    BY DEF pool
  <1>2. CASE policy = "least_outstanding"
    <2>1. Selected(policy, offered, key) = SelectLeastOutstanding(pool)
      BY <1>s, <1>2
    <2>2. SelectLeastOutstanding(pool) = Says(LeastOutstanding(pool))
      BY DEF SelectLeastOutstanding
    <2>3. IF pool = {} THEN LeastOutstanding(pool) = Nowhere ELSE LeastOutstanding(pool) \in pool
      BY <1>1, LeastOutstandingIs
    <2>4. policy \notin {"round_robin", "cache_affinity"}
      BY <1>2
    <2> QED BY <1>1, <2>1, <2>2, <2>3, <2>4, SaysIs
  <1>3. CASE policy = "round_robin"
    <2>1. Selected(policy, offered, key) = SelectRoundRobin(pool)
      BY <1>s, <1>3
    <2> QED BY <1>1, <1>3, <2>1, RoundRobinAnswers
  <1>4. CASE policy = "weighted_capacity"
    <2>1. Selected(policy, offered, key) = SelectWeightedCapacity(pool)
      BY <1>s, <1>4
    <2> QED BY <1>1, <1>4, <2>1, WeightedAnswers
  <1>5. CASE policy = "cache_affinity"
    <2>1. Selected(policy, offered, key) = SelectCacheAffinity(offered, pool, key)
      BY <1>s, <1>5
    <2> QED BY <1>1, <1>5, <2>1, CacheAnswers
  <1>6. CASE policy = "failover"
    <2>1. Selected(policy, offered, key) = SelectFailover(pool)
      BY <1>s, <1>6
    <2> QED BY <1>1, <1>6, <2>1, FailoverAnswers
  <1>7. CASE policy = "local_first"
    <2>1. Selected(policy, offered, key) = SelectLocalFirst(pool)
      BY <1>s, <1>7
    <2> QED BY <1>1, <1>7, <2>1, LocalFirstAnswers
  <1>8. CASE policy = "cost_aware"
    <2>1. Selected(policy, offered, key) = SelectCostAware(pool)
      BY <1>s, <1>8
    <2> QED BY <1>1, <1>8, <2>1, CostAwareAnswers
  <1> QED BY <1>2, <1>3, <1>4, <1>5, <1>6, <1>7, <1>8 DEF Policies

----------------------------------------------------------------------------
(* The invariant, one part for each part of the state, and each part kept  *)
(* by each step.                                                           *)

WorldOK ==
    /\ standing \in [Targets -> {"absent", "pending", "stopping", "serving"}]
    /\ measured \in [Targets -> Nat]
    /\ blocks \in [Targets -> SUBSET {"memory", "draining"}]
    /\ busy \in [Targets -> 0 .. MaxBusy]
    /\ override \in Policies \cup {Automatic}
IndexOK == DOMAIN raws = Listed /\ Shared(shares) /\ AllScored

Picks == [policy : Policies \cup {Automatic}, key : Keys \cup {Nowhere}, target : Targets \cup {Nowhere},
          pool : SUBSET Targets, rotation : Seq(Targets)]
Picked(p) ==
    p.policy # Automatic =>
        IF p.target # Nowhere THEN p.target \in p.pool
        ELSE p.pool = {} \/ (p.policy = "cost_aware" /\ \A t \in p.pool : Cost[t] = Unpriced)
InTurn(p, cursor) ==
    p.rotation # << >> => p.policy = "round_robin" /\ Rotates(p.pool, p.rotation, cursor)
ChoiceOK(p, cursor) == p \in Picks /\ Picked(p) /\ InTurn(p, cursor)

RoutingInv == WorldOK /\ IndexOK /\ TurnOK(turn) /\ ChoiceOK(pick, turn.cursor)

LEMMA NewTurnOK == TurnOK(NewTurn) /\ NewTurn.cursor = 0
  <1> DEFINE none == [t \in Targets |-> 0]  pins == [k \in Keys |-> Nowhere]
  <1>1. CreditsFair(none)
    BY NothingFair
  <1>2. none \in [Targets -> Int] /\ pins \in [Keys -> Locals \cup {Nowhere}]
    OBVIOUS
  <1>3. NewTurn = [cursor |-> 0, credit |-> none, sticky |-> pins]
    BY DEF NewTurn
  <1>4. 0 \in 0 .. Cardinality(Targets) - 1
    BY TargetsAre
  <1> HIDE DEF none, pins
  <1>5. NewTurn \in RouterTurns /\ NewTurn.cursor = 0 /\ NewTurn.credit = none
    BY <1>2, <1>3, <1>4 DEF RouterTurns
  <1> QED BY <1>1, <1>5 DEF TurnOK

LEMMA StrengthIs ==
    ASSUME WorldOK, NEW t \in Targets, NEW nodesRead
    PROVE  /\ t \in Locals => LocalStrength(t, nodesRead) \in Nat
           /\ t \notin Locals => RemoteStrength(t) \in Nat
  <1>1. measured[t] \in Nat
    BY DEF WorldOK
  <1> QED BY <1>1, RoutingAssumption DEF LocalStrength, RemoteStrength, Targets

LEMMA RoutingStarts == ASSUME RoutingInit PROVE RoutingInv
  <1>1. WorldOK
    BY RoutingAssumption DEF RoutingInit, WorldOK
  <1>2. raws = [t \in Targets |-> IF t \in Locals THEN LocalStrength(t, TRUE) ELSE RemoteStrength(t)]
        /\ shares = ComputeWeights(Targets, GroupRaw(Targets, raws)) /\ Listed = Targets
    BY DEF RoutingInit, Listed
  <1>3. \A t \in Targets : raws[t] \in Nat
    BY <1>1, <1>2, StrengthIs
  <1>4. \A t \in Targets : GroupRaw(Targets, raws)[t] \in Nat
    BY <1>3, GroupRawIs
  <1>5. Shared(shares) /\ DOMAIN shares = Targets
    BY <1>2, <1>4, ComputedShared
  <1>6. IndexOK
    BY <1>2, <1>5 DEF IndexOK, AllScored
  <1>7. TurnOK(turn)
    BY NewTurnOK DEF RoutingInit
  <1>8. ChoiceOK(pick, turn.cursor)
    BY DEF RoutingInit, ChoiceOK, Picks, Picked, InTurn
  <1> QED BY <1>1, <1>6, <1>7, <1>8 DEF RoutingInv

LEMMA RebuildKeeps ==
    ASSUME RoutingInv, NEW due, NEW d, NEW p, NEW n, Rebuild(due, d, p, n)
    PROVE  RoutingInv'
  <1> DEFINE seen == [t \in Targets |-> Seen(t, d, p)]
             group == {t \in Targets : seen[t] # "no"}
             strength == [t \in group |-> IF t \in Locals THEN LocalStrength(t, n) ELSE RemoteStrength(t)]
             fresh == ComputeWeights(group, GroupRaw(group, strength))
  <1>1. /\ listed' = seen /\ raws' = strength
        /\ shares' = IF PolicyScored(due, group) THEN fresh ELSE shares
        /\ UNCHANGED <<standing, measured, pressured, blocks, busy, override, turn, pick>>
    BY DEF Rebuild
  <1>2. group \subseteq Targets /\ \A t \in group : strength[t] \in Nat
    BY StrengthIs DEF RoutingInv
  <1>3. Listed' = group /\ DOMAIN strength = group
    BY <1>1 DEF Listed
  <1>4. DOMAIN raws' = group
    BY <1>1, <1>3
  <1> HIDE DEF seen, group, strength
  <1>5. \A t \in group : GroupRaw(group, strength)[t] \in Nat
    BY <1>2, GroupRawIs
  <1>6. Shared(fresh) /\ DOMAIN fresh = group
    BY <1>2, <1>5, ComputedShared
  <1> HIDE DEF fresh
  <1>7. Shared(shares') /\ Listed' \subseteq DOMAIN shares'
    <2>1. CASE PolicyScored(due, group)
      BY <1>1, <1>3, <1>6, <2>1
    <2>2. CASE ~PolicyScored(due, group)
      BY <1>1, <1>3, <2>2 DEF PolicyScored, RoutingInv, IndexOK
    <2> QED BY <2>1, <2>2
  <1>8. IndexOK'
    BY <1>3, <1>4, <1>7 DEF IndexOK, AllScored, Shared
  <1>9. WorldOK'
    BY <1>1 DEF RoutingInv, WorldOK
  <1>10. TurnOK(turn') /\ ChoiceOK(pick', turn'.cursor)
    BY <1>1 DEF RoutingInv
  <1> QED BY <1>8, <1>9, <1>10 DEF RoutingInv

(* The steps that leave the turn and the pick alone.                       *)
LEMMA BystandersKeep ==
    ASSUME RoutingInv, WorldOK', UNCHANGED <<indexed, turn, pick>>
    PROVE  RoutingInv'
  <1>1. IndexOK'
    BY DEF RoutingInv, IndexOK, AllScored, Listed, Shared, indexed
  <1>2. TurnOK(turn') /\ ChoiceOK(pick', turn'.cursor)
    BY DEF RoutingInv
  <1> QED BY <1>1, <1>2 DEF RoutingInv

LEMMA PolicyIs == ASSUME WorldOK, NEW group PROVE PolicyFor(group) \in Policies
  BY DEF WorldOK, PolicyFor, AutoPolicy, Policies

LEMMA RouteKeeps ==
    ASSUME RoutingInv, NEW key \in Keys, NEW retry \in BOOLEAN, Route(key, retry)
    PROVE  /\ RoutingInv'
           /\ pick'.policy = "cache_affinity" /\ turn.sticky[pick'.key] \in pick'.pool
                => pick'.target = turn.sticky[pick'.key]
  <1> DEFINE tried == IF retry THEN {pick.target} ELSE {}
             offered == Listed \ tried
             policy == PolicyFor(Listed)
             said == Selected(policy, offered, key)
             pool == {t \in offered : Eligible(t)}
             rotation == IF policy # "round_robin" \/ said.target = Nowhere THEN << >>
                         ELSE IF retry \/ pick.rotation = << >> \/ pick.pool # pool
                              THEN <<said.target>>
                         ELSE IF Len(pick.rotation) < Cardinality(Targets)
                              THEN Append(pick.rotation, said.target)
                              ELSE Append(Tail(pick.rotation), said.target)
             cursor == said.turn.cursor
  <1>1. /\ said.target # Nowhere => busy[said.target] < MaxBusy
        /\ turn' = said.turn
        /\ busy' = [t \in Targets |-> busy[t] + (IF t = said.target THEN 1 ELSE 0)]
        /\ pick' = [policy |-> policy, key |-> key, target |-> said.target, pool |-> pool, rotation |-> rotation]
        /\ UNCHANGED <<standing, measured, pressured, opened, blocks, listed, raws, shares, override>>
    BY DEF Route, live, indexed
  <1>2. offered \subseteq Targets /\ pool \subseteq Targets
    BY DEF Listed
  <1>3. policy \in Policies
    BY PolicyIs DEF RoutingInv
  <1>4. TurnOK(turn) /\ Shared(shares) /\ busy \in [Targets -> 0 .. MaxBusy]
    BY DEF RoutingInv, IndexOK, WorldOK
  <1>5. Answers(said, policy, pool, key, turn)
    <2>1. busy \in [Targets -> Int]
      BY <1>4
    <2> HIDE DEF policy, offered
    <2> QED BY <1>2, <1>3, <1>4, <2>1, SelectedAnswers
  <1>6. TurnOK(said.turn) /\ said.target \in pool \cup {Nowhere} /\ Nowhere \notin Targets
    BY <1>5, RoutingAssumption DEF Answers
  <1>7. turn.cursor \in Nat
    BY <1>4, TargetsAre DEF TurnOK, RouterTurns
  <1>8. pick \in Picks /\ InTurn(pick, turn.cursor)
    BY DEF RoutingInv, ChoiceOK
  <1>9. pick.rotation \in Seq(Targets)
    BY <1>8 DEF Picks
  <1>10. rotation \in Seq(Targets) /\ (rotation # << >> => policy = "round_robin" /\ Rotates(pool, rotation, cursor))
    <2>1. CASE policy # "round_robin" \/ said.target = Nowhere
      BY <2>1
    <2>2. CASE policy = "round_robin" /\ said.target # Nowhere
      <3> DEFINE at == AtCursor(pool, turn.cursor)
      <3>1. said.target \in pool /\ pool # {} /\ said.target \in Targets
        BY <1>2, <1>6, <2>2
      <3>2. said.target = at /\ cursor = (turn.cursor + 1) % Cardinality(pool)
        BY <1>5, <2>2, <3>1 DEF Answers
      <3>3. CASE retry \/ pick.rotation = << >> \/ pick.pool # pool
        <4>1. rotation = <<at>>
          BY <2>2, <3>2, <3>3
        <4>2. Rotates(pool, <<at>>, cursor)
          BY <1>2, <1>7, <3>1, <3>2, RotationStarts
        <4>3. <<at>> \in Seq(Targets)
          BY <3>1, <3>2
        <4> QED BY <2>2, <4>1, <4>2, <4>3
      <3>4. CASE ~retry /\ pick.rotation # << >> /\ pick.pool = pool
        <4>1. Rotates(pool, pick.rotation, turn.cursor)
          BY <1>8, <3>4 DEF InTurn
        <4>2. Rotates(pool, Append(pick.rotation, at), cursor) /\ Rotates(pool, Append(Tail(pick.rotation), at), cursor)
          BY <1>2, <1>7, <1>9, <3>2, <3>4, <4>1, RotationGoesOn
        <4>3. rotation = Append(pick.rotation, at) \/ rotation = Append(Tail(pick.rotation), at)
          BY <2>2, <3>2, <3>4
        <4>4. Append(pick.rotation, at) \in Seq(Targets) /\ Append(Tail(pick.rotation), at) \in Seq(Targets)
          BY <1>9, <3>1, <3>2, <3>4
        <4> HIDE DEF rotation
        <4> QED BY <2>2, <4>2, <4>3, <4>4
      <3> QED BY <3>3, <3>4
    <2> QED BY <2>1, <2>2
  <1>11. WorldOK'
    <2>1. busy' \in [Targets -> 0 .. MaxBusy]
      BY <1>1, <1>4, RoutingAssumption
    <2> QED BY <1>1, <2>1 DEF WorldOK, RoutingInv
  <1>12. IndexOK'
    BY <1>1 DEF RoutingInv, IndexOK, AllScored, Listed, Shared
  <1>13. /\ said.target # Nowhere => said.target \in pool
         /\ said.target = Nowhere => pool = {} \/ (policy = "cost_aware" /\ \A t \in pool : Cost[t] = Unpriced)
         /\ policy = "cache_affinity" /\ turn.sticky[key] \in pool => said.target = turn.sticky[key]
    BY <1>5 DEF Answers
  <1> HIDE DEF rotation, pool, said, policy, offered, cursor
  <1>14. /\ pick'.policy = policy /\ pick'.key = key /\ pick'.target = said.target
         /\ pick'.pool = pool /\ pick'.rotation = rotation
    BY <1>1
  <1>15. pick' \in Picks
    BY <1>1, <1>2, <1>3, <1>6, <1>10 DEF Picks
  <1>16. Picked(pick') /\ InTurn(pick', cursor)
    BY <1>10, <1>13, <1>14 DEF Picked, InTurn
  <1>17. ChoiceOK(pick', turn'.cursor) /\ TurnOK(turn')
    BY <1>1, <1>6, <1>15, <1>16 DEF ChoiceOK, cursor
  <1>18. RoutingInv'
    BY <1>11, <1>12, <1>17 DEF RoutingInv
  <1> QED BY <1>13, <1>14, <1>18

LEMMA SetPolicyKeeps == ASSUME RoutingInv, NEW p \in Policies, SetPolicy(p) PROVE RoutingInv'
  <1>1. /\ override' = p /\ turn' = NewTurn /\ pick' = [pick EXCEPT !.rotation = << >>]
        /\ UNCHANGED <<standing, measured, pressured, opened, blocks, busy, listed, raws, shares>>
    BY DEF SetPolicy, live, indexed
  <1>2. WorldOK' /\ IndexOK'
    BY <1>1 DEF RoutingInv, WorldOK, IndexOK, AllScored, Listed, Shared
  <1>3. pick \in Picks /\ Picked(pick)
    BY DEF RoutingInv, ChoiceOK
  <1>4. pick' \in Picks
    <2> DEFINE none == << >>
    <2>1. none \in Seq(Targets)
      OBVIOUS
    <2>2. pick' = [pick EXCEPT !.rotation = none]
      BY <1>1
    <2> HIDE DEF none
    <2> QED BY <1>3, <2>1, <2>2 DEF Picks
  <1>5. pick'.rotation = << >> /\ pick'.policy = pick.policy /\ pick'.target = pick.target /\ pick'.pool = pick.pool
    BY <1>1, <1>3 DEF Picks
  <1>6. Picked(pick') /\ InTurn(pick', turn'.cursor)
    BY <1>3, <1>5 DEF Picked, InTurn
  <1>7. TurnOK(turn')
    BY <1>1, NewTurnOK
  <1>8. ChoiceOK(pick', turn'.cursor)
    BY <1>4, <1>6 DEF ChoiceOK
  <1>9. RoutingInv'
    BY <1>2, <1>7, <1>8 DEF RoutingInv
  <1> QED BY <1>9

LEMMA PinExpiryKeeps == ASSUME RoutingInv, NEW k \in Keys, PinExpires(k) PROVE RoutingInv'
  <1>1. /\ turn' = [turn EXCEPT !.sticky[k] = Nowhere]
        /\ UNCHANGED <<standing, measured, pressured, opened, blocks, busy, listed, raws, shares, override, pick>>
    BY DEF PinExpires, live, indexed
  <1>2. WorldOK' /\ IndexOK'
    BY <1>1 DEF RoutingInv, WorldOK, IndexOK, AllScored, Listed, Shared
  <1>3. turn \in RouterTurns /\ CreditsFair(turn.credit)
    BY DEF RoutingInv, TurnOK
  <1>4. turn' \in RouterTurns /\ turn'.cursor = turn.cursor /\ turn'.credit = turn.credit
    BY <1>1, <1>3 DEF RouterTurns
  <1>5. TurnOK(turn') /\ ChoiceOK(pick', turn'.cursor)
    BY <1>1, <1>3, <1>4 DEF TurnOK, RoutingInv
  <1> QED BY <1>2, <1>5 DEF RoutingInv

LEMMA AroundKeeps == ASSUME RoutingInv, RoutingWorld PROVE RoutingInv'
  <1> USE DEF live, indexed
  <1>w. WorldOK
    BY DEF RoutingInv
  <1>1. ASSUME NEW due \in BOOLEAN, NEW d \in BOOLEAN, NEW p \in BOOLEAN, NEW n \in BOOLEAN, Rebuild(due, d, p, n)
        PROVE  RoutingInv'
    BY <1>1, RebuildKeeps
  <1>2. ASSUME NEW t \in Targets, Finish(t) PROVE RoutingInv'
    <2>1. busy' \in [Targets -> 0 .. MaxBusy]
      BY <1>2, <1>w, RoutingAssumption DEF Finish, WorldOK
    <2>2. WorldOK'
      BY <1>2, <1>w, <2>1 DEF Finish, WorldOK
    <2> QED BY <1>2, <2>2, BystandersKeep DEF Finish
  <1>3. ASSUME NEW t \in Targets, Trip(t) PROVE RoutingInv'
    <2>1. WorldOK'
      BY <1>3, <1>w DEF Trip, WorldOK
    <2> QED BY <1>3, <2>1, BystandersKeep DEF Trip
  <1>4. ASSUME NEW t \in Targets, NEW v \in Speeds, Measure(t, v) PROVE RoutingInv'
    <2>1. WorldOK'
      BY <1>4, <1>w, RoutingAssumption DEF Measure, WorldOK
    <2> QED BY <1>4, <2>1, BystandersKeep DEF Measure
  <1>5. ASSUME NEW t \in Targets, NEW s \in Standings(t), Stand(t, s) PROVE RoutingInv'
    <2>1. WorldOK'
      BY <1>5, <1>w DEF Stand, WorldOK, Standings
    <2> QED BY <1>5, <2>1, BystandersKeep DEF Stand
  <1>6. ASSUME NEW t \in Locals, Press(t) PROVE RoutingInv'
    <2>1. WorldOK'
      BY <1>6, <1>w DEF Press, WorldOK
    <2> QED BY <1>6, <2>1, BystandersKeep DEF Press
  <1>7. ASSUME NEW t \in Locals, SetDraining(t) PROVE RoutingInv'
    <2>1. blocks' \in [Targets -> SUBSET {"memory", "draining"}]
      BY <1>7, <1>w DEF SetDraining, WorldOK, Targets
    <2>2. WorldOK'
      BY <1>7, <1>w, <2>1 DEF SetDraining, WorldOK
    <2> QED BY <1>7, <2>2, BystandersKeep DEF SetDraining
  <1>8. ASSUME NEW p \in Policies, SetPolicy(p) PROVE RoutingInv'
    BY <1>8, SetPolicyKeeps
  <1>9. ASSUME ClearPolicy PROVE RoutingInv'
    <2>1. WorldOK'
      BY <1>9, <1>w DEF ClearPolicy, WorldOK
    <2> QED BY <1>9, <2>1, BystandersKeep DEF ClearPolicy
  <1>10. ASSUME Reconcile PROVE RoutingInv'
    <2>1. \A t \in Targets : BlocksOf(t) \in SUBSET {"memory", "draining"}
      BY <1>w DEF BlocksOf, WorldOK
    <2>2. blocks' \in [Targets -> SUBSET {"memory", "draining"}]
      BY <1>10, <2>1 DEF Reconcile
    <2>3. WorldOK'
      BY <1>10, <1>w, <2>2 DEF Reconcile, WorldOK
    <2> QED BY <1>10, <2>3, BystandersKeep DEF Reconcile
  <1>11. ASSUME NEW k \in Keys, PinExpires(k) PROVE RoutingInv'
    BY <1>11, PinExpiryKeeps
  <1> QED BY <1>1, <1>2, <1>3, <1>4, <1>5, <1>6, <1>7, <1>8, <1>9, <1>10, <1>11 DEF RoutingWorld

LEMMA RoutingHolds ==
    ASSUME RoutingInv
    PROVE  RoutingTypeOK /\ AllScored /\ Served /\ CreditsBounded /\ RotationEven
  <1>1. AllScored /\ DOMAIN raws = Listed
    BY DEF RoutingInv, IndexOK
  <1>2. turn \in RouterTurns /\ CreditsFair(turn.credit)
    BY DEF RoutingInv, TurnOK
  <1>3. RoutingTypeOK
    <2>1. turn.cursor \in 0 .. Cardinality(Targets) - 1 /\ turn.sticky \in [Keys -> Locals \cup {Nowhere}]
      BY <1>2 DEF RouterTurns
    <2> QED BY <1>1, <2>1 DEF RoutingTypeOK, RoutingInv, WorldOK
  <1>4. pick \in Picks /\ Served /\ InTurn(pick, turn.cursor)
    BY DEF RoutingInv, ChoiceOK, Picked, Served
  <1>5. CreditsBounded
    <2>1. MapThenSumSet(LAMBDA t : turn.credit[t], Targets) = SumOf(turn.credit, Targets)
      BY DEF SumOf
    <2>2. SumOf(turn.credit, Targets) = 0
      BY <1>2 DEF CreditsFair
    <2>3. \A t \in Targets : /\ 2 * turn.credit[t] <= WeightScale * (Cardinality(Targets) - 1)
                             /\ 2 * turn.credit[t] >= -(WeightScale * (Cardinality(Targets) - 1))
      BY <1>2, FairBounds
    <2>4. MapThenSumSet(LAMBDA t : turn.credit[t], Targets) = 0
      BY <2>1, <2>2
    <2> QED BY <2>3, <2>4 DEF CreditsBounded
  <1>6. RotationEven
    <2> DEFINE r == pick.rotation  pool == pick.pool
    <2>1. r \in Seq(Targets) /\ pool \subseteq Targets /\ (r # << >> => Rotates(pool, r, turn.cursor))
      BY <1>4 DEF Picks, InTurn
    <2> HIDE DEF r, pool
    <2>2. CASE r = << >>
      <3>1. DOMAIN r = {}
        BY <2>2
      <3> QED BY <3>1 DEF RotationEven, r, pool
    <2>3. CASE r # << >>
      <3>1. \A i, j \in 1 .. Len(r) : i < j /\ j - i < Cardinality(pool) => r[i] # r[j]
        BY <2>1, <2>3, RotationTells
      <3>2. DOMAIN r = 1 .. Len(r)
        BY <2>1
      <3> QED BY <3>1, <3>2 DEF RotationEven, r, pool
    <2> QED BY <2>2, <2>3
  <1> QED BY <1>1, <1>3, <1>4, <1>5, <1>6

PinStays ==
    \A k \in Keys :
         /\ pick' # pick /\ pick'.policy = "cache_affinity" /\ pick'.key = k
         /\ turn.sticky[k] \in pick'.pool
         => pick'.target = turn.sticky[k]

LEMMA RoutingSteps == ASSUME RoutingInv, [RoutingNext]_routingVars PROVE RoutingInv' /\ (PinStays \/ UNCHANGED routingVars)
  <1>1. CASE RoutingSelects
    <2>1. PICK k \in Keys, retry \in BOOLEAN : Route(k, retry)
      BY <1>1 DEF RoutingSelects
    <2> QED BY <2>1, RouteKeeps DEF PinStays
  <1>2. CASE RoutingWorld
    <2>1. RoutingInv'
      BY <1>2, AroundKeeps
    <2>2. pick' = pick \/ \E p \in Policies : SetPolicy(p)
      BY <1>2 DEF RoutingWorld, Rebuild, Finish, Trip, Measure, Stand, Press, SetDraining, ClearPolicy, Reconcile,
                  PinExpires
    <2>3. ASSUME NEW p \in Policies, SetPolicy(p) PROVE PinStays
      <3>1. pick \in Picks /\ InTurn(pick, turn.cursor) /\ pick' = [pick EXCEPT !.rotation = << >>]
        BY <2>3 DEF RoutingInv, ChoiceOK, SetPolicy
      <3>2. pick'.policy = pick.policy
        BY <3>1 DEF Picks
      <3>3. CASE pick.rotation = << >>
        <4>1. pick' = pick
          BY <3>1, <3>3 DEF Picks
        <4> QED BY <4>1 DEF PinStays
      <3>4. CASE pick.rotation # << >>
        <4>1. pick.policy = "round_robin"
          BY <3>1, <3>4 DEF InTurn
        <4> QED BY <3>2, <4>1 DEF PinStays
      <3> QED BY <3>3, <3>4
    <2> QED BY <2>1, <2>2, <2>3 DEF PinStays
  <1>3. CASE UNCHANGED routingVars
    <2>1. UNCHANGED <<standing, measured, blocks, busy, listed, raws, shares, override, turn, pick>>
      BY <1>3 DEF routingVars
    <2>2. WorldOK'
      BY <2>1 DEF RoutingInv, WorldOK
    <2> QED BY <1>3, <2>1, <2>2, BystandersKeep DEF indexed
  <1> QED BY <1>1, <1>2, <1>3 DEF RoutingNext

(* For any targets, weights and seats: every listed target has a score, an *)
(* answer of the router is a target that may be used and was not tried,    *)
(* nobody answers only where nobody can, the credits of weighted rounds    *)
(* sum to nothing and stay bounded while targets come, go and are          *)
(* re-weighed, round robin comes to everyone before it comes back, and a   *)
(* conversation keeps its replica as long as that may be used.             *)
THEOREM RoutingKeepsItsPromise == RoutingSpec => RoutingPromise
  <1>1. RoutingInit => RoutingInv
    BY RoutingStarts
  <1>2. RoutingInv /\ [RoutingNext]_routingVars => RoutingInv'
    BY RoutingSteps
  <1>3. RoutingInv /\ [RoutingNext]_routingVars => [PinStays]_routingVars
    BY RoutingSteps
  <1>4. RoutingInv => RoutingTypeOK /\ AllScored /\ Served /\ CreditsBounded /\ RotationEven
    BY RoutingHolds
  <1>5. RoutingSpec => [][PinStays]_routingVars
    BY <1>1, <1>2, <1>3, PTL DEF RoutingSpec
  <1>6. RoutingSpec => PinKept
    BY <1>5 DEF PinStays, PinKept
  <1>7. RoutingSpec => [](RoutingTypeOK /\ AllScored /\ Served /\ CreditsBounded /\ RotationEven)
    BY <1>1, <1>2, <1>4, PTL DEF RoutingSpec
  <1> QED BY <1>6, <1>7 DEF RoutingPromise
=============================================================================
