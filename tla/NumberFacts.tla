---------------------------- MODULE NumberFacts ----------------------------
(***************************************************************************)
(* Induction over the naturals, least and greatest members of sets, sums   *)
(* over finite sets and remainders, as facts about sets: the form in which *)
(* the provers can use them.                                               *)
(***************************************************************************)
EXTENDS Integers, FiniteSetsExt, FiniteSetTheorems, NaturalsInduction, WellFoundedInduction, TLAPS

LEMMA LeastOfNaturals ==
    ASSUME NEW S, S \subseteq Nat, S # {}
    PROVE  Min(S) \in S /\ \A y \in S : Min(S) <= y
  <1>1. PICK x \in S : \A y \in S : ~(<<y, x>> \in OpToRel(<, Nat))
    <2>1. IsWellFoundedOn(OpToRel(<, Nat), Nat)
      BY NatLessThanWellFounded
    <2> QED BY <2>1, WFMin
  <1>2. ASSUME NEW y \in S PROVE x <= y
    <2>1. x \in Nat /\ y \in Nat
      BY <1>1
    <2>2. y < x => <<y, x>> \in OpToRel(<, Nat)
      BY <2>1 DEF OpToRel
    <2>3. ~(y < x)
      BY <1>1, <2>2, Zenon
    <2> QED BY <2>1, <2>3
  <1>3. \E z : z \in S /\ \A y \in S : z <= y
    BY <1>2
  <1> QED BY <1>3 DEF Min

LEMMA InductiveSet ==
    ASSUME NEW X, 0 \in X, \A n \in Nat : n \in X => n + 1 \in X
    PROVE  \A n \in Nat : n \in X
  <1> DEFINE T == Nat \ X  x == Min(T)
  <1> SUFFICES ASSUME T # {} PROVE FALSE
    OBVIOUS
  <1>1. x \in T /\ \A y \in T : x <= y
    BY LeastOfNaturals
  <1> HIDE DEF x
  <1>2. x \in Nat /\ x # 0
    BY <1>1
  <1>3. x - 1 \in Nat /\ ~(x <= x - 1)
    BY <1>2
  <1>4. x - 1 \in X
    BY <1>1, <1>3
  <1>5. (x - 1) + 1 \in X
    BY <1>3, <1>4
  <1> QED BY <1>1, <1>2, <1>5

LEMMA GreatestOfBounded ==
    ASSUME NEW w \in Nat, NEW S, S \subseteq 1 .. w, S # {}
    PROVE  Max(S) \in S
  <1> DEFINE T == {w - y : y \in S}  t == Min(T)
  <1>w. \A y \in S : y \in Nat /\ w - y \in Nat
    OBVIOUS
  <1>1. T \subseteq Nat /\ T # {}
    BY <1>w
  <1>2. t \in T /\ \A y \in T : t <= y
    BY <1>1, LeastOfNaturals
  <1> HIDE DEF t
  <1>3. PICK x \in S : t = w - x
    BY <1>2
  <1>4. ASSUME NEW y \in S PROVE x >= y
    <2>1. w - x <= w - y
      BY <1>2, <1>3
    <2> QED BY <2>1, <1>w
  <1>5. \E z : z \in S /\ \A y \in S : z >= y
    BY <1>4
  <1> QED BY <1>5 DEF Max

(* Of finitely many natural numbers in a row one is the greatest.          *)
LEMMA GreatestOfRow ==
    ASSUME NEW w \in Nat \ {0}, NEW f \in [1 .. w -> Nat]
    PROVE  \E i \in 1 .. w : \A j \in 1 .. w : f[j] <= f[i]
  <1> DEFINE X == {n \in Nat : n < w => \E i \in 1 .. n + 1 : \A j \in 1 .. n + 1 : f[j] <= f[i]}
  <1>1. 0 \in X
    OBVIOUS
  <1>2. ASSUME NEW n \in Nat, n \in X PROVE n + 1 \in X
    <2> SUFFICES ASSUME n + 1 < w
                 PROVE  \E i \in 1 .. n + 2 : \A j \in 1 .. n + 2 : f[j] <= f[i]
      OBVIOUS
    <2>1. PICK i \in 1 .. n + 1 : \A j \in 1 .. n + 1 : f[j] <= f[i]
      BY <1>2
    <2>2. i \in 1 .. w /\ n + 2 \in 1 .. w /\ f[i] \in Nat /\ f[n + 2] \in Nat
      OBVIOUS
    <2>3. \A j \in 1 .. n + 2 : j \in 1 .. n + 1 \/ j = n + 2
      OBVIOUS
    <2>f. \A j \in 1 .. n + 1 : f[j] \in Nat
      BY <2>2
    <2>4. CASE f[n + 2] <= f[i]
      <3>1. \A j \in 1 .. n + 2 : f[j] <= f[i]
        BY <2>1, <2>3, <2>4
      <3>2. i \in 1 .. n + 2
        OBVIOUS
      <3> QED BY <3>1, <3>2
    <2>5. CASE f[i] <= f[n + 2]
      <3>1. ASSUME NEW j \in 1 .. n + 2 PROVE f[j] <= f[n + 2]
        <4>1. CASE j \in 1 .. n + 1
          <5>1. f[j] <= f[i] /\ f[j] \in Nat
            BY <4>1, <2>1, <2>f
          <5> QED BY <5>1, <2>2, <2>5
        <4>2. CASE j = n + 2
          BY <4>2, <2>2
        <4> QED BY <4>1, <4>2
      <3>2. n + 2 \in 1 .. n + 2
        OBVIOUS
      <3> QED BY <3>1, <3>2
    <2> QED BY <2>2, <2>4, <2>5
  <1>3. w - 1 \in X
    <2>1. w - 1 \in Nat
      OBVIOUS
    <2> HIDE DEF X
    <2> QED BY <1>1, <1>2, <2>1, InductiveSet
  <1> QED BY <1>3

(* So has a finite set of natural numbers a greatest member.               *)
LEMMA GreatestOfFinite ==
    ASSUME NEW S, S \subseteq Nat, S # {}, IsFiniteSet(S)
    PROVE  Max(S) \in S /\ \A y \in S : Max(S) >= y
  <1>1. PICK w \in Nat : \E f : f \in Surjection(1 .. w, S)
    BY FS_NatSurjection DEF ExistsSurjection
  <1>2. PICK f : f \in Surjection(1 .. w, S)
    BY <1>1
  <1>3. f \in [1 .. w -> S] /\ \A y \in S : \E i \in 1 .. w : f[i] = y
    BY <1>2 DEF Surjection
  <1>4. w # 0
    <2>1. PICK y : y \in S
      OBVIOUS
    <2>2. PICK i : i \in 1 .. w
      BY <2>1, <1>3
    <2> QED BY <2>2
  <1>5. f \in [1 .. w -> Nat]
    BY <1>3
  <1>6. PICK i \in 1 .. w : \A j \in 1 .. w : f[j] <= f[i]
    BY <1>4, <1>5, GreatestOfRow
  <1>7. f[i] \in S /\ \A y \in S : f[i] >= y
    BY <1>3, <1>5, <1>6
  <1>8. \E z : z \in S /\ \A y \in S : z >= y
    BY <1>7
  <1> QED BY <1>8 DEF Max

(* A value that is right at first and stays right from each place to the   *)
(* next is right everywhere.                                               *)
LEMMA Along ==
    ASSUME NEW L \in Nat, NEW f, NEW V, f[0] \in V, \A k \in 1 .. L : f[k - 1] \in V => f[k] \in V
    PROVE  \A k \in 0 .. L : f[k] \in V
  <1> DEFINE X == {n \in Nat : n <= L => f[n] \in V}
  <1>1. 0 \in X
    OBVIOUS
  <1>2. ASSUME NEW n \in Nat, n \in X PROVE n + 1 \in X
    <2> SUFFICES ASSUME n + 1 <= L PROVE f[n + 1] \in V
      OBVIOUS
    <2>1. f[n] \in V /\ n + 1 \in 1 .. L /\ (n + 1) - 1 = n
      BY <1>2
    <2> QED BY <2>1
  <1>3. \A n \in Nat : n \in X
    <2> HIDE DEF X
    <2> QED BY <1>1, <1>2, InductiveSet
  <1> QED BY <1>3

(* A recursion along a row, whose step at place k is G[k], has a solution. *)
Follows(f, L, V, base, G) ==
    f \in [0 .. L -> V] /\ f[0] = base /\ \A k \in 1 .. L : f[k] = G[k][f[k - 1]]

LEMMA RecursionHolds ==
    ASSUME NEW L \in Nat, NEW V, NEW base \in V, NEW G \in [1 .. L -> [V -> V]]
    PROVE  \E f : Follows(f, L, V, base, G)
  <1> DEFINE Upto(f, n) == f \in [0 .. L -> V] /\ f[0] = base /\ \A k \in 1 .. n : f[k] = G[k][f[k - 1]]
             X == {n \in Nat : n <= L => \E f : Upto(f, n)}
  <1>1. 0 \in X
    <2> DEFINE f == [k \in 0 .. L |-> base]
    <2>1. f \in [0 .. L -> V] /\ f[0] = base
      OBVIOUS
    <2>2. \A k \in 1 .. 0 : f[k] = G[k][f[k - 1]]
      OBVIOUS
    <2> HIDE DEF f
    <2>3. Upto(f, 0)
      BY <2>1, <2>2
    <2> HIDE DEF Upto
    <2> QED BY <2>3
  <1>2. ASSUME NEW n \in Nat, n \in X PROVE n + 1 \in X
    <2> SUFFICES ASSUME n + 1 <= L PROVE \E f : Upto(f, n + 1)
      OBVIOUS
    <2>0. n <= L /\ n + 1 \in 1 .. L /\ n \in 0 .. L
      OBVIOUS
    <2>1. PICK f : Upto(f, n)
      <3> HIDE DEF Upto
      <3> QED BY <1>2, <2>0
    <2> DEFINE v == G[n + 1][f[n]]
               g == [f EXCEPT ![n + 1] = v]
    <2>2. v \in V
      BY <2>0, <2>1
    <2>3. g \in [0 .. L -> V] /\ g[0] = base /\ g[n + 1] = v /\ \A k \in 0 .. n : g[k] = f[k]
      <3> HIDE DEF v
      <3> QED BY <2>1, <2>2
    <2> HIDE DEF g
    <2>4. ASSUME NEW k \in 1 .. n + 1 PROVE g[k] = G[k][g[k - 1]]
      <3>1. g[k - 1] = f[k - 1]
        BY <2>3
      <3>2. CASE k = n + 1
        <4>1. k - 1 = n
          BY <3>2
        <4> QED BY <2>3, <3>1, <3>2, <4>1
      <3>3. CASE k \in 1 .. n
        BY <2>1, <2>3, <3>1, <3>3
      <3> QED BY <3>2, <3>3
    <2>5. Upto(g, n + 1)
      BY <2>3, <2>4
    <2> HIDE DEF Upto
    <2> QED BY <2>5
  <1>3. \A n \in Nat : n \in X
    <2> HIDE DEF X
    <2> QED BY <1>1, <1>2, InductiveSet
  <1>4. L <= L
    OBVIOUS
  <1>5. PICK f : Upto(f, L)
    <2> HIDE DEF Upto
    <2> QED BY <1>3, <1>4
  <1> QED BY <1>5 DEF Follows

(* Induction over the finite sets, by size.                                *)
LEMMA FiniteInduction ==
    ASSUME NEW S, IsFiniteSet(S), NEW Y, {} \in Y,
           \A T \in SUBSET S, x \in S : x \notin T /\ T \in Y => T \cup {x} \in Y
    PROVE  S \in Y
  <1> DEFINE X == {n \in Nat : \A T \in SUBSET S : Cardinality(T) <= n => T \in Y}
  <1>f. \A T \in SUBSET S : IsFiniteSet(T) /\ Cardinality(T) \in Nat
    BY FS_Subset, FS_CardinalityType
  <1>1. 0 \in X
    <2> SUFFICES ASSUME NEW T \in SUBSET S, Cardinality(T) <= 0 PROVE T \in Y
      OBVIOUS
    <2>1. T = {}
      BY <1>f, FS_EmptySet
    <2> QED BY <2>1
  <1>2. ASSUME NEW n \in Nat, n \in X PROVE n + 1 \in X
    <2> SUFFICES ASSUME NEW T \in SUBSET S, Cardinality(T) <= n + 1 PROVE T \in Y
      OBVIOUS
    <2>1. CASE T = {}
      BY <2>1
    <2>2. CASE T # {}
      <3>1. PICK x : x \in T
        BY <2>2
      <3>2. Cardinality(T \ {x}) = Cardinality(T) - 1
        BY <3>1, <1>f, FS_RemoveElement
      <3>3. T \ {x} \in SUBSET S /\ Cardinality(T \ {x}) <= n /\ x \in S
        BY <3>1, <3>2, <1>f
      <3>4. T \ {x} \in Y
        BY <3>3, <1>2
      <3>5. (T \ {x}) \cup {x} \in Y
        BY <3>3, <3>4
      <3>6. (T \ {x}) \cup {x} = T
        BY <3>1
      <3> QED BY <3>5, <3>6
    <2> QED BY <2>1, <2>2
  <1>3. Cardinality(S) \in X
    <2> HIDE DEF X
    <2> QED BY <1>1, <1>2, <1>f, InductiveSet
  <1> QED BY <1>3, <1>f

(* A finite set has a first member in any order in which every two members *)
(* stand.                                                                  *)
LEMMA FirstInOrder ==
    ASSUME NEW S, IsFiniteSet(S), S # {}, NEW R,
           \A t, u \in S : t # u => <<t, u>> \in R \/ <<u, t>> \in R,
           \A t, u, v \in S : <<t, u>> \in R /\ <<u, v>> \in R => <<t, v>> \in R
    PROVE  \E t \in S : \A u \in S \ {t} : <<t, u>> \in R
  <1> DEFINE Led(T) == T = {} \/ \E t \in T : \A u \in T \ {t} : <<t, u>> \in R
             Y == {T \in SUBSET S : Led(T)}
  <1>1. {} \in Y
    OBVIOUS
  <1>2. ASSUME NEW T \in SUBSET S, NEW x \in S, x \notin T, T \in Y PROVE T \cup {x} \in Y
    <2>1. CASE T = {}
      BY <2>1
    <2>2. CASE T # {}
      <3>1. PICK t \in T : \A u \in T \ {t} : <<t, u>> \in R
        BY <2>2, <1>2
      <3>2. CASE <<t, x>> \in R
        <4>1. \A u \in (T \cup {x}) \ {t} : <<t, u>> \in R
          BY <3>1, <3>2
        <4> QED BY <4>1
      <3>3. CASE <<x, t>> \in R
        <4>1. \A u \in T : <<x, u>> \in R
          BY <3>1, <3>3
        <4>2. \A u \in (T \cup {x}) \ {x} : <<x, u>> \in R
          BY <4>1
        <4> QED BY <4>2
      <3> QED BY <3>2, <3>3, <1>2
    <2> QED BY <2>1, <2>2
  <1>3. S \in Y
    <2> HIDE DEF Y
    <2> QED BY <1>1, <1>2, FiniteInduction
  <1> QED BY <1>3

----------------------------------------------------------------------------
(* Sums over finite sets.                                                  *)

SumOf(c, S) == MapThenSumSet(LAMBDA x : c[x], S)
One(s) == CHOOSE x \in s : TRUE
Small(S, n) == {s \in SUBSET S : Cardinality(s) <= n}
SumsUp(f, c, D) == f = [s \in D |-> IF s = {} THEN 0 ELSE c[One(s)] + f[s \ {One(s)}]]
SumFcn(c, S) == CHOOSE f : SumsUp(f, c, SUBSET S)
(* What a sum is over: a finite set of places that hold integers.          *)
Summable(c, S) == IsFiniteSet(S) /\ \A x \in S : c[x] \in Int

LEMMA SumUnfolds == ASSUME NEW c, NEW S PROVE SumOf(c, S) = SumFcn(c, S)[S]
  BY DEF SumOf, MapThenSumSet, MapThenFoldSet, SumFcn, SumsUp, One

LEMMA OneLess ==
    ASSUME NEW s, s # {}, IsFiniteSet(s)
    PROVE  /\ One(s) \in s
           /\ IsFiniteSet(s \ {One(s)})
           /\ Cardinality(s) \in Nat /\ Cardinality(s \ {One(s)}) \in Nat
           /\ Cardinality(s \ {One(s)}) = Cardinality(s) - 1
  <1>1. One(s) \in s
    BY DEF One
  <1> HIDE DEF One
  <1> QED BY <1>1, FS_RemoveElement, FS_CardinalityType

(* The recursion of the fold has a solution: by the size of the subsets.   *)
LEMMA SumExists ==
    ASSUME NEW c, NEW S, Summable(c, S)
    PROVE  \E f \in [SUBSET S -> Int] : SumsUp(f, c, SUBSET S)
  <1> DEFINE X == {n \in Nat : \E f \in [Small(S, n) -> Int] : SumsUp(f, c, Small(S, n))}
  <1>f. IsFiniteSet(S) /\ \A s \in SUBSET S : IsFiniteSet(s) /\ Cardinality(s) \in Nat
    BY FS_Subset, FS_CardinalityType DEF Summable
  <1>c. \A x \in S : c[x] \in Int
    BY DEF Summable
  <1>1. 0 \in X
    <2>1. Small(S, 0) = {{}}
      BY <1>f, FS_EmptySet DEF Small
    <2> DEFINE f == [s \in Small(S, 0) |-> 0]
    <2>2. f \in [Small(S, 0) -> Int] /\ SumsUp(f, c, Small(S, 0))
      BY <2>1 DEF SumsUp
    <2> QED BY <2>2
  <1>2. ASSUME NEW n \in Nat, n \in X PROVE n + 1 \in X
    <2>1. PICK f \in [Small(S, n) -> Int] : SumsUp(f, c, Small(S, n))
      BY <1>2
    <2> DEFINE g == [s \in Small(S, n + 1) |-> IF s = {} THEN 0 ELSE c[One(s)] + f[s \ {One(s)}]]
    <2>2. ASSUME NEW s \in Small(S, n + 1), s # {}
          PROVE  One(s) \in S /\ s \ {One(s)} \in Small(S, n)
      <3>1. s \in SUBSET S /\ Cardinality(s) <= n + 1
        BY DEF Small
      <3>2. One(s) \in s /\ Cardinality(s \ {One(s)}) <= n
        BY <3>1, <2>2, <1>f, OneLess
      <3>3. s \ {One(s)} \in SUBSET S
        BY <3>1
      <3> QED BY <3>1, <3>2, <3>3 DEF Small
    <2>3. g \in [Small(S, n + 1) -> Int]
      <3> SUFFICES ASSUME NEW s \in Small(S, n + 1)
                   PROVE (IF s = {} THEN 0 ELSE c[One(s)] + f[s \ {One(s)}]) \in Int
        OBVIOUS
      <3>1. CASE s = {}
        BY <3>1
      <3>2. CASE s # {}
        <4>1. c[One(s)] \in Int /\ f[s \ {One(s)}] \in Int
          BY <3>2, <2>1, <2>2, <1>c
        <4> QED BY <4>1, <3>2
      <3> QED BY <3>1, <3>2
    <2>4. ASSUME NEW s \in Small(S, n) PROVE g[s] = f[s]
      <3>1. s \in Small(S, n + 1)
        BY <1>f DEF Small
      <3>2. f[s] = IF s = {} THEN 0 ELSE c[One(s)] + f[s \ {One(s)}]
        BY <2>1 DEF SumsUp
      <3> QED BY <3>1, <3>2
    <2>5. SumsUp(g, c, Small(S, n + 1))
      <3>1. ASSUME NEW s \in Small(S, n + 1), s # {} PROVE g[s \ {One(s)}] = f[s \ {One(s)}]
        BY <3>1, <2>2, <2>4
      <3>2. g = [s \in Small(S, n + 1) |-> IF s = {} THEN 0 ELSE c[One(s)] + g[s \ {One(s)}]]
        BY <3>1
      <3> HIDE DEF g
      <3> QED BY <3>2 DEF SumsUp
    <2> HIDE DEF g
    <2> QED BY <2>3, <2>5
  <1>3. Cardinality(S) \in X
    <2> HIDE DEF X
    <2> QED BY <1>1, <1>2, <1>f, InductiveSet
  <1>4. Small(S, Cardinality(S)) = SUBSET S
    BY <1>f, FS_Subset DEF Small
  <1> QED BY <1>3, <1>4

LEMMA SumFcnSumsUp == ASSUME NEW c, NEW S, Summable(c, S) PROVE SumsUp(SumFcn(c, S), c, SUBSET S)
  <1>1. \E f : SumsUp(f, c, SUBSET S)
    BY SumExists
  <1> HIDE DEF SumsUp
  <1> QED BY <1>1 DEF SumFcn

(* Two sums over different families, of functions that agree where both    *)
(* are defined, are the same integer.                                      *)
LEMMA SumsAgree ==
    ASSUME NEW c, NEW d, NEW S, NEW T, Summable(c, S), Summable(d, T), NEW s \in SUBSET S, s \in SUBSET T,
           \A x \in s : c[x] = d[x]
    PROVE  SumFcn(c, S)[s] = SumFcn(d, T)[s] /\ SumFcn(c, S)[s] \in Int
  <1> DEFINE Y == {u \in SUBSET s : SumFcn(c, S)[u] = SumFcn(d, T)[u] /\ SumFcn(c, S)[u] \in Int}
             X == {n \in Nat : \A u \in SUBSET s : Cardinality(u) <= n => u \in Y}
  <1>f. \A u \in SUBSET s : IsFiniteSet(u) /\ Cardinality(u) \in Nat
    BY FS_Subset, FS_CardinalityType DEF Summable
  <1>u. ASSUME NEW u \in SUBSET s
        PROVE  /\ SumFcn(c, S)[u] = IF u = {} THEN 0 ELSE c[One(u)] + SumFcn(c, S)[u \ {One(u)}]
               /\ SumFcn(d, T)[u] = IF u = {} THEN 0 ELSE d[One(u)] + SumFcn(d, T)[u \ {One(u)}]
    <2>1. u \in SUBSET S /\ u \in SUBSET T
      OBVIOUS
    <2>2. SumsUp(SumFcn(c, S), c, SUBSET S) /\ SumsUp(SumFcn(d, T), d, SUBSET T)
      BY SumFcnSumsUp
    <2> QED BY <2>1, <2>2 DEF SumsUp
  <1>0. {} \in Y
    <2>1. SumFcn(c, S)[{}] = 0 /\ SumFcn(d, T)[{}] = 0
      BY <1>u
    <2> QED BY <2>1
  <1>1. 0 \in X
    <2> SUFFICES ASSUME NEW u \in SUBSET s, Cardinality(u) <= 0 PROVE u \in Y
      OBVIOUS
    <2>1. u = {}
      BY <1>f, FS_EmptySet
    <2> HIDE DEF Y
    <2> QED BY <2>1, <1>0
  <1>2. ASSUME NEW n \in Nat, n \in X PROVE n + 1 \in X
    <2> SUFFICES ASSUME NEW u \in SUBSET s, Cardinality(u) <= n + 1 PROVE u \in Y
      OBVIOUS
    <2>1. CASE u = {}
      BY <2>1, <1>0
    <2>2. CASE u # {}
      <3>1. One(u) \in u /\ u \ {One(u)} \in SUBSET s /\ Cardinality(u \ {One(u)}) <= n
        BY <2>2, <1>f, OneLess
      <3>2. SumFcn(c, S)[u \ {One(u)}] = SumFcn(d, T)[u \ {One(u)}] /\ SumFcn(c, S)[u \ {One(u)}] \in Int
        BY <3>1, <1>2
      <3>3. c[One(u)] = d[One(u)] /\ c[One(u)] \in Int
        BY <3>1 DEF Summable
      <3>4. SumFcn(c, S)[u] = c[One(u)] + SumFcn(c, S)[u \ {One(u)}]
        BY <2>2, <1>u
      <3>5. SumFcn(d, T)[u] = d[One(u)] + SumFcn(d, T)[u \ {One(u)}]
        BY <2>2, <1>u
      <3>6. SumFcn(c, S)[u] = SumFcn(d, T)[u] /\ SumFcn(c, S)[u] \in Int
        BY <3>2, <3>3, <3>4, <3>5
      <3> QED BY <3>6
    <2> QED BY <2>1, <2>2
  <1>3. Cardinality(s) \in X
    <2> HIDE DEF X
    <2> QED BY <1>1, <1>2, <1>f, InductiveSet
  <1>4. Cardinality(s) <= Cardinality(s)
    BY <1>f
  <1> QED BY <1>3, <1>4

LEMMA SumSame ==
    ASSUME NEW c, NEW d, NEW S, Summable(c, S), \A x \in S : c[x] = d[x]
    PROVE  SumOf(c, S) = SumOf(d, S)
  <1>1. Summable(d, S)
    BY DEF Summable
  <1> QED BY <1>1, SumsAgree, SumUnfolds

(* A sum is what one of the members adds and what the others do; the first *)
(* is the fold's own choice ...                                            *)
LEMMA SumOne ==
    ASSUME NEW c, NEW S, Summable(c, S)
    PROVE  /\ SumOf(c, S) \in Int
           /\ S = {} => SumOf(c, S) = 0
           /\ S # {} => SumOf(c, S) = c[One(S)] + SumOf(c, S \ {One(S)})
  <1> DEFINE R == S \ {One(S)}
  <1>0. R \subseteq S /\ Summable(c, R)
    BY FS_Subset DEF Summable
  <1> HIDE DEF R
  <1>1. SumOf(c, S) = SumFcn(c, S)[S] /\ SumOf(c, S) \in Int
    <2>1. SumFcn(c, S)[S] \in Int
      BY SumsAgree
    <2> QED BY <2>1, SumUnfolds
  <1>2. SumFcn(c, S)[S] = IF S = {} THEN 0 ELSE c[One(S)] + SumFcn(c, S)[R]
    <2>1. SumsUp(SumFcn(c, S), c, SUBSET S) /\ S \in SUBSET S
      BY SumFcnSumsUp
    <2> QED BY <2>1 DEF SumsUp, R
  <1>3. SumFcn(c, S)[R] = SumFcn(c, R)[R]
    BY <1>0, SumsAgree
  <1>4. SumOf(c, R) = SumFcn(c, R)[R]
    BY SumUnfolds
  <1> QED BY <1>1, <1>2, <1>3, <1>4 DEF R

(* ... and then any of them.                                               *)
LEMMA SumLess ==
    ASSUME NEW c, NEW S, Summable(c, S), NEW r \in S
    PROVE  SumOf(c, S) = c[r] + SumOf(c, S \ {r}) /\ SumOf(c, S \ {r}) \in Int
  <1> DEFINE X == {n \in Nat : \A U \in SUBSET S : Cardinality(U) <= n
                                   => \A q \in U : SumOf(c, U) = c[q] + SumOf(c, U \ {q})}
  <1>f. \A U \in SUBSET S : IsFiniteSet(U) /\ Cardinality(U) \in Nat /\ Summable(c, U)
    BY FS_Subset, FS_CardinalityType DEF Summable
  <1>1. 0 \in X
    <2> SUFFICES ASSUME NEW U \in SUBSET S, Cardinality(U) <= 0, NEW q \in U PROVE FALSE
      OBVIOUS
    <2> QED BY <1>f, FS_EmptySet
  <1>2. ASSUME NEW n \in Nat, n \in X PROVE n + 1 \in X
    <2> SUFFICES ASSUME NEW U \in SUBSET S, Cardinality(U) <= n + 1, NEW q \in U
                 PROVE  SumOf(c, U) = c[q] + SumOf(c, U \ {q})
      OBVIOUS
    <2> DEFINE o == One(U)
    <2>1. o \in U /\ Cardinality(U \ {o}) <= n
      BY <1>f, OneLess
    <2>2. SumOf(c, U) = c[o] + SumOf(c, U \ {o})
      BY <1>f, SumOne
    <2>c. c[o] \in Int /\ c[q] \in Int
      BY <2>1 DEF Summable
    <2> HIDE DEF o
    <2>3. CASE q = o
      BY <2>2, <2>3
    <2>4. CASE q # o
      <3>1. SumOf(c, U \ {o}) = c[q] + SumOf(c, (U \ {o}) \ {q})
        BY <2>1, <2>4, <1>2
      <3>2. Cardinality(U \ {q}) <= n
        BY <1>f, FS_RemoveElement
      <3>3. SumOf(c, U \ {q}) = c[o] + SumOf(c, (U \ {q}) \ {o})
        BY <2>1, <2>4, <3>2, <1>2
      <3>4. (U \ {q}) \ {o} = (U \ {o}) \ {q}
        OBVIOUS
      <3>5. SumOf(c, (U \ {o}) \ {q}) \in Int
        BY <1>f, SumOne
      <3>6. SumOf(c, U) = c[o] + (c[q] + SumOf(c, (U \ {o}) \ {q}))
        BY <2>2, <3>1
      <3>7. SumOf(c, U \ {q}) = c[o] + SumOf(c, (U \ {o}) \ {q})
        BY <3>3, <3>4
      <3> QED BY <3>5, <3>6, <3>7, <2>c
    <2> QED BY <2>3, <2>4
  <1>3. Cardinality(S) \in X
    <2> HIDE DEF X
    <2> QED BY <1>1, <1>2, <1>f, InductiveSet
  <1>4. Cardinality(S) <= Cardinality(S)
    BY <1>f
  <1>5. SumOf(c, S \ {r}) \in Int
    BY <1>f, SumOne
  <1> QED BY <1>3, <1>4, <1>5

LEMMA SumMore ==
    ASSUME NEW c, NEW S, Summable(c, S), NEW r, r \notin S, c[r] \in Int
    PROVE  SumOf(c, S \cup {r}) = c[r] + SumOf(c, S)
  <1>1. Summable(c, S \cup {r})
    BY FS_AddElement DEF Summable
  <1>2. (S \cup {r}) \ {r} = S
    OBVIOUS
  <1>3. SumOf(c, S \cup {r}) = c[r] + SumOf(c, (S \cup {r}) \ {r})
    BY <1>1, SumLess
  <1> QED BY <1>2, <1>3

LEMMA SumNone == ASSUME NEW c PROVE SumOf(c, {}) = 0
  <1>1. Summable(c, {})
    BY FS_EmptySet DEF Summable
  <1> QED BY <1>1, SumOne

LEMMA SumInside ==
    ASSUME NEW c, NEW S, Summable(c, S), NEW T \in SUBSET S
    PROVE  Summable(c, T) /\ SumOf(c, T) \in Int
  <1>1. Summable(c, T)
    BY FS_Subset DEF Summable
  <1> QED BY <1>1, SumOne

(* The sum of the sums of two functions is the sum of their sums.          *)
LEMMA SumAdds ==
    ASSUME NEW c, NEW d, NEW e, NEW S, Summable(c, S), Summable(d, S), \A x \in S : e[x] = c[x] + d[x]
    PROVE  SumOf(e, S) = SumOf(c, S) + SumOf(d, S)
  <1> DEFINE Y == {T \in SUBSET S : SumOf(e, T) = SumOf(c, T) + SumOf(d, T)}
  <1>0. Summable(e, S)
    BY DEF Summable
  <1>1. {} \in Y
    <2>1. SumOf(e, {}) = 0 /\ SumOf(c, {}) = 0 /\ SumOf(d, {}) = 0
      BY SumNone
    <2> QED BY <2>1
  <1>2. ASSUME NEW T \in SUBSET S, NEW x \in S, x \notin T, T \in Y PROVE T \cup {x} \in Y
    <2>1. /\ Summable(c, T) /\ Summable(d, T) /\ Summable(e, T)
          /\ SumOf(c, T) \in Int /\ SumOf(d, T) \in Int
      BY <1>0, SumInside
    <2>2. c[x] \in Int /\ d[x] \in Int /\ e[x] = c[x] + d[x] /\ e[x] \in Int
      BY DEF Summable
    <2>3. /\ SumOf(c, T \cup {x}) = c[x] + SumOf(c, T) /\ SumOf(d, T \cup {x}) = d[x] + SumOf(d, T)
          /\ SumOf(e, T \cup {x}) = e[x] + SumOf(e, T)
      BY <1>2, <2>1, <2>2, SumMore
    <2>4. SumOf(e, T) = SumOf(c, T) + SumOf(d, T)
      BY <1>2
    <2>5. SumOf(e, T \cup {x}) = SumOf(c, T \cup {x}) + SumOf(d, T \cup {x})
      BY <2>1, <2>2, <2>3, <2>4
    <2> QED BY <2>5
  <1>3. S \in Y
    <2> HIDE DEF Y
    <2> QED BY <1>1, <1>2, FiniteInduction DEF Summable
  <1> QED BY <1>3

(* A multiple of every summand gives the multiple of the sum.              *)
LEMMA SumTimes ==
    ASSUME NEW c, NEW d, NEW S, Summable(c, S), NEW k \in Int, \A x \in S : d[x] = k * c[x]
    PROVE  SumOf(d, S) = k * SumOf(c, S)
  <1> DEFINE Y == {T \in SUBSET S : SumOf(d, T) = k * SumOf(c, T)}
  <1>0. Summable(d, S)
    BY DEF Summable
  <1>1. {} \in Y
    <2>1. SumOf(d, {}) = 0 /\ SumOf(c, {}) = 0
      BY SumNone
    <2> QED BY <2>1
  <1>2. ASSUME NEW T \in SUBSET S, NEW x \in S, x \notin T, T \in Y PROVE T \cup {x} \in Y
    <2>1. Summable(c, T) /\ Summable(d, T) /\ SumOf(c, T) \in Int
      BY <1>0, SumInside
    <2>2. c[x] \in Int /\ d[x] = k * c[x] /\ d[x] \in Int
      BY DEF Summable
    <2>3. SumOf(c, T \cup {x}) = c[x] + SumOf(c, T) /\ SumOf(d, T \cup {x}) = d[x] + SumOf(d, T)
      BY <1>2, <2>1, <2>2, SumMore
    <2>4. SumOf(d, T) = k * SumOf(c, T)
      BY <1>2
    <2>5. \A a, b \in Int : k * (a + b) = k * a + k * b
      OBVIOUS
    <2>6. SumOf(d, T \cup {x}) = k * SumOf(c, T \cup {x})
      BY <2>1, <2>2, <2>3, <2>4, <2>5
    <2> QED BY <2>6
  <1>3. S \in Y
    <2> HIDE DEF Y
    <2> QED BY <1>1, <1>2, FiniteInduction DEF Summable
  <1> QED BY <1>3

(* Smaller summands have a smaller sum.                                    *)
LEMMA SumAtMost ==
    ASSUME NEW c, NEW d, NEW S, Summable(c, S), Summable(d, S), \A x \in S : c[x] <= d[x]
    PROVE  SumOf(c, S) <= SumOf(d, S)
  <1> DEFINE Y == {T \in SUBSET S : SumOf(c, T) <= SumOf(d, T)}
  <1>1. {} \in Y
    <2>1. SumOf(c, {}) = 0 /\ SumOf(d, {}) = 0
      BY SumNone
    <2> QED BY <2>1
  <1>2. ASSUME NEW T \in SUBSET S, NEW x \in S, x \notin T, T \in Y PROVE T \cup {x} \in Y
    <2>1. Summable(c, T) /\ Summable(d, T) /\ SumOf(c, T) \in Int /\ SumOf(d, T) \in Int
      BY SumInside
    <2>2. c[x] \in Int /\ d[x] \in Int /\ c[x] <= d[x]
      BY DEF Summable
    <2>3. SumOf(c, T \cup {x}) = c[x] + SumOf(c, T) /\ SumOf(d, T \cup {x}) = d[x] + SumOf(d, T)
      BY <1>2, <2>1, <2>2, SumMore
    <2>4. SumOf(c, T) <= SumOf(d, T)
      BY <1>2
    <2>5. SumOf(c, T \cup {x}) <= SumOf(d, T \cup {x})
      BY <2>1, <2>2, <2>3, <2>4
    <2> QED BY <2>5
  <1>3. S \in Y
    <2> HIDE DEF Y
    <2> QED BY <1>1, <1>2, FiniteInduction DEF Summable
  <1> QED BY <1>3

(* The sum over two sets that have nothing in common.                      *)
LEMMA SumBoth ==
    ASSUME NEW c, NEW S, NEW T, Summable(c, S), Summable(c, T), S \cap T = {}
    PROVE  SumOf(c, S \cup T) = SumOf(c, S) + SumOf(c, T)
  <1> DEFINE Y == {U \in SUBSET T : SumOf(c, S \cup U) = SumOf(c, S) + SumOf(c, U)}
  <1>0. SumOf(c, S) \in Int
    BY SumOne
  <1>1. {} \in Y
    <2>1. SumOf(c, {}) = 0 /\ S \cup {} = S
      BY SumNone
    <2> QED BY <1>0, <2>1
  <1>2. ASSUME NEW U \in SUBSET T, NEW x \in T, x \notin U, U \in Y PROVE U \cup {x} \in Y
    <2>1. Summable(c, U) /\ SumOf(c, U) \in Int
      BY SumInside
    <2>2. Summable(c, S \cup U)
      BY <2>1, FS_Union DEF Summable
    <2>3. c[x] \in Int /\ x \notin S \cup U
      BY <1>2 DEF Summable
    <2>4. SumOf(c, (S \cup U) \cup {x}) = c[x] + SumOf(c, S \cup U)
      BY <2>2, <2>3, SumMore
    <2>5. SumOf(c, U \cup {x}) = c[x] + SumOf(c, U)
      BY <1>2, <2>1, <2>3, SumMore
    <2>6. SumOf(c, S \cup U) = SumOf(c, S) + SumOf(c, U)
      BY <1>2
    <2>7. (S \cup U) \cup {x} = S \cup (U \cup {x})
      OBVIOUS
    <2>8. SumOf(c, S \cup (U \cup {x})) = c[x] + SumOf(c, S \cup U)
      BY <2>4, <2>7
    <2>9. SumOf(c, S \cup (U \cup {x})) = SumOf(c, S) + SumOf(c, U \cup {x})
      BY ONLY <1>0, <2>1, <2>3, <2>5, <2>6, <2>8
    <2>a. U \cup {x} \in SUBSET T
      OBVIOUS
    <2> QED BY <2>9, <2>a
  <1>3. T \in Y
    <2> HIDE DEF Y
    <2> QED BY <1>1, <1>2, FiniteInduction DEF Summable
  <1> QED BY <1>3

(* The sum of as many equal summands as the set has members.               *)
LEMMA SumEqual ==
    ASSUME NEW S, IsFiniteSet(S), NEW k \in Int, NEW c, \A x \in S : c[x] = k
    PROVE  SumOf(c, S) = k * Cardinality(S)
  <1> DEFINE Y == {T \in SUBSET S : SumOf(c, T) = k * Cardinality(T)}
  <1>0. Summable(c, S)
    BY DEF Summable
  <1>1. {} \in Y
    <2>1. SumOf(c, {}) = 0 /\ Cardinality({}) = 0
      BY SumNone, FS_EmptySet
    <2> QED BY <2>1
  <1>2. ASSUME NEW T \in SUBSET S, NEW x \in S, x \notin T, T \in Y PROVE T \cup {x} \in Y
    <2>1. Summable(c, T) /\ SumOf(c, T) \in Int
      BY <1>0, SumInside
    <2>2. SumOf(c, T \cup {x}) = k + SumOf(c, T)
      BY <1>2, <2>1, SumMore
    <2>3. Cardinality(T \cup {x}) = Cardinality(T) + 1 /\ Cardinality(T) \in Nat
      BY <1>2, <2>1, FS_AddElement, FS_CardinalityType DEF Summable
    <2>4. SumOf(c, T) = k * Cardinality(T)
      BY <1>2
    <2>5. \A a \in Nat : k * (a + 1) = k + k * a
      OBVIOUS
    <2>6. SumOf(c, T \cup {x}) = k * Cardinality(T \cup {x})
      BY <2>2, <2>3, <2>4, <2>5
    <2> QED BY <2>6
  <1>3. S \in Y
    <2> HIDE DEF Y
    <2> QED BY <1>1, <1>2, FiniteInduction DEF Summable
  <1> QED BY <1>3

----------------------------------------------------------------------------
(* Quotients and remainders.                                               *)

LEMMA Divides ==
    ASSUME NEW a \in Nat, NEW b \in Nat \ {0}
    PROVE  /\ a \div b \in Nat /\ a % b \in 0 .. b - 1
           /\ a = b * (a \div b) + (a % b) /\ b * (a \div b) <= a
  OBVIOUS

LEMMA Divided ==
    ASSUME NEW a \in Nat, NEW b \in Nat \ {0}
    PROVE  \E q \in Nat : \E r \in 0 .. b - 1 : a = b * q + r /\ a % b = r
  BY Divides

LEMMA OneRemainder ==
    ASSUME NEW n \in Nat \ {0}, NEW p \in Int, NEW q \in Int, NEW r \in 0 .. n - 1, NEW s \in 0 .. n - 1,
           n * p + r = n * q + s
    PROVE  r = s
  <1> DEFINE d == p - q
  <1>1. n * d = s - r /\ d \in Int
    <2>1. n * (p - q) = n * p - n * q
      OBVIOUS
    <2> QED BY <2>1
  <1>2. s - r < n /\ s - r > -n
    OBVIOUS
  <1> HIDE DEF d
  <1>3. d >= 1 => n * d >= n
    BY <1>1
  <1>4. d <= -1 => n * d <= -n
    BY <1>1
  <1>5. d = 0
    BY <1>1, <1>2, <1>3, <1>4
  <1> QED BY <1>1, <1>5

(* Counting on from a remainder and taking the remainder of the next.      *)
LEMMA NextRemainder ==
    ASSUME NEW x \in Nat, NEW n \in Nat \ {0}
    PROVE  ((x % n) + 1) % n = (x + 1) % n
  <1>1. PICK q \in Nat : \E r \in 0 .. n - 1 : x = n * q + r /\ x % n = r
    BY Divided
  <1>2. PICK r \in 0 .. n - 1 : x = n * q + r /\ x % n = r
    BY <1>1
  <1>3. r + 1 \in Nat /\ x + 1 \in Nat
    OBVIOUS
  <1>4. PICK p \in Nat : \E s \in 0 .. n - 1 : r + 1 = n * p + s /\ (r + 1) % n = s
    BY <1>3, Divided
  <1>5. PICK s \in 0 .. n - 1 : r + 1 = n * p + s /\ (r + 1) % n = s
    BY <1>4
  <1>6. PICK u \in Nat : \E v \in 0 .. n - 1 : x + 1 = n * u + v /\ (x + 1) % n = v
    BY <1>3, Divided
  <1>7. PICK v \in 0 .. n - 1 : x + 1 = n * u + v /\ (x + 1) % n = v
    BY <1>6
  <1>8. n * (q + p) + s = n * u + v
    <2>1. n * (q + p) = n * q + n * p
      OBVIOUS
    <2>2. n * q \in Int /\ n * p \in Int /\ n * u \in Int
      OBVIOUS
    <2>3. x = n * q + r /\ r + 1 = n * p + s /\ x + 1 = n * u + v
      BY <1>2, <1>5, <1>7
    <2> QED BY <2>1, <2>2, <2>3
  <1>9. s = v
    <2>1. q + p \in Int /\ u \in Int
      OBVIOUS
    <2> QED BY ONLY <1>8, <2>1, n \in Nat \ {0}, s \in 0 .. n - 1, v \in 0 .. n - 1, OneRemainder
  <1> QED BY <1>2, <1>5, <1>7, <1>9

(* Fewer than n steps apart, two numbers have different remainders.        *)
LEMMA OtherRemainder ==
    ASSUME NEW x \in Nat, NEW y \in Nat, NEW n \in Nat \ {0}, x < y, y - x < n
    PROVE  x % n # y % n
  <1> SUFFICES ASSUME x % n = y % n PROVE FALSE
    OBVIOUS
  <1>1. PICK q \in Nat : \E r \in 0 .. n - 1 : x = n * q + r /\ x % n = r
    BY Divided
  <1>2. PICK p \in Nat : \E r \in 0 .. n - 1 : y = n * p + r /\ y % n = r
    BY Divided
  <1>3. PICK r \in 0 .. n - 1 : x = n * q + r /\ y = n * p + r
    BY <1>1, <1>2
  <1> DEFINE d == p - q
  <1>4. y - x = n * d /\ d \in Int
    <2>1. n * (p - q) = n * p - n * q
      OBVIOUS
    <2>2. n * q \in Int /\ n * p \in Int
      OBVIOUS
    <2> QED BY <1>3, <2>1, <2>2
  <1> HIDE DEF d
  <1>5. d >= 1 => n * d >= n
    BY <1>4
  <1>6. d <= 0 => n * d <= 0
    BY <1>4
  <1> QED BY <1>4, <1>5, <1>6

----------------------------------------------------------------------------
(* Products, quotients and the least of a row.                             *)

LEMMA TimesGrows ==
    ASSUME NEW a \in Int, NEW b \in Int, NEW k \in Nat, a <= b
    PROVE  k * a <= k * b
  OBVIOUS

LEMMA NotMoreThan ==
    ASSUME NEW a \in Int, NEW b \in Int, NEW k \in Nat \ {0}, k * a <= k * b
    PROVE  a <= b
  <1> SUFFICES ASSUME b + 1 <= a PROVE FALSE
    OBVIOUS
  <1>1. k * (b + 1) <= k * a
    BY TimesGrows
  <1>2. k * (b + 1) = k * b + k /\ k * b \in Int /\ k * a \in Int
    OBVIOUS
  <1> QED BY <1>1, <1>2

LEMMA ProductIs == ASSUME NEW a \in Nat, NEW b \in Nat PROVE a * b \in Nat
  OBVIOUS

LEMMA PositiveProduct == ASSUME NEW a \in Nat \ {0}, NEW b \in Nat \ {0} PROVE a * b \in Nat \ {0}
  <1>1. a * b >= a * 1
    BY TimesGrows
  <1> QED BY <1>1, ProductIs

LEMMA ProductLess ==
    ASSUME NEW a \in Nat, NEW b \in Nat, NEW c \in Nat, NEW d \in Nat, a <= b, c <= d
    PROVE  a * c <= b * d /\ a * c \in Nat /\ b * d \in Nat
  <1>1. c * a <= c * b /\ b * c <= b * d
    BY TimesGrows
  <1>2. c * a = a * c /\ c * b = b * c /\ a * c \in Nat /\ b * c \in Nat /\ b * d \in Nat
    OBVIOUS
  <1> QED BY <1>1, <1>2

LEMMA FloorLess ==
    ASSUME NEW a \in Nat, NEW b \in Nat, a <= b, NEW d \in Nat \ {0}
    PROVE  a \div d \in Nat /\ b \div d \in Nat /\ a \div d <= b \div d
  <1> DEFINE p == a \div d  q == b \div d  r == a % d  s == b % d
  <1>1. p \in Nat /\ q \in Nat /\ r \in 0 .. d - 1 /\ s \in 0 .. d - 1 /\ a = d * p + r /\ b = d * q + s
    BY Divides
  <1> HIDE DEF p, q, r, s
  <1>2. SUFFICES ASSUME q + 1 <= p PROVE FALSE
    BY <1>1 DEF p, q
  <1>3. d * (q + 1) <= d * p
    BY <1>1, <1>2, TimesGrows
  <1>4. d * (q + 1) = d * q + d /\ d * q \in Int /\ d * p \in Int
    BY <1>1
  <1> QED BY <1>1, <1>3, <1>4

LEMMA FloorBound ==
    ASSUME NEW a \in Nat, NEW k \in Int, NEW d \in Nat \ {0}, a <= d * k
    PROVE  a \div d <= k
  <1>1. a \div d \in Nat /\ d * (a \div d) <= a
    BY Divides
  <1> DEFINE q == a \div d
  <1> HIDE DEF q
  <1>2. q \in Nat /\ d * q <= d * k
    <2>1. q \in Nat /\ d * q <= a
      BY <1>1 DEF q
    <2>2. d * q \in Int /\ d * k \in Int
      BY <2>1
    <2> QED BY <2>1, <2>2
  <1>3. q <= k
    BY <1>2, NotMoreThan
  <1> QED BY <1>3 DEF q

LEMMA FloorTimes ==
    ASSUME NEW x \in Nat, NEW e \in Nat, NEW d \in Nat \ {0}
    PROVE  e * (x \div d) <= (e * x) \div d
  <1> DEFINE q == x \div d  p == (e * x) \div d
  <1>1. q \in Nat /\ d * q <= x
    BY Divides
  <1>2. e * x \in Nat
    BY ProductIs
  <1>3. p \in Nat /\ (e * x) % d \in 0 .. d - 1 /\ e * x = d * p + ((e * x) % d)
    BY <1>2, Divides
  <1> DEFINE s == (e * x) % d
  <1> HIDE DEF q, p
  <1>4. e * (d * q) <= e * x
    BY <1>1, TimesGrows
  <1> HIDE DEF s
  <1>5. d * (e * q) = e * (d * q) /\ e * q \in Nat
    BY <1>1
  <1>6. s \in 0 .. d - 1 /\ d * (e * q) <= d * p + s
    BY <1>3, <1>4, <1>5 DEF s
  <1>7. e * q <= p
    <2> SUFFICES ASSUME p + 1 <= e * q PROVE FALSE
      BY <1>3, <1>5
    <2>1. d * (p + 1) <= d * (e * q)
      BY <1>3, <1>5, TimesGrows
    <2>2. d * (p + 1) = d * p + d /\ d * p \in Int /\ d * (e * q) \in Int
      BY <1>3, <1>5
    <2> QED BY <1>6, <2>1, <2>2
  <1> QED BY <1>7 DEF q, p

(* A row of integers has a least.                                          *)
LEMMA LeastOfRow ==
    ASSUME NEW w \in Nat \ {0}, NEW f, \A i \in 1 .. w : f[i] \in Int
    PROVE  \E i \in 1 .. w : \A j \in 1 .. w : f[i] <= f[j]
  <1> DEFINE X == {n \in Nat : n < w => \E i \in 1 .. n + 1 : \A j \in 1 .. n + 1 : f[i] <= f[j]}
  <1>1. 0 \in X
    <2>1. \A j \in 1 .. 0 + 1 : j = 1
      OBVIOUS
    <2>2. 1 \in 1 .. 0 + 1 /\ f[1] \in Int
      OBVIOUS
    <2>3. \A j \in 1 .. 0 + 1 : f[1] <= f[j]
      BY <2>1, <2>2
    <2> QED BY <2>2, <2>3
  <1>2. ASSUME NEW n \in Nat, n \in X PROVE n + 1 \in X
    <2> SUFFICES ASSUME n + 1 < w PROVE \E i \in 1 .. (n + 1) + 1 : \A j \in 1 .. (n + 1) + 1 : f[i] <= f[j]
      OBVIOUS
    <2>1. PICK i \in 1 .. n + 1 : \A j \in 1 .. n + 1 : f[i] <= f[j]
      BY <1>2
    <2>2. \A j \in 1 .. (n + 1) + 1 : j \in 1 .. n + 1 \/ j = n + 2
      OBVIOUS
    <2>3. f[i] \in Int /\ f[n + 2] \in Int /\ \A j \in 1 .. n + 1 : f[j] \in Int
      OBVIOUS
    <2>4. CASE f[i] <= f[n + 2]
      <3>1. \A j \in 1 .. (n + 1) + 1 : f[i] <= f[j]
        BY <2>1, <2>2, <2>4
      <3>2. i \in 1 .. (n + 1) + 1
        OBVIOUS
      <3> QED BY <3>1, <3>2
    <2>5. CASE f[n + 2] <= f[i]
      <3>1. \A j \in 1 .. (n + 1) + 1 : f[n + 2] <= f[j]
        BY <2>1, <2>2, <2>3, <2>5
      <3>2. n + 2 \in 1 .. (n + 1) + 1
        OBVIOUS
      <3> QED BY <3>1, <3>2
    <2> QED BY <2>3, <2>4, <2>5
  <1>3. w - 1 \in X
    <2> HIDE DEF X
    <2> QED BY <1>1, <1>2, InductiveSet
  <1>4. w - 1 + 1 = w /\ w - 1 < w
    OBVIOUS
  <1> QED BY <1>3, <1>4

LEMMA FirstFound ==
    ASSUME NEW I, I \subseteq Nat, I # {}
    PROVE  \E i \in I : \A j \in 1 .. i - 1 : j \notin I
  <1> DEFINE i == Min(I)
  <1>1. i \in I /\ \A y \in I : i <= y
    BY LeastOfNaturals
  <1> HIDE DEF i
  <1>2. \A j \in 1 .. i - 1 : j \notin I
    <2> SUFFICES ASSUME NEW j \in 1 .. i - 1, j \in I PROVE FALSE
      OBVIOUS
    <2>1. i \in Nat /\ i <= j
      BY <1>1
    <2> QED BY <2>1
  <1> QED BY <1>1, <1>2

----------------------------------------------------------------------------
(* Sums of parts, images of finite sets and the first few of an order.     *)

LEMMA FiniteImage ==
    ASSUME NEW S, IsFiniteSet(S), NEW r
    PROVE  IsFiniteSet({r[x] : x \in S}) /\ Cardinality({r[x] : x \in S}) <= Cardinality(S)
  <1> DEFINE T == {r[x] : x \in S}
             f == [x \in S |-> r[x]]
  <1>1. f \in [S -> T] /\ \A y \in T : \E x \in S : f[x] = y
    OBVIOUS
  <1> HIDE DEF f, T
  <1>2. f \in Surjection(S, T)
    BY <1>1 DEF Surjection
  <1>3. IsFiniteSet(T) /\ Cardinality(T) <= Cardinality(S)
    BY <1>2, FS_Surjection
  <1> QED BY <1>3 DEF T

(* Of the members of a finite set with fewer than k before them, there are *)
(* no more than k, in any order in which every two members stand.          *)
Orders(R, N) ==
    /\ \A x \in N : <<x, x>> \notin R
    /\ \A x, y \in N : x = y \/ <<x, y>> \in R \/ <<y, x>> \in R
    /\ \A x, y, z \in N : <<x, y>> \in R /\ <<y, z>> \in R => <<x, z>> \in R
FewBefore(N, R, k) == {x \in N : Cardinality({y \in N : <<y, x>> \in R}) < k}
LEMMA FirstFew ==
    ASSUME NEW N, IsFiniteSet(N), NEW R, Orders(R, N), NEW k \in Nat
    PROVE  IsFiniteSet(FewBefore(N, R, k)) /\ Cardinality(FewBefore(N, R, k)) <= k
  <1>0. /\ \A x \in N : <<x, x>> \notin R
        /\ \A x, y \in N : x = y \/ <<x, y>> \in R \/ <<y, x>> \in R
        /\ \A x, y, z \in N : <<x, y>> \in R /\ <<y, z>> \in R => <<x, z>> \in R
    BY DEF Orders
  <1> DEFINE before == [x \in N |-> {y \in N : <<y, x>> \in R}]
             O == {x \in N : Cardinality({y \in N : <<y, x>> \in R}) < k}
             f == [x \in O |-> Cardinality(before[x])]
  <1>1. \A x \in N : before[x] \in SUBSET N /\ before[x] = {y \in N : <<y, x>> \in R}
    OBVIOUS
  <1>2. O \in SUBSET N /\ \A x \in O : x \in N /\ Cardinality(before[x]) < k
    BY <1>1
  <1>3. \A x \in N : IsFiniteSet(before[x]) /\ Cardinality(before[x]) \in Nat
    BY <1>1, FS_Subset, FS_CardinalityType
  <1>4. ASSUME NEW x \in N, NEW y \in N, <<x, y>> \in R PROVE Cardinality(before[x]) # Cardinality(before[y])
    <2>1. before[x] \in SUBSET before[y]
      BY <1>0, <1>1, <1>4
    <2>2. x \in before[y] /\ x \notin before[x]
      BY <1>0, <1>1, <1>4
    <2> HIDE DEF before
    <2> QED BY <1>3, <2>1, <2>2, FS_Subset
  <1> HIDE DEF before, O
  <1>5. f \in [O -> 0 .. k - 1]
    <2>1. ASSUME NEW x \in O PROVE Cardinality(before[x]) \in 0 .. k - 1
      <3>1. Cardinality(before[x]) \in Nat /\ Cardinality(before[x]) < k
        BY <1>2, <1>3
      <3> QED BY <3>1
    <2> QED BY <2>1
  <1>6. \A x, y \in O : f[x] = f[y] => x = y
    BY <1>0, <1>2, <1>4
  <1>7. f \in Injection(O, 0 .. k - 1)
    <2> HIDE DEF f
    <2> QED BY <1>5, <1>6 DEF Injection, IsInjective
  <1>8. IsFiniteSet(0 .. k - 1) /\ Cardinality(0 .. k - 1) = k
    <2>1. 0 \in Int /\ k - 1 \in Int /\ (IF 0 > k - 1 THEN 0 ELSE k - 1 - 0 + 1) = k
      OBVIOUS
    <2> QED BY <2>1, FS_Interval
  <1>9. IsFiniteSet(O) /\ Cardinality(O) <= k
    BY <1>7, <1>8, FS_Injection
  <1> QED BY <1>9 DEF O, FewBefore

(* What the parts of a set sum up to, the set does.                        *)
PartWhere(F, part, s) == {x \in F : part[x] = s}
LEMMA SumByPart ==
    ASSUME NEW c, NEW F, Summable(c, F), NEW S, IsFiniteSet(S), NEW part, \A x \in F : part[x] \in S,
           NEW g, \A s \in S : g[s] = SumOf(c, PartWhere(F, part, s))
    PROVE  Summable(g, S) /\ SumOf(g, S) = SumOf(c, F)
  <1> DEFINE Those(T) == {x \in F : part[x] \in T}
             Y == {T \in SUBSET S : SumOf(g, T) = SumOf(c, Those(T))}
  <1>1. \A T : Those(T) \in SUBSET F
    OBVIOUS
  <1>2. \A T : Summable(c, Those(T)) /\ SumOf(c, Those(T)) \in Int
    BY <1>1, SumInside
  <1>3. \A s \in S : g[s] = SumOf(c, Those({s})) /\ g[s] \in Int
    <2>1. \A s \in S : PartWhere(F, part, s) = Those({s})
      BY DEF PartWhere
    <2> HIDE DEF Those
    <2> QED BY <1>2, <2>1
  <1>4. Summable(g, S)
    BY <1>3 DEF Summable
  <1>5. {} \in Y
    <2>1. Those({}) = {}
      OBVIOUS
    <2> HIDE DEF Those
    <2> QED BY <2>1, SumNone
  <1>6. ASSUME NEW T \in SUBSET S, NEW x \in S, x \notin T, T \in Y PROVE T \cup {x} \in Y
    <2>1. Those(T \cup {x}) = Those(T) \cup Those({x}) /\ Those(T) \cap Those({x}) = {}
      BY <1>6
    <2>2. SumOf(g, T) = SumOf(c, Those(T))
      BY <1>6
    <2> HIDE DEF Those
    <2>3. Summable(g, T)
      BY <1>4, SumInside
    <2>4. SumOf(g, T \cup {x}) = g[x] + SumOf(g, T)
      BY <1>3, <1>6, <2>3, SumMore
    <2>5. SumOf(c, Those(T \cup {x})) = SumOf(c, Those(T)) + SumOf(c, Those({x}))
      <3>1. Summable(c, Those(T)) /\ Summable(c, Those({x}))
        BY <1>2
      <3>2. SumOf(c, Those(T) \cup Those({x})) = SumOf(c, Those(T)) + SumOf(c, Those({x}))
        BY <2>1, <3>1, SumBoth
      <3> QED BY <2>1, <3>2
    <2>6. SumOf(c, Those(T)) \in Int /\ SumOf(c, Those({x})) \in Int /\ g[x] = SumOf(c, Those({x}))
      BY <1>2, <1>3
    <2>7. SumOf(g, T \cup {x}) = SumOf(c, Those(T \cup {x}))
      BY <2>2, <2>4, <2>5, <2>6
    <2> QED BY <2>7
  <1>7. S \in Y
    <2> HIDE DEF Y
    <2> QED BY <1>5, <1>6, FiniteInduction
  <1>8. Those(S) = F
    OBVIOUS
  <1> HIDE DEF Those
  <1> QED BY <1>4, <1>7, <1>8

(* A sum over what a set is mapped to, one for one.                        *)
LEMMA SumImage ==
    ASSUME NEW S, IsFiniteSet(S), NEW r, NEW b, \A x \in S : b[r[x]] \in Int,
           \A x, y \in S : r[x] = r[y] => x = y
    PROVE  /\ IsFiniteSet({r[x] : x \in S})
           /\ SumOf(b, {r[x] : x \in S}) = SumOf([x \in S |-> b[r[x]]], S)
  <1> DEFINE Image(T) == {r[x] : x \in T}
             g == [x \in S |-> b[r[x]]]
             Y == {T \in SUBSET S : IsFiniteSet(Image(T)) /\ SumOf(b, Image(T)) = SumOf(g, T)}
  <1>1. Summable(g, S) /\ \A x \in S : g[x] = b[r[x]]
    BY DEF Summable
  <1> HIDE DEF g
  <1>2. {} \in Y
    <2>1. Image({}) = {} /\ IsFiniteSet({})
      BY FS_EmptySet
    <2> HIDE DEF Image
    <2> QED BY <2>1, SumNone
  <1>3. ASSUME NEW T \in SUBSET S, NEW x \in S, x \notin T, T \in Y PROVE T \cup {x} \in Y
    <2>1. Image(T \cup {x}) = Image(T) \cup {r[x]} /\ r[x] \notin Image(T)
      BY <1>3
    <2>2. IsFiniteSet(Image(T)) /\ SumOf(b, Image(T)) = SumOf(g, T)
      BY <1>3
    <2>3. \A y \in Image(T) : b[y] \in Int
      OBVIOUS
    <2> HIDE DEF Image
    <2>4. Summable(b, Image(T))
      BY <2>2, <2>3 DEF Summable
    <2>5. SumOf(b, Image(T) \cup {r[x]}) = b[r[x]] + SumOf(b, Image(T))
      BY <2>1, <2>4, SumMore
    <2>6. SumOf(g, T \cup {x}) = g[x] + SumOf(g, T)
      BY <1>1, <1>3, SumInside, SumMore DEF Summable
    <2>7. IsFiniteSet(Image(T \cup {x}))
      <3>1. IsFiniteSet(Image(T) \cup {r[x]})
        BY <2>2, FS_AddElement
      <3> QED BY <2>1, <3>1
    <2>8. SumOf(b, Image(T \cup {x})) = SumOf(g, T \cup {x})
      BY <1>1, <2>1, <2>2, <2>5, <2>6
    <2> QED BY <2>7, <2>8
  <1>4. S \in Y
    <2> HIDE DEF Y
    <2> QED BY <1>2, <1>3, FiniteInduction
  <1> QED BY <1>4 DEF g
=============================================================================
