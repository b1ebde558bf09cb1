--------------------------- MODULE GatewayProofs ---------------------------
(***************************************************************************)
(* The books of the gateway's dispatch for any number of requests and      *)
(* targets, any costs and any budget: outstanding counts, KV commitments,  *)
(* bounds on attempts and bodies, and the half-open probe.                 *)
(***************************************************************************)
EXTENDS GatewayDispatch, NumberFacts, TLAPS

----------------------------------------------------------------------------
(* The sum of what a set of requests is charged.                           *)

Charged(S) == MapThenSumSet(LAMBDA r : Cost[r], S)

LEMMA ChargedSums == ASSUME NEW S \in SUBSET Requests PROVE Summable(Cost, S) /\ Charged(S) = SumOf(Cost, S)
  <1>1. Summable(Cost, S)
    BY FiniteAssumption, CostAssumption, FS_Subset DEF Summable
  <1> QED BY <1>1 DEF Charged, SumOf

(* What a set of requests is charged, nothing or more, is what one of them *)
(* is and what the others are.                                             *)
LEMMA ChargedOne ==
    ASSUME NEW S \in SUBSET Requests
    PROVE  Charged(S) \in Nat /\ (S = {} => Charged(S) = 0)
  <1>1. Summable(Cost, S) /\ Charged(S) = SumOf(Cost, S) /\ SumOf(Cost, S) \in Int
    BY ChargedSums, SumOne
  <1> DEFINE none == [r \in S |-> 0]
  <1>2. Summable(none, S) /\ IsFiniteSet(S) /\ \A r \in S : none[r] = 0 /\ Cost[r] \in Nat
    BY <1>1, CostAssumption DEF Summable
  <1> HIDE DEF none
  <1>3. SumOf(none, S) = 0 * Cardinality(S) /\ Cardinality(S) \in Nat
    BY <1>2, SumEqual, FS_CardinalityType
  <1>4. SumOf(none, S) <= SumOf(Cost, S)
    BY <1>1, <1>2, SumAtMost
  <1>5. S = {} => SumOf(Cost, S) = 0
    BY SumNone
  <1> QED BY <1>1, <1>3, <1>4, <1>5

LEMMA ChargedLess ==
    ASSUME NEW S \in SUBSET Requests, NEW r \in S
    PROVE  Charged(S) = Cost[r] + Charged(S \ {r})
  <1>1. Summable(Cost, S) /\ Charged(S) = SumOf(Cost, S) /\ Charged(S \ {r}) = SumOf(Cost, S \ {r})
    BY ChargedSums
  <1> QED BY <1>1, SumLess

----------------------------------------------------------------------------
(* What _dispatch knows of a request (q) and the turns it has taken (l)    *)
(* fit each other.                                                         *)

Spent == {"no"} \cup Unusable
Turns == InProgress \cup Usable \cup Unusable
Width == IF Hedging THEN 2 ELSE 1
Offers(l) == {t \in Targets : l[t].at # "no"}

\* A target that was not tried has had no turn.
Untried(q, l) == \A t \in Targets \ q.tried : l[t] = NoLeg

\* Between attempts nothing runs and nothing is held.
AtRest(q, l) == q.phase \in {"new", "claim", "nowhere"} => \A t \in Targets : l[t].at \in Spent

\* The leg that counts and the one beside it are two legs.
Paired(q, l) ==
    q.phase \in {"wait", "body"} =>
        /\ q.main \in q.tried /\ q.n < MaxAttempts
        /\ q.mate \in q.tried \cup {None} /\ q.mate # q.main

\* All other legs of an attempt are spent, unless a race has been won.
Racing(q, l) ==
    q.phase = "wait" =>
        /\ ~q.hedged => q.mate = None
        /\ q.hedged => Hedging
        /\ \/ \A t \in Targets \ {q.main, q.mate} : l[t].at \in Spent
           \/ q.mate = None /\ l[q.main].at \in Usable

Bodied(q, l) ==
    q.phase = "body" =>
        /\ l[q.main].at \in {"ready", "stream", "reopen"}
        /\ l[q.main].at = "reopen" => q.mate # None /\ q.seen = {}

\* Two legs that are awaited together are still having their turns.
Together(q, l) ==
    q.mate # None =>
        /\ q.phase \in {"wait", "body"} => l[q.mate].at \in Turns
        /\ q.phase = "wait" => l[q.main].at \in Turns

\* The client has bytes of one target at most, the one whose body is sent.
Watched(q, l) == q.seen = {} \/ (q.phase \in {"body", "over"} /\ q.seen = {q.main})

\* An attempt costs a turn, and one more if it was hedged.
Counted(q, l) ==
    LET c == Cardinality(Offers(l)) IN
    /\ c <= Width * MaxAttempts
    /\ q.phase \in {"new", "claim"} => c <= Width * q.n
    /\ q.phase = "wait" => c <= Width * q.n + (IF q.hedged THEN 2 ELSE 1)
    /\ q.phase = "body" /\ q.again /\ l[q.main].at # "reopen" => c <= Width * (q.n + 1)

\* Without hedges a leg that failed is remembered in `last`.
Shown(q, l) ==
    ~Hedging =>
        /\ (q.phase \in {"new", "claim"} /\ ~q.last) \/ q.phase = "nowhere"
             => \A t \in Targets : l[t].at # "retry"
        /\ q.phase = "wait" => \A t \in Targets \ {q.main} :
                                  l[t].at \in Spent /\ (~q.last => l[t].at # "retry")

Coherent(q, l) ==
    /\ Untried(q, l) /\ AtRest(q, l) /\ Paired(q, l) /\ Racing(q, l)
    /\ Bodied(q, l) /\ Together(q, l) /\ Watched(q, l) /\ Counted(q, l) /\ Shown(q, l)

Consistent == \A r \in Requests : Coherent(req[r], leg[r])

\* BooksBalance, with names for the set and for the sum.
Held(t) == {r \in Requests : leg[r][t].at \in Holding}
Balanced ==
    \A t \in Targets : /\ outstanding[t] = Cardinality(Held(t))
                       /\ t \in Local => kv[t] = Charged(Held(t))
Books == /\ kv \in [Targets -> Nat] /\ outstanding \in [Targets -> Nat]
         /\ Balanced /\ WithinBudget

GInv == TypeOK /\ Consistent /\ Books /\ ProbeAccounted

Keeps(x) == x.probe /\ x.at \in Unreached \cup {"cut", "stranded"}

LEMMA WidthTimes ==
    /\ Width * MaxAttempts = IF Hedging THEN MaxAttempts + MaxAttempts ELSE MaxAttempts
    /\ \A n \in Nat : Width * n = IF Hedging THEN n + n ELSE n
    /\ \A n \in Nat : Width * (n + 1) = IF Hedging THEN n + n + 2 ELSE n + 1
  BY AttemptsAssumption DEF Width

LEMMA OffersSize ==
    ASSUME NEW l PROVE IsFiniteSet(Offers(l)) /\ Cardinality(Offers(l)) \in Nat
  <1>1. Offers(l) \in SUBSET Targets
    BY DEF Offers
  <1> QED BY <1>1, FiniteAssumption, FS_Subset, FS_CardinalityType

LEMMA OffersOneMore ==
    ASSUME NEW l \in [Targets -> Legs], NEW m \in [Targets -> Legs], NEW t \in Targets,
           \A u \in Targets \ {t} : m[u].at = "no" <=> l[u].at = "no"
    PROVE  /\ Cardinality(Offers(m)) <= Cardinality(Offers(l)) + 1
           /\ (m[t].at = "no" <=> l[t].at = "no") => Offers(m) = Offers(l)
  <1>1. Offers(m) \subseteq Offers(l) \cup {t}
    BY DEF Offers
  <1>2. IsFiniteSet(Offers(l) \cup {t}) /\ Cardinality(Offers(l) \cup {t}) <= Cardinality(Offers(l)) + 1
    <2> DEFINE o == Offers(l)
    <2>1. IsFiniteSet(o) /\ Cardinality(o) \in Nat
      BY OffersSize
    <2> HIDE DEF o
    <2>2. /\ IsFiniteSet(o \cup {t})
          /\ Cardinality(o \cup {t}) = IF t \in o THEN Cardinality(o) ELSE Cardinality(o) + 1
      BY <2>1, FS_AddElement
    <2>3. IsFiniteSet(o \cup {t}) /\ Cardinality(o \cup {t}) <= Cardinality(o) + 1
      BY <2>1, <2>2
    <2> QED BY <2>3 DEF o
  <1>3. Cardinality(Offers(m)) <= Cardinality(Offers(l) \cup {t})
    BY <1>1, <1>2, FS_Subset
  <1>4. /\ Cardinality(Offers(m)) \in Nat /\ Cardinality(Offers(l)) \in Nat
        /\ Cardinality(Offers(l) \cup {t}) \in Nat
    BY <1>2, OffersSize, FS_CardinalityType
  <1>5. (m[t].at = "no" <=> l[t].at = "no") => Offers(m) = Offers(l)
    BY DEF Offers
  <1> QED BY <1>2, <1>3, <1>4, <1>5

LEMMA NoLegTyped == NoLeg \in Legs /\ NoLeg.at = "no" /\ NoLeg.probe = FALSE
  BY DEF NoLeg, Legs, Places

(* A turn in progress goes on, or comes to its outcome.                    *)
LEMMA TurnCoherent ==
    ASSUME NEW q \in Dispatches, NEW l \in [Targets -> Legs], Coherent(q, l),
           NEW t \in Targets, l[t].at \in InProgress,
           NEW x \in Legs, x.at \in InProgress \cup Usable \cup Unusable,
           NEW m, m = [l EXCEPT ![t] = x]
    PROVE  Coherent(q, m)
  <1> USE DEF Coherent
  <1>n. x.at # "no" /\ l[t].at # "no" /\ l[t].at \notin Spent \cup Usable \cup {"stream", "reopen"}
    BY DEF InProgress, Unreached, Early, Usable, Unusable, Spent
  <1>m. m \in [Targets -> Legs] /\ m[t] = x /\ \A u \in Targets \ {t} : m[u] = l[u]
    OBVIOUS
  <1>1. Untried(q, m)
    BY <1>n, <1>m, NoLegTyped DEF Untried
  <1>2. AtRest(q, m)
    BY <1>n DEF AtRest
  <1>3. Paired(q, m)
    BY DEF Paired
  <1>4. Racing(q, m)
    BY <1>n, <1>m DEF Racing, Dispatches
  <1>5. Bodied(q, m)
    <2> SUFFICES ASSUME q.phase = "body" PROVE Bodied(q, m)
      BY DEF Bodied
    <2>1. l[q.main].at \in {"ready", "stream", "reopen"} /\ q.main \in Targets
      BY DEF Bodied, Paired, Dispatches
    <2>2. q.main # t
      BY <2>1, <1>n DEF Usable
    <2> QED BY <1>m, <2>1, <2>2 DEF Bodied
  <1>6. Watched(q, m)
    BY DEF Watched
  <1>7. Counted(q, m)
    <2>1. Offers(m) = Offers(l)
      BY <1>n, <1>m, OffersOneMore
    <2>2. q.phase = "body" => m[q.main].at = l[q.main].at
      <3> SUFFICES ASSUME q.phase = "body" PROVE m[q.main].at = l[q.main].at
        OBVIOUS
      <3>1. l[q.main].at \in {"ready", "stream", "reopen"} /\ q.main \in Targets
        BY DEF Bodied, Paired, Dispatches
      <3> QED BY <3>1, <1>n, <1>m DEF Usable
    <2> QED BY <2>1, <2>2 DEF Counted
  <1>8. Shown(q, m)
    BY <1>n, <1>m DEF Shown, AtRest, Spent
  <1>9. Together(q, m)
    BY <1>m DEF Together, Turns, Dispatches
  <1> QED BY <1>1, <1>2, <1>3, <1>4, <1>5, <1>6, <1>7, <1>8, <1>9

(* The request is over: its legs go where they may, but none begins.       *)
LEMMA OverCoherent ==
    ASSUME NEW q \in Dispatches, NEW l \in [Targets -> Legs], Coherent(q, l),
           NEW p \in Dispatches, p.phase = "over", p.tried = q.tried, p.seen = q.seen,
           p.main = q.main,
           NEW m \in [Targets -> Legs],
           \A t \in Targets : l[t].at = "no" => m[t] = l[t],
           \A t \in Targets : m[t].at = "no" => l[t].at = "no"
    PROVE  Coherent(p, m)
  <1> USE DEF Coherent
  <1>1. Untried(p, m)
    BY NoLegTyped DEF Untried
  <1>2. AtRest(p, m) /\ Paired(p, m) /\ Racing(p, m) /\ Bodied(p, m) /\ Together(p, m) /\ Shown(p, m)
    BY DEF AtRest, Paired, Racing, Bodied, Together, Shown
  <1>3. Watched(p, m)
    BY DEF Watched
  <1>4. Offers(m) = Offers(l)
    BY DEF Offers
  <1>5. Counted(p, m)
    BY <1>4 DEF Counted
  <1> QED BY <1>1, <1>2, <1>3, <1>5

(* _dispatch begins, ends with nothing, or is called afresh.               *)
LEMMA ClaimingCoherent ==
    ASSUME NEW q \in Dispatches, NEW l \in [Targets -> Legs], Coherent(q, l),
           NEW p \in Dispatches, p.tried = q.tried, p.seen = q.seen, p.n = q.n, p.last = q.last,
           \/ q.phase = "new" /\ p.phase = "claim"
           \/ q.phase = "claim" /\ ~q.last /\ p.phase = "nowhere"
    PROVE  Coherent(p, l)
  <1> USE DEF Coherent
  <1>1. /\ Untried(p, l) /\ AtRest(p, l) /\ Paired(p, l) /\ Racing(p, l)
        /\ Bodied(p, l) /\ Together(p, l) /\ Watched(p, l)
    BY DEF Untried, AtRest, Paired, Racing, Bodied, Together, Watched
  <1>2. Counted(p, l)
    BY DEF Counted
  <1>3. Shown(p, l)
    BY DEF Shown
  <1> QED BY <1>1, <1>2, <1>3

LEMMA AfreshCoherent ==
    ASSUME NEW p \in Dispatches, p.phase \in {"new", "claim"}, p.seen = {}, p.n = 0,
           NEW l, l = [t \in Targets |-> NoLeg]
    PROVE  Coherent(p, l)
  <1>1. \A t \in Targets : l[t] = NoLeg /\ l[t].at = "no"
    BY NoLegTyped
  <1>2. /\ Untried(p, l) /\ AtRest(p, l) /\ Paired(p, l) /\ Racing(p, l)
        /\ Bodied(p, l) /\ Together(p, l) /\ Watched(p, l) /\ Shown(p, l)
    BY <1>1 DEF Untried, AtRest, Paired, Racing, Bodied, Together, Watched, Shown, Spent
  <1>3. Offers(l) = {}
    BY <1>1 DEF Offers
  <1>4. Cardinality(Offers(l)) = 0
    BY <1>3, FS_EmptySet
  <1>5. Counted(p, l)
    BY <1>4, WidthTimes, AttemptsAssumption DEF Counted
  <1> QED BY <1>2, <1>5 DEF Coherent

LEMMA ClaimCoherent ==
    ASSUME NEW q \in Dispatches, NEW l \in [Targets -> Legs], Coherent(q, l), q.phase = "claim",
           NEW t \in Targets \ q.tried,
           NEW p \in Dispatches, p.phase = "wait", p.n \in q.n .. MaxAttempts - 1, p.main = t, p.mate = None,
           q.tried \cup {t} \subseteq p.tried, p.hedged = FALSE, p.last = q.last, p.seen = q.seen,
           NEW x \in Legs, NEW m, m = [l EXCEPT ![t] = x]
    PROVE  Coherent(p, m)
  <1> USE DEF Coherent
  <1>m. m \in [Targets -> Legs] /\ m[t] = x /\ \A u \in Targets \ {t} : m[u] = l[u]
    OBVIOUS
  <1>d. q.n \in Nat /\ p.n \in Nat /\ MaxAttempts \in Nat /\ q.n <= p.n /\ p.n < MaxAttempts
    BY AttemptsAssumption DEF Dispatches
  <1>1. Untried(p, m)
    BY <1>m DEF Untried
  <1>2. AtRest(p, m) /\ Bodied(p, m) /\ Together(p, m) /\ Watched(p, m)
    BY DEF AtRest, Bodied, Together, Watched
  <1>3. Paired(p, m)
    BY <1>d, TargetsAssumption DEF Paired
  <1>4. Racing(p, m)
    BY <1>m DEF Racing, AtRest
  <1>5. Counted(p, m)
    <2>1. Cardinality(Offers(m)) <= Cardinality(Offers(l)) + 1
      BY <1>m, OffersOneMore
    <2>2. Cardinality(Offers(l)) <= Width * q.n
      BY DEF Counted
    <2>3. Cardinality(Offers(m)) \in Nat /\ Cardinality(Offers(l)) \in Nat
      BY OffersSize
    <2>4. Cardinality(Offers(m)) <= Width * p.n + 1 /\ Cardinality(Offers(m)) <= Width * MaxAttempts
      BY <1>d, <2>1, <2>2, <2>3, WidthTimes
    <2> QED BY <2>4 DEF Counted
  <1>6. Shown(p, m)
    BY <1>m DEF Shown, AtRest
  <1> QED BY <1>1, <1>2, <1>3, <1>4, <1>5, <1>6

(* The attempt is hedged, with another turn or with none.                  *)
LEMMA HedgeCoherent ==
    ASSUME NEW q \in Dispatches, NEW l \in [Targets -> Legs], Coherent(q, l), q.phase = "wait",
           Hedging, ~q.hedged, l[q.main].at \in InProgress,
           NEW p \in Dispatches, p.phase = "wait", p.n = q.n, p.main = q.main, p.hedged = TRUE, p.seen = q.seen,
           NEW m \in [Targets -> Legs],
           \/ /\ m = l /\ p.mate = q.mate /\ q.tried \subseteq p.tried
           \/ \E t \in Targets \ q.tried, x \in Legs :
                 /\ m = [l EXCEPT ![t] = x] /\ x.at \in Turns
                 /\ p.mate = t /\ p.tried = q.tried \cup {t}
    PROVE  Coherent(p, m)
  <1> USE DEF Coherent
  <1>d. q.n \in Nat /\ MaxAttempts \in Nat /\ q.n < MaxAttempts /\ q.main \in q.tried /\ q.main \in Targets /\ q.mate = None
    BY AttemptsAssumption DEF Dispatches, Paired, Racing
  <1>r. \A t \in Targets \ {q.main} : l[t].at \in Spent
    BY <1>d, TargetsAssumption DEF Racing, Usable, InProgress, Unreached, Early
  <1>1. Untried(p, m)
    BY DEF Untried
  <1>2. AtRest(p, m) /\ Bodied(p, m) /\ Watched(p, m) /\ Shown(p, m)
    BY DEF AtRest, Bodied, Watched, Shown
  <1>3. Paired(p, m)
    BY <1>d DEF Paired
  <1>4. Racing(p, m)
    BY <1>r DEF Racing
  <1>5. Counted(p, m)
    <2>1. Cardinality(Offers(m)) <= Cardinality(Offers(l)) + 1
      BY OffersOneMore, OffersSize
    <2>2. Cardinality(Offers(l)) <= Width * q.n + 1
      BY DEF Counted
    <2>3. Cardinality(Offers(m)) \in Nat /\ Cardinality(Offers(l)) \in Nat
      BY OffersSize
    <2>4. Cardinality(Offers(m)) <= Width * p.n + 2 /\ Cardinality(Offers(m)) <= Width * MaxAttempts
      BY <1>d, <2>1, <2>2, <2>3, WidthTimes
    <2> QED BY <2>4 DEF Counted
  <1>6. Together(p, m)
    BY <1>d DEF Together, Turns
  <1> QED BY <1>1, <1>2, <1>3, <1>4, <1>5, <1>6

(* A race is won by w, and the leg of the loser goes where it may ...      *)
LEMMA WinCoherent ==
    ASSUME NEW q \in Dispatches, NEW l \in [Targets -> Legs], Coherent(q, l), q.phase = "wait", q.mate # None,
           NEW w \in {q.main, q.mate}, NEW o \in {q.main, q.mate} \ {w}, l[w].at \in Usable,
           NEW p \in Dispatches, p.phase = "wait", p.n = q.n, p.main = w, p.mate = None,
           p.tried = q.tried, p.hedged = q.hedged, p.seen = q.seen,
           NEW x \in Legs, l[o].at = "no" => x.at = "no",
           NEW m, m = [l EXCEPT ![o] = x]
    PROVE  Coherent(p, m)
  <1> USE DEF Coherent
  <1>d. w \in q.tried /\ o \in q.tried /\ w \in Targets /\ o \in Targets /\ q.hedged /\ Hedging /\ q.n < MaxAttempts
    BY DEF Paired, Racing, Dispatches
  <1>m. m \in [Targets -> Legs] /\ m[o] = x /\ \A u \in Targets \ {o} : m[u] = l[u]
    BY <1>d
  <1>1. Untried(p, m)
    BY <1>m, <1>d DEF Untried
  <1>2. AtRest(p, m) /\ Bodied(p, m) /\ Together(p, m) /\ Watched(p, m)
    BY DEF AtRest, Bodied, Together, Watched
  <1>3. Paired(p, m) /\ Shown(p, m)
    BY <1>d, TargetsAssumption DEF Paired, Shown
  <1>4. Racing(p, m)
    BY <1>m, <1>d DEF Racing
  <1>5. Counted(p, m)
    <2>1. Offers(m) \subseteq Offers(l)
      BY <1>m DEF Offers
    <2>2. Cardinality(Offers(m)) <= Cardinality(Offers(l))
      BY <2>1, OffersSize, FS_Subset
    <2>3. Cardinality(Offers(m)) \in Nat /\ Cardinality(Offers(l)) \in Nat
      BY OffersSize
    <2>4. /\ Cardinality(Offers(l)) <= Width * q.n + 2
          /\ Cardinality(Offers(l)) <= Width * MaxAttempts
      BY <1>d DEF Counted
    <2>5. q.n \in Nat /\ MaxAttempts \in Nat
      BY AttemptsAssumption DEF Dispatches
    <2>6. Cardinality(Offers(m)) <= Width * q.n + 2 /\ Cardinality(Offers(m)) <= Width * MaxAttempts
      BY <2>2, <2>3, <2>4, <2>5, WidthTimes
    <2> QED BY <2>6, <1>d DEF Counted
  <1> QED BY <1>1, <1>2, <1>3, <1>4, <1>5

(* ... or has nothing to show and leaves the field to the other.           *)
LEMMA YieldCoherent ==
    ASSUME NEW q \in Dispatches, NEW l \in [Targets -> Legs], Coherent(q, l), q.phase = "wait", q.mate # None,
           NEW w \in {q.main, q.mate}, NEW o \in {q.main, q.mate} \ {w}, l[w].at \in Unusable,
           NEW p \in Dispatches, p.phase = "wait", p.n = q.n, p.main = o, p.mate = None,
           p.tried = q.tried, p.hedged = q.hedged, p.seen = q.seen
    PROVE  Coherent(p, l)
  <1> USE DEF Coherent
  <1>d. w \in q.tried /\ o \in q.tried /\ w \in Targets /\ o \in Targets /\ q.hedged /\ Hedging /\ q.n < MaxAttempts
    BY DEF Paired, Racing, Dispatches
  <1>1. Untried(p, l) /\ AtRest(p, l) /\ Bodied(p, l) /\ Together(p, l) /\ Watched(p, l)
    BY DEF Untried, AtRest, Bodied, Together, Watched
  <1>2. Paired(p, l) /\ Shown(p, l)
    BY <1>d, TargetsAssumption DEF Paired, Shown
  <1>3. Racing(p, l)
    BY <1>d DEF Racing, Spent
  <1>4. Counted(p, l)
    BY DEF Counted
  <1> QED BY <1>1, <1>2, <1>3, <1>4

(* The outcome of the attempt: a body, or the next attempt.                *)
LEMMA OutcomeCoherent ==
    ASSUME NEW q \in Dispatches, NEW l \in [Targets -> Legs], Coherent(q, l), q.phase = "wait", q.mate = None,
           NEW p \in Dispatches, p.main = q.main, p.mate = None, p.tried = q.tried, p.seen = q.seen,
           \/ /\ l[q.main].at = "ready" /\ p.phase = "body" /\ p.n = q.n
           \/ /\ l[q.main].at \in Unusable /\ p.phase = "claim" /\ p.n = q.n + 1
              /\ l[q.main].at = "retry" => p.last
              /\ q.last => p.last
    PROVE  Coherent(p, l)
  <1> USE DEF Coherent
  <1>d. q.main \in q.tried /\ q.main \in Targets /\ q.n \in Nat /\ q.n < MaxAttempts /\ MaxAttempts \in Nat
    BY AttemptsAssumption DEF Paired, Dispatches
  <1>c. Cardinality(Offers(l)) <= Width * (q.n + 1)
    <2>1. Cardinality(Offers(l)) <= Width * q.n + (IF q.hedged THEN 2 ELSE 1)
      BY DEF Counted
    <2>2. q.hedged => Hedging
      BY DEF Racing
    <2>3. Cardinality(Offers(l)) \in Nat
      BY OffersSize
    <2> QED BY <2>1, <2>2, <2>3, <1>d, WidthTimes
  <1>1. CASE l[q.main].at = "ready" /\ p.phase = "body" /\ p.n = q.n
    <2>1. /\ Untried(p, l) /\ AtRest(p, l) /\ Racing(p, l)
          /\ Bodied(p, l) /\ Together(p, l) /\ Watched(p, l) /\ Shown(p, l)
      BY <1>1 DEF Untried, AtRest, Racing, Bodied, Together, Watched, Shown
    <2>2. Paired(p, l)
      BY <1>1, <1>d, TargetsAssumption DEF Paired
    <2>3. Counted(p, l)
      BY <1>1, <1>c DEF Counted
    <2> QED BY <2>1, <2>2, <2>3
  <1>2. CASE /\ l[q.main].at \in Unusable /\ p.phase = "claim" /\ p.n = q.n + 1
             /\ l[q.main].at = "retry" => p.last
             /\ q.last => p.last
    <2>1. \A t \in Targets : l[t].at \in Spent
      BY <1>2, <1>d, TargetsAssumption DEF Racing, Spent, Usable, Unusable
    <2>2. /\ Untried(p, l) /\ AtRest(p, l) /\ Racing(p, l)
          /\ Bodied(p, l) /\ Together(p, l) /\ Watched(p, l) /\ Paired(p, l)
      BY <1>2, <2>1 DEF Untried, AtRest, Racing, Bodied, Together, Watched, Paired
    <2>3. Shown(p, l)
      <3> SUFFICES ASSUME ~Hedging, ~p.last, NEW t \in Targets PROVE l[t].at # "retry"
        BY <1>2 DEF Shown
      <3>1. CASE t = q.main
        BY <3>1, <1>2
      <3>2. CASE t # q.main
        BY <3>2, <1>2 DEF Shown
      <3> QED BY <3>1, <3>2
    <2>4. Counted(p, l)
      BY <1>2, <1>c DEF Counted
    <2> QED BY <2>2, <2>3, <2>4
  <1> QED BY <1>1, <1>2

(* The body starts, or a chunk of it reaches the client.                   *)
LEMMA BodyCoherent ==
    ASSUME NEW q \in Dispatches, NEW l \in [Targets -> Legs], Coherent(q, l), q.phase = "body",
           l[q.main].at \in {"ready", "stream"},
           NEW p \in Dispatches, p.phase = "body", p.n = q.n, p.tried = q.tried, p.main = q.main, p.mate = q.mate,
           p.again = q.again, p.seen = q.seen \/ p.seen = q.seen \cup {q.main},
           NEW x \in Legs, x.at = "stream", NEW m, m = [l EXCEPT ![q.main] = x]
    PROVE  Coherent(p, m)
  <1> USE DEF Coherent
  <1>d. q.main \in q.tried /\ q.main \in Targets
    BY DEF Paired, Dispatches
  <1>m. m \in [Targets -> Legs] /\ m[q.main] = x /\ \A u \in Targets \ {q.main} : m[u] = l[u]
    BY <1>d
  <1>1. Untried(p, m)
    BY <1>d, <1>m DEF Untried
  <1>2. AtRest(p, m) /\ Racing(p, m) /\ Shown(p, m) /\ Paired(p, m)
    BY DEF AtRest, Racing, Shown, Paired
  <1>3. Bodied(p, m) /\ Watched(p, m)
    BY <1>m DEF Bodied, Watched
  <1>4. Counted(p, m)
    <2>1. Offers(m) = Offers(l)
      BY <1>d, <1>m, OffersOneMore
    <2> QED BY <2>1, <1>m DEF Counted
  <1>5. Together(p, m)
    BY <1>d, <1>m DEF Together, Paired, Dispatches
  <1> QED BY <1>1, <1>2, <1>3, <1>4, <1>5

(* It died, and a replacement has its turn: the one more that was left ... *)
LEMMA ReopenCoherent ==
    ASSUME NEW q \in Dispatches, NEW l \in [Targets -> Legs], Coherent(q, l), q.phase = "body",
           l[q.main].at = "stream", q.seen = {}, q.again, q.n + 1 < MaxAttempts,
           NEW t \in Targets \ q.tried,
           NEW p \in Dispatches, p.phase = "body", p.n = q.n, p.tried = q.tried \cup {t}, p.main = q.main, p.mate = t,
           p.again = q.again, p.seen = q.seen,
           NEW x \in Legs, x.at \in Turns, NEW y \in Legs, y.at = "reopen",
           NEW m, m = [l EXCEPT ![q.main] = y, ![t] = x]
    PROVE  Coherent(p, m)
  <1> USE DEF Coherent
  <1>d. /\ q.main \in q.tried /\ q.main \in Targets /\ t # q.main
        /\ q.n \in Nat /\ q.n < MaxAttempts /\ MaxAttempts \in Nat
    BY AttemptsAssumption DEF Paired, Dispatches
  <1>m. /\ m \in [Targets -> Legs] /\ m[q.main] = y /\ m[t] = x
        /\ \A u \in Targets \ {q.main, t} : m[u] = l[u]
    BY <1>d
  <1>1. Untried(p, m)
    BY <1>d, <1>m DEF Untried
  <1>2. AtRest(p, m) /\ Racing(p, m) /\ Shown(p, m)
    BY DEF AtRest, Racing, Shown
  <1>3. Paired(p, m) /\ Bodied(p, m) /\ Watched(p, m)
    BY <1>d, <1>m, TargetsAssumption DEF Paired, Bodied, Watched
  <1>4. Counted(p, m)
    <2>0. \A u \in Targets \ {t} : m[u].at = "no" <=> l[u].at = "no"
      BY <1>d, <1>m
    <2>1. Cardinality(Offers(m)) <= Cardinality(Offers(l)) + 1
      BY <1>m, <2>0, OffersOneMore
    <2>2. Cardinality(Offers(l)) <= Width * (q.n + 1)
      BY DEF Counted
    <2>3. Cardinality(Offers(m)) \in Nat /\ Cardinality(Offers(l)) \in Nat
      BY OffersSize
    <2>4. Cardinality(Offers(m)) <= Width * MaxAttempts
      BY <1>d, <2>1, <2>2, <2>3, WidthTimes
    <2> QED BY <2>4, <1>m DEF Counted
  <1>5. Together(p, m)
    BY <1>m DEF Together
  <1> QED BY <1>1, <1>2, <1>3, <1>4, <1>5

(* ... and takes over, with no reopen of its own.                          *)
LEMMA ReplaceCoherent ==
    ASSUME NEW q \in Dispatches, NEW l \in [Targets -> Legs], Coherent(q, l), q.phase = "body",
           l[q.main].at = "reopen", l[q.mate].at = "ready",
           NEW p \in Dispatches, p.phase = "body", p.n = q.n, p.tried = q.tried, p.main = q.mate, p.mate = None,
           p.again = FALSE, p.seen = q.seen,
           NEW x \in Legs, x.at = "gone", NEW y \in Legs, y.at = "stream",
           NEW m, m = [l EXCEPT ![q.main] = x, ![q.mate] = y]
    PROVE  Coherent(p, m)
  <1> USE DEF Coherent
  <1>d. /\ q.main \in q.tried /\ q.main \in Targets /\ q.mate \in q.tried /\ q.mate \in Targets /\ q.mate # q.main
        /\ q.n < MaxAttempts /\ q.seen = {}
    BY DEF Paired, Bodied, Dispatches
  <1>m. /\ m \in [Targets -> Legs] /\ m[q.main] = x /\ m[q.mate] = y
        /\ \A u \in Targets \ {q.main, q.mate} : m[u] = l[u]
    BY <1>d
  <1>1. Untried(p, m)
    BY <1>d, <1>m DEF Untried
  <1>2. AtRest(p, m) /\ Racing(p, m) /\ Shown(p, m)
    BY DEF AtRest, Racing, Shown
  <1>3. Paired(p, m) /\ Bodied(p, m) /\ Watched(p, m)
    BY <1>d, <1>m, TargetsAssumption DEF Paired, Bodied, Watched
  <1>4. Counted(p, m)
    <2>1. Offers(m) = Offers(l)
      BY <1>d, <1>m DEF Offers
    <2> QED BY <2>1 DEF Counted
  <1>5. Together(p, m)
    BY DEF Together
  <1> QED BY <1>1, <1>2, <1>3, <1>4, <1>5

----------------------------------------------------------------------------
(* The books, when one request's legs become m.                            *)

LEMMA BalancedIs == Balanced <=> BooksBalance
  BY DEF Balanced, BooksBalance, Held, Charged

LEMMA HeldFinite ==
    ASSUME NEW t PROVE Held(t) \in SUBSET Requests /\ IsFiniteSet(Held(t)) /\ Cardinality(Held(t)) \in Nat
  <1>1. Held(t) \in SUBSET Requests
    BY DEF Held
  <1> QED BY <1>1, FiniteAssumption, FS_Subset, FS_CardinalityType

LEMMA HeldAfter ==
    ASSUME leg \in [Requests -> [Targets -> Legs]], NEW r \in Requests, NEW m \in [Targets -> Legs],
           leg' = [leg EXCEPT ![r] = m], NEW t \in Targets
    PROVE  Held(t)' = IF m[t].at \in Holding THEN Held(t) \cup {r} ELSE Held(t) \ {r}
  BY DEF Held

LEMMA BooksKept ==
    ASSUME Books, leg \in [Requests -> [Targets -> Legs]],
           NEW r \in Requests, NEW m \in [Targets -> Legs], leg' = [leg EXCEPT ![r] = m],
           Unsettled, \A t \in Targets : m[t].at \in Holding <=> leg[r][t].at \in Holding
    PROVE  Books'
  <1>1. ASSUME NEW t \in Targets PROVE Held(t)' = Held(t)
    <2>1. r \in Held(t) <=> m[t].at \in Holding
      BY DEF Held
    <2>2. Held(t)' = IF m[t].at \in Holding THEN Held(t) \cup {r} ELSE Held(t) \ {r}
      BY HeldAfter
    <2> QED BY <2>1, <2>2
  <1>2. \A t \in Targets : outstanding[t] = Cardinality(Held(t)) /\ (t \in Local => kv[t] = Charged(Held(t)))
    BY DEF Books, Balanced
  <1>3. Balanced'
    BY <1>1, <1>2 DEF Balanced, Unsettled
  <1> QED BY <1>3 DEF Books, Unsettled, WithinBudget

(* settle() of the legs on S, each of which held a place and does so no    *)
(* more.                                                                   *)
LEMMA BooksSettled ==
    ASSUME Books, leg \in [Requests -> [Targets -> Legs]],
           NEW r \in Requests, NEW m \in [Targets -> Legs], leg' = [leg EXCEPT ![r] = m],
           NEW S \in SUBSET Targets, Settle(r, S),
           \A t \in S : leg[r][t].at \in Holding /\ m[t].at \notin Holding,
           \A t \in Targets \ S : m[t].at \in Holding <=> leg[r][t].at \in Holding
    PROVE  Books'
  <1>c. Cost[r] \in Nat
    BY CostAssumption
  <1>d. /\ \A t \in Targets : outstanding'[t] = IF t \in S THEN Down(outstanding[t], 1) ELSE outstanding[t]
        /\ \A t \in Targets : kv'[t] = IF t \in S \cap Local THEN Down(kv[t], Cost[r]) ELSE kv[t]
        /\ \A t \in Targets : outstanding[t] \in Nat /\ kv[t] \in Nat
    BY DEF Settle, Books
  <1>b. \A t \in Targets : outstanding[t] = Cardinality(Held(t)) /\ (t \in Local => kv[t] = Charged(Held(t)))
    BY DEF Books, Balanced
  <1>t. /\ kv' \in [Targets -> Nat] /\ outstanding' \in [Targets -> Nat]
        /\ \A t \in Targets : kv'[t] <= kv[t]
    BY <1>c, <1>d DEF Settle, Down
  <1>1. ASSUME NEW t \in Targets
        PROVE  outstanding'[t] = Cardinality(Held(t)') /\ (t \in Local => kv'[t] = Charged(Held(t)'))
    <2>0. Held(t)' = IF m[t].at \in Holding THEN Held(t) \cup {r} ELSE Held(t) \ {r}
      BY HeldAfter
    <2>1. CASE t \in S
      <3> DEFINE h == Held(t)
      <3>1. r \in h /\ Held(t)' = h \ {r}
        BY <2>0, <2>1 DEF Held
      <3>2. h \in SUBSET Requests /\ IsFiniteSet(h) /\ Cardinality(h) \in Nat
        BY HeldFinite
      <3> HIDE DEF h
      <3>3. IsFiniteSet(h \ {r}) /\ Cardinality(h \ {r}) = Cardinality(h) - 1 /\ Cardinality(h \ {r}) \in Nat
        BY <3>1, <3>2, FS_RemoveElement, FS_CardinalityType
      <3>4. Charged(h) = Cost[r] + Charged(h \ {r}) /\ Charged(h \ {r}) \in Nat
        BY <3>1, <3>2, ChargedLess, ChargedOne
      <3>5. outstanding'[t] = Cardinality(h \ {r})
        <4>1. outstanding'[t] = Down(Cardinality(h), 1)
          BY <2>1, <1>d, <1>b DEF h
        <4> QED BY <4>1, <3>2, <3>3 DEF Down
      <3>6. t \in Local => kv'[t] = Charged(h \ {r})
        <4>1. t \in Local => kv'[t] = Down(Charged(h), Cost[r])
          BY <2>1, <1>d, <1>b DEF h
        <4>2. Down(Charged(h), Cost[r]) = Charged(h \ {r})
          BY <3>4, <1>c DEF Down
        <4> QED BY <4>1, <4>2
      <3> QED BY <3>1, <3>5, <3>6
    <2>2. CASE t \notin S
      <3>1. r \in Held(t) <=> m[t].at \in Holding
        BY <2>2 DEF Held
      <3>2. Held(t)' = Held(t)
        BY <3>1, <2>0
      <3> QED BY <3>2, <2>2, <1>b, <1>d
    <2> QED BY <2>1, <2>2
  <1>2. Balanced'
    BY <1>1 DEF Balanced
  <1>3. WithinBudget'
    BY <1>d, <1>t, CostAssumption DEF WithinBudget, Books
  <1> QED BY <1>2, <1>3, <1>t DEF Books

(* commit() of the leg on t, which check() found room for.                 *)
LEMMA BooksTaken ==
    ASSUME Books, leg \in [Requests -> [Targets -> Legs]],
           NEW r \in Requests, NEW m \in [Targets -> Legs], leg' = [leg EXCEPT ![r] = m],
           NEW t \in Targets, t \in Local => Fits(r, t),
           outstanding' = [outstanding EXCEPT ![t] = @ + 1],
           kv' = IF t \in Local THEN [kv EXCEPT ![t] = @ + Cost[r]] ELSE kv,
           leg[r][t].at \notin Holding, m[t].at \in Holding,
           \A u \in Targets \ {t} : m[u].at \in Holding <=> leg[r][u].at \in Holding
    PROVE  Books'
  <1>c. Cost[r] \in Nat /\ KvBudget \in Nat
    BY CostAssumption
  <1>k. \A u \in Targets : outstanding[u] \in Nat /\ kv[u] \in Nat
    BY DEF Books
  <1>b. \A u \in Targets : outstanding[u] = Cardinality(Held(u)) /\ (u \in Local => kv[u] = Charged(Held(u)))
    BY DEF Books, Balanced
  <1>t. kv' \in [Targets -> Nat] /\ outstanding' \in [Targets -> Nat]
    BY <1>c DEF Books
  <1>1. ASSUME NEW u \in Targets
        PROVE  outstanding'[u] = Cardinality(Held(u)') /\ (u \in Local => kv'[u] = Charged(Held(u)'))
    <2>0. Held(u)' = IF m[u].at \in Holding THEN Held(u) \cup {r} ELSE Held(u) \ {r}
      BY HeldAfter
    <2>1. CASE u = t
      <3> DEFINE h == Held(t)
      <3>1. r \notin h /\ Held(t)' = h \cup {r}
        BY <2>0, <2>1 DEF Held
      <3>2. h \in SUBSET Requests /\ IsFiniteSet(h) /\ Cardinality(h) \in Nat
        BY HeldFinite
      <3> HIDE DEF h
      <3>3. Cardinality(h \cup {r}) = Cardinality(h) + 1
        BY <3>1, <3>2, FS_AddElement
      <3>4. Charged(h \cup {r}) = Cost[r] + Charged(h) /\ Charged(h) \in Nat
        <4>1. (h \cup {r}) \ {r} = h /\ h \cup {r} \in SUBSET Requests
          BY <3>1, <3>2
        <4>2. r \in h \cup {r}
          OBVIOUS
        <4>3. Charged(h \cup {r}) = Cost[r] + Charged((h \cup {r}) \ {r})
          BY <4>1, <4>2, ChargedLess
        <4> QED BY <4>1, <4>3, <3>2, ChargedOne
      <3>5. outstanding'[t] = Cardinality(h) + 1 /\ (t \in Local => kv'[t] = Charged(h) + Cost[r])
        BY <1>b DEF h, Books
      <3> QED BY <2>1, <3>1, <3>3, <3>4, <3>5, <1>c
    <2>2. CASE u # t
      <3>1. r \in Held(u) <=> m[u].at \in Holding
        BY <2>2 DEF Held
      <3>2. Held(u)' = Held(u)
        BY <3>1, <2>0
      <3>3. outstanding'[u] = outstanding[u] /\ kv'[u] = kv[u]
        BY <2>2 DEF Books
      <3> QED BY <3>2, <3>3, <1>b
    <2> QED BY <2>1, <2>2
  <1>2. Balanced'
    BY <1>1 DEF Balanced
  <1>3. WithinBudget'
    <2> SUFFICES ASSUME KvBudget > 0, NEW u \in Targets PROVE kv'[u] <= KvBudget
      BY DEF WithinBudget
    <2>1. kv[u] <= KvBudget
      BY DEF WithinBudget, Books
    <2>2. CASE u = t /\ t \in Local
      <3>1. kv'[u] = kv[t] + Cost[r]
        BY <2>2 DEF Books
      <3> QED BY <2>2, <3>1, <1>c DEF Fits
    <2>3. CASE ~(u = t /\ t \in Local)
      <3>1. kv'[u] = kv[u]
        BY <2>3 DEF Books
      <3> QED BY <2>1, <3>1
    <2> QED BY <2>2, <2>3
  <1> QED BY <1>2, <1>3, <1>t DEF Books

----------------------------------------------------------------------------
(* One step of one request: what it knows becomes p, its legs become m,    *)
(* the books follow the legs, and a probe is not lost.                     *)

Kept(r, m) == Unsettled /\ \A t \in Targets : m[t].at \in Holding <=> leg[r][t].at \in Holding
Settled(r, m, S) ==
    /\ Settle(r, S)
    /\ \A t \in S : leg[r][t].at \in Holding /\ m[t].at \notin Holding
    /\ \A t \in Targets \ S : m[t].at \in Holding <=> leg[r][t].at \in Holding
Taken1(r, m, t) ==
    /\ t \in Local => Fits(r, t)
    /\ outstanding' = [outstanding EXCEPT ![t] = @ + 1]
    /\ kv' = IF t \in Local THEN [kv EXCEPT ![t] = @ + Cost[r]] ELSE kv
    /\ leg[r][t].at \notin Holding /\ m[t].at \in Holding
    /\ \A u \in Targets \ {t} : m[u].at \in Holding <=> leg[r][u].at \in Holding

LEMMA RequestStep ==
    ASSUME GInv, NEW r \in Requests, NEW p \in Dispatches, NEW m \in [Targets -> Legs],
           Coherent(p, m), req' = [req EXCEPT ![r] = p], leg' = [leg EXCEPT ![r] = m], up' = up,
           circ' \in [Targets -> Circuits],
           \/ Kept(r, m)
           \/ \E S \in SUBSET Targets : Settled(r, m, S)
           \/ \E t \in Targets : Taken1(r, m, t),
           \A t \in Targets : circ'[t].probing =>
               Keeps(m[t]) \/ (circ[t].probing /\ ~Keeps(leg[r][t]))
    PROVE  GInv'
  <1> USE DEF GInv, TypeOK
  <1>1. req' \in [Requests -> Dispatches] /\ leg' \in [Requests -> [Targets -> Legs]]
    OBVIOUS
  <1>2. Books'
    <2>1. CASE Kept(r, m)
      BY <2>1, BooksKept DEF Kept
    <2>2. CASE \E S \in SUBSET Targets : Settled(r, m, S)
      BY <2>2, BooksSettled DEF Settled
    <2>3. CASE \E t \in Targets : Taken1(r, m, t)
      BY <2>3, BooksTaken DEF Taken1
    <2> QED BY <2>1, <2>2, <2>3
  <1>3. Consistent'
    BY <1>1 DEF Consistent
  <1>4. ProbeAccounted'
    <2> SUFFICES ASSUME NEW t \in Targets, circ'[t].probing PROVE \E q \in Requests : Keeps(leg'[q][t])
      BY DEF ProbeAccounted, Keeps
    <2>1. CASE Keeps(m[t])
      BY <2>1
    <2>2. CASE circ[t].probing /\ ~Keeps(leg[r][t])
      <3>1. PICK q \in Requests : Keeps(leg[q][t])
        BY <2>2 DEF ProbeAccounted, Keeps
      <3>2. leg'[q] = leg[q]
        BY <3>1, <2>2
      <3> QED BY <3>1, <3>2
    <2> QED BY <2>1, <2>2
  <1> QED BY <1>1, <1>2, <1>3, <1>4 DEF Books

LEMMA CircuitOps ==
    ASSUME NEW c \in Circuits
    PROVE  /\ Begun(c) \in Circuits /\ Abandoned(c) \in Circuits /\ Failed(c) \in Circuits
           /\ Succeeded(c) \in Circuits /\ Cooled(c) \in Circuits /\ Closed \in Circuits
           /\ Begun(c).probing = (c.bench = "cooled")
           /\ ~Abandoned(c).probing /\ ~Failed(c).probing /\ ~Succeeded(c).probing
           /\ Cooled(c).probing = c.probing /\ ~Closed.probing
  <1>b. (c.bench = "cooled") \in BOOLEAN
    OBVIOUS
  <1>1. Begun(c) \in Circuits
    BY <1>b DEF Circuits, Begun
  <1>2. Begun(c).probing = (c.bench = "cooled")
    BY DEF Circuits, Begun
  <1>3. Abandoned(c) \in Circuits /\ ~Abandoned(c).probing
    BY DEF Circuits, Abandoned
  <1>4. Closed \in Circuits /\ ~Closed.probing
    BY ThresholdAssumption DEF Circuits, Closed
  <1>5. Failed(c) \in Circuits /\ ~Failed(c).probing
    <2> DEFINE n == IF c.failures < Threshold THEN c.failures + 1 ELSE Threshold
               b == IF c.bench # "closed" \/ n = Threshold THEN "cooling" ELSE "closed"
    <2>1. n \in 0 .. Threshold /\ b \in {"closed", "cooling", "cooled"}
      BY ThresholdAssumption DEF Circuits
    <2>2. Failed(c) = [failures |-> n, bench |-> b, probing |-> FALSE]
      BY DEF Failed
    <2> HIDE DEF n, b
    <2> QED BY <2>1, <2>2 DEF Circuits
  <1>6. Cooled(c) \in Circuits /\ Cooled(c).probing = c.probing
    BY DEF Circuits, Cooled
  <1> QED BY <1>1, <1>2, <1>3, <1>4, <1>5, <1>6 DEF Succeeded

LEMMA Typed ==
    ASSUME GInv, NEW r \in Requests
    PROVE  /\ req[r] \in Dispatches /\ leg[r] \in [Targets -> Legs] /\ Coherent(req[r], leg[r])
           /\ \A t \in Targets : leg[r][t] \in Legs /\ leg[r][t].at \in Places /\ leg[r][t].probe \in BOOLEAN
           /\ circ \in [Targets -> Circuits]
           /\ leg \in [Requests -> [Targets -> Legs]] /\ req \in [Requests -> Dispatches]
  BY DEF GInv, TypeOK, Consistent, Legs

LEMMA MoveIs ==
    ASSUME GInv, NEW r \in Requests, NEW t \in Targets, NEW at \in Places, NEW v \in BOOLEAN, Move(r, t, at, v)
    PROVE  LET x == [at |-> at, probe |-> leg[r][t].probe /\ ~v]
               m == [leg[r] EXCEPT ![t] = x]
           IN  /\ x \in Legs /\ m \in [Targets -> Legs] /\ leg' = [leg EXCEPT ![r] = m]
               /\ m[t] = x /\ m[t].at = at /\ (v => ~Keeps(m[t]))
               /\ \A u \in Targets \ {t} : m[u] = leg[r][u]
               /\ (at \in Unreached \cup {"cut", "stranded"} /\ ~v /\ Keeps(leg[r][t]) => Keeps(m[t]))
  <1> DEFINE x == [at |-> at, probe |-> leg[r][t].probe /\ ~v]
             m == [leg[r] EXCEPT ![t] = x]
  <1>1. leg \in [Requests -> [Targets -> Legs]] /\ leg[r][t].probe \in BOOLEAN /\ leg[r] \in [Targets -> Legs]
    BY Typed
  <1>2. x \in Legs
    BY <1>1 DEF Legs
  <1>3. leg' = [leg EXCEPT ![r] = m]
    BY <1>1 DEF Move
  <1>4. m \in [Targets -> Legs] /\ m[t] = x /\ \A u \in Targets \ {t} : m[u] = leg[r][u]
    BY <1>1, <1>2
  <1>5. x.at = at /\ x.probe = (leg[r][t].probe /\ ~v)
    OBVIOUS
  <1> HIDE DEF x, m
  <1>6. /\ v => ~Keeps(m[t])
        /\ at \in Unreached \cup {"cut", "stranded"} /\ ~v /\ Keeps(leg[r][t]) => Keeps(m[t])
    BY <1>4, <1>5, Zenon DEF Keeps
  <1> QED BY <1>2, <1>3, <1>4, <1>5, <1>6 DEF x, m

----------------------------------------------------------------------------
(* One target's turn.                                                      *)

LEMMA AttemptStep ==
    ASSUME GInv, NEW r \in Requests, NEW t \in Targets, leg[r][t].at \in InProgress,
           NEW at \in InProgress \cup Usable \cup Unusable, NEW v \in BOOLEAN, Move(r, t, at, v),
           req' = req, up' = up,
           \/ circ' = circ /\ (leg[r][t].at \notin Unreached \/ (at \in Unreached /\ ~v))
           \/ \E c \in Circuits : ~c.probing /\ circ' = [circ EXCEPT ![t] = c],
           \/ Unsettled /\ (at \in Holding <=> leg[r][t].at \in Holding)
           \/ Settle(r, {t}) /\ leg[r][t].at \in Holding /\ at \notin Holding
           \/ /\ t \in Local => Fits(r, t)
              /\ outstanding' = [outstanding EXCEPT ![t] = @ + 1]
              /\ kv' = IF t \in Local THEN [kv EXCEPT ![t] = @ + Cost[r]] ELSE kv
              /\ leg[r][t].at \notin Holding /\ at \in Holding
    PROVE  GInv'
  <1> DEFINE x == [at |-> at, probe |-> leg[r][t].probe /\ ~v]
             m == [leg[r] EXCEPT ![t] = x]
  <1>p. at \in Places
    BY DEF Places
  <1>1. /\ x \in Legs /\ m \in [Targets -> Legs] /\ leg' = [leg EXCEPT ![r] = m]
        /\ m[t] = x /\ m[t].at = at /\ x.at = at /\ (v => ~Keeps(m[t]))
        /\ \A u \in Targets \ {t} : m[u] = leg[r][u]
        /\ (at \in Unreached \cup {"cut", "stranded"} /\ ~v /\ Keeps(leg[r][t]) => Keeps(m[t]))
    BY <1>p, MoveIs
  <1>2. Coherent(req[r], m)
    BY <1>1, Typed, TurnCoherent
  <1> HIDE DEF x, m
  <1>3. /\ req[r] \in Dispatches /\ req' = [req EXCEPT ![r] = req[r]]
    BY Typed
  <1>4. circ' \in [Targets -> Circuits]
    BY Typed
  <1>5. \A u \in Targets : circ'[u].probing => Keeps(m[u]) \/ (circ[u].probing /\ ~Keeps(leg[r][u]))
    <2> SUFFICES ASSUME NEW u \in Targets, circ'[u].probing
                 PROVE  Keeps(m[u]) \/ (circ[u].probing /\ ~Keeps(leg[r][u]))
      OBVIOUS
    <2>1. CASE u # t
      <3>1. circ'[u] = circ[u] /\ m[u] = leg[r][u]
        BY <2>1, <1>1, Typed
      <3> QED BY <3>1, Zenon
    <2>2. CASE u = t
      <3>1. circ' = circ /\ (leg[r][t].at \notin Unreached \/ (at \in Unreached /\ ~v))
        BY <2>2, Typed
      <3>2. CASE leg[r][t].at \notin Unreached
        <4>1. ~Keeps(leg[r][t])
          BY <3>2 DEF Keeps, InProgress, Unreached, Early
        <4> QED BY <2>2, <3>1, <4>1
      <3>3. CASE at \in Unreached /\ ~v
        BY <2>2, <3>1, <3>3, <1>1, Zenon
      <3> QED BY <3>1, <3>2, <3>3
    <2> QED BY <2>1, <2>2
  <1>6. \/ Kept(r, m)
        \/ \E S \in SUBSET Targets : Settled(r, m, S)
        \/ \E u \in Targets : Taken1(r, m, u)
    <2>1. CASE Unsettled /\ (at \in Holding <=> leg[r][t].at \in Holding)
      BY <2>1, <1>1 DEF Kept
    <2>2. CASE Settle(r, {t}) /\ leg[r][t].at \in Holding /\ at \notin Holding
      <3>1. Settled(r, m, {t})
        BY <2>2, <1>1 DEF Settled
      <3> QED BY <3>1
    <2>3. CASE /\ t \in Local => Fits(r, t)
               /\ outstanding' = [outstanding EXCEPT ![t] = @ + 1]
               /\ kv' = IF t \in Local THEN [kv EXCEPT ![t] = @ + Cost[r]] ELSE kv
               /\ leg[r][t].at \notin Holding /\ at \in Holding
      BY <2>3, <1>1 DEF Taken1
    <2> QED BY <2>1, <2>2, <2>3
  <1> QED BY <1>1, <1>2, <1>3, <1>4, <1>5, <1>6, RequestStep

LEMMA AttemptingKeeps ==
    ASSUME GInv, NEW r \in Requests, NEW t \in Targets, Attempting(r, t) PROVE GInv'
  <1> USE DEF InProgress, Unreached, Early, Usable, Unusable, Holding
  <1>c. circ[t] \in Circuits
    BY Typed
  <1>d. /\ Abandoned(circ[t]) \in Circuits /\ ~Abandoned(circ[t]).probing
        /\ Failed(circ[t]) \in Circuits /\ ~Failed(circ[t]).probing
        /\ Succeeded(circ[t]) \in Circuits /\ ~Succeeded(circ[t]).probing
    BY <1>c, CircuitOps
  <1>1. CASE Start(r, t)
    BY <1>1, AttemptStep DEF Start
  <1>2. CASE Turned(r, t)
    <2>1. PICK at \in {"refused", "skip"} : Move(r, t, at, TRUE)
      BY <1>2 DEF Turned
    <2> QED BY <1>2, <1>d, <2>1, AttemptStep DEF Turned, Circuit, Unsettled
  <1>3. CASE Unsent(r, t)
    <2>1. PICK at \in {"pool", "skip", "answer"} : Move(r, t, at, TRUE)
      BY <1>3 DEF Unsent
    <2> QED BY <1>3, <1>d, <2>1, AttemptStep DEF Unsent, Circuit
  <1>4. CASE Connected(r, t)
    BY <1>4, AttemptStep DEF Connected
  <1>5. CASE Unreachable(r, t)
    BY <1>5, <1>d, AttemptStep DEF Unreachable, Circuit
  <1>6. CASE Answers(r, t)
    <2>1. PICK at \in {"error", "reject", "hold", "ready"} : Move(r, t, at, TRUE)
      BY <1>6 DEF Answers
    <2> QED BY <1>6, <1>d, <2>1, AttemptStep DEF Answers, Circuit
  <1>7. CASE ErrorRead(r, t)
    <2>1. PICK at \in {"retry", "answer"} : Move(r, t, at, FALSE)
      BY <1>7 DEF ErrorRead
    <2> QED BY <1>7, <2>1, AttemptStep DEF ErrorRead
  <1>8. CASE HoldEnds(r, t)
    BY <1>8, AttemptStep DEF HoldEnds
  <1>9. CASE HoldDies(r, t)
    BY <1>9, <1>d, AttemptStep DEF HoldDies, Circuit
  <1> QED BY <1>1, <1>2, <1>3, <1>4, <1>5, <1>6, <1>7, <1>8, <1>9 DEF Attempting

(* A claim: what the target's leg, its circuit and the books become.       *)
LEMMA TakeIs ==
    ASSUME NEW r \in Requests, NEW t \in Targets, NEW task \in BOOLEAN,
           NEW lg \in [Requests -> [Targets -> Legs]], NEW c \in [Targets -> Circuits],
           c[t] = circ[t], Take(r, t, task, lg, c)
    PROVE  \E x \in Legs, d \in Circuits :
              /\ leg' = [lg EXCEPT ![r] = [lg[r] EXCEPT ![t] = x]]
              /\ circ' = [c EXCEPT ![t] = d]
              /\ d.probing => Keeps(x)
              /\ x.at \in Turns
              /\ \/ x.at \notin Holding /\ Unsettled
                 \/ /\ x.at \in Holding /\ t \in Local /\ Fits(r, t)
                    /\ outstanding' = [outstanding EXCEPT ![t] = @ + 1]
                    /\ kv' = [kv EXCEPT ![t] = @ + Cost[r]]
  <1>c. circ[t] \in Circuits
    OBVIOUS
  <1>d. /\ Begun(circ[t]) \in Circuits /\ Begun(circ[t]).probing = (circ[t].bench = "cooled")
        /\ Abandoned(Begun(circ[t])) \in Circuits /\ ~Abandoned(Begun(circ[t])).probing
    BY <1>c, CircuitOps
  <1>b. (circ[t].bench = "cooled") \in BOOLEAN
    OBVIOUS
  <1>1. CASE /\ leg' = [lg EXCEPT ![r][t] = Claimed(t)]
             /\ circ' = [c EXCEPT ![t] = Begun(@)] /\ Unsettled
    <2> DEFINE x == Claimed(t)
    <2>1. x \in Legs /\ x.at = "claimed" /\ x.probe = (circ[t].bench = "cooled")
      BY <1>b DEF Claimed, Legs, Places, InProgress, Unreached, Early
    <2> HIDE DEF x
    <2>2. leg' = [lg EXCEPT ![r] = [lg[r] EXCEPT ![t] = x]]
      BY <1>1 DEF x
    <2>3. circ' = [c EXCEPT ![t] = Begun(circ[t])]
      BY <1>1
    <2>4. Begun(circ[t]).probing => Keeps(x)
      BY <2>1, <1>d, Zenon DEF Keeps, Unreached, Early
    <2>5. x.at \notin Holding /\ x.at \in Turns
      BY <2>1 DEF Holding, Turns, InProgress, Unreached, Early, Unusable
    <2> QED BY <2>1, <2>2, <2>3, <2>4, <2>5, <1>1, <1>d
  <1>2. CASE /\ t \in Local /\ Fits(r, t)
             /\ leg' = [[lg EXCEPT ![r][t] = Claimed(t)] EXCEPT ![r][t].at = "connect"]
             /\ circ' = [c EXCEPT ![t] = Begun(@)]
             /\ outstanding' = [outstanding EXCEPT ![t] = @ + 1]
             /\ kv' = [kv EXCEPT ![t] = @ + Cost[r]]
    <2> DEFINE y == Claimed(t)
               x == [y EXCEPT !.at = "connect"]
    <2>0. y \in Legs /\ y.probe = (circ[t].bench = "cooled")
      BY <1>b DEF Claimed, Legs, Places, InProgress, Unreached, Early
    <2>1. x \in Legs /\ x.at = "connect" /\ x.probe = (circ[t].bench = "cooled")
      <3> HIDE DEF y
      <3> QED BY <2>0 DEF Legs, Places, InProgress, Unreached, Early
    <2>2. leg' = [lg EXCEPT ![r] = [lg[r] EXCEPT ![t] = x]]
      <3> HIDE DEF y
      <3>1. leg' = [[lg EXCEPT ![r][t] = y] EXCEPT ![r][t].at = "connect"]
        BY <1>2 DEF y
      <3> QED BY <3>1
    <2> HIDE DEF x
    <2>3. circ' = [c EXCEPT ![t] = Begun(circ[t])]
      BY <1>2
    <2>4. Begun(circ[t]).probing => Keeps(x)
      BY <2>1, <1>d, Zenon DEF Keeps, Unreached, Early
    <2>5. x.at \in Holding /\ x.at \in Turns
      BY <2>1 DEF Holding, Turns, InProgress, Unreached, Early
    <2> QED BY <2>1, <2>2, <2>3, <2>4, <2>5, <1>2, <1>d
  <1>3. CASE /\ leg' = [lg EXCEPT ![r][t] = [at |-> "refused", probe |-> FALSE]]
             /\ circ' = [c EXCEPT ![t] = Abandoned(Begun(@))] /\ Unsettled
    <2> DEFINE x == [at |-> "refused", probe |-> FALSE]
    <2>1. x \in Legs /\ x.at = "refused"
      BY DEF Legs, Places, Unusable
    <2> HIDE DEF x
    <2>2. leg' = [lg EXCEPT ![r] = [lg[r] EXCEPT ![t] = x]]
      BY <1>3 DEF x
    <2>3. circ' = [c EXCEPT ![t] = Abandoned(Begun(circ[t]))]
      BY <1>3
    <2>5. x.at \notin Holding /\ x.at \in Turns
      BY <2>1 DEF Holding, Turns, InProgress, Unreached, Early, Unusable
    <2> QED BY <2>1, <2>2, <2>3, <2>5, <1>3, <1>d
  <1> QED BY <1>1, <1>2, <1>3 DEF Take

(* A claim of t on top of the legs as they are.                            *)
LEMMA TakenStep ==
    ASSUME GInv, NEW r \in Requests, NEW t \in Targets, leg[r][t] = NoLeg,
           NEW p \in Dispatches, req' = [req EXCEPT ![r] = p], up' = up,
           NEW x \in Legs, NEW d \in Circuits, NEW m, m = [leg[r] EXCEPT ![t] = x],
           leg' = [leg EXCEPT ![r] = m], circ' = [circ EXCEPT ![t] = d], d.probing => Keeps(x),
           \/ x.at \notin Holding /\ Unsettled
           \/ /\ x.at \in Holding /\ t \in Local /\ Fits(r, t)
              /\ outstanding' = [outstanding EXCEPT ![t] = @ + 1]
              /\ kv' = [kv EXCEPT ![t] = @ + Cost[r]],
           Coherent(p, m)
    PROVE  GInv'
  <1>2. m \in [Targets -> Legs] /\ m[t] = x /\ \A u \in Targets \ {t} : m[u] = leg[r][u]
    BY Typed
  <1>4. circ' \in [Targets -> Circuits]
    BY Typed
  <1>5. \A u \in Targets : circ'[u].probing => Keeps(m[u]) \/ (circ[u].probing /\ ~Keeps(leg[r][u]))
    <2> SUFFICES ASSUME NEW u \in Targets, circ'[u].probing
                 PROVE  Keeps(m[u]) \/ (circ[u].probing /\ ~Keeps(leg[r][u]))
      OBVIOUS
    <2>1. CASE u # t
      <3>1. circ'[u] = circ[u] /\ m[u] = leg[r][u]
        BY <2>1, <1>2, Typed
      <3> QED BY <3>1, Zenon
    <2>2. CASE u = t
      <3>1. circ'[u] = d /\ m[u] = x
        BY <2>2, <1>2, Typed
      <3> QED BY <3>1, Zenon
    <2> QED BY <2>1, <2>2
  <1>6. leg[r][t].at \notin Holding
    BY NoLegTyped DEF Holding
  <1>7. Kept(r, m) \/ Taken1(r, m, t)
    BY <1>2, <1>6 DEF Kept, Taken1
  <1> QED BY <1>2, <1>4, <1>5, <1>7, RequestStep

LEMMA TakeStep ==
    ASSUME GInv, NEW r \in Requests, NEW t \in Targets, leg[r][t] = NoLeg, NEW task \in BOOLEAN,
           Take(r, t, task, leg, circ), NEW p \in Dispatches, req' = [req EXCEPT ![r] = p], up' = up,
           \A x \in Legs : x.at \in Turns => Coherent(p, [leg[r] EXCEPT ![t] = x])
    PROVE  GInv'
  <1>1. leg \in [Requests -> [Targets -> Legs]] /\ circ \in [Targets -> Circuits]
    BY Typed
  <1>2. PICK x \in Legs, d \in Circuits :
              /\ leg' = [leg EXCEPT ![r] = [leg[r] EXCEPT ![t] = x]]
              /\ circ' = [circ EXCEPT ![t] = d]
              /\ d.probing => Keeps(x)
              /\ x.at \in Turns
              /\ \/ x.at \notin Holding /\ Unsettled
                 \/ /\ x.at \in Holding /\ t \in Local /\ Fits(r, t)
                    /\ outstanding' = [outstanding EXCEPT ![t] = @ + 1]
                    /\ kv' = [kv EXCEPT ![t] = @ + Cost[r]]
    BY <1>1, TakeIs
  <1>3. Coherent(p, [leg[r] EXCEPT ![t] = x])
    BY <1>2
  <1> QED BY <1>2, <1>3, TakenStep

(* A step that changes what the request knows and neither its legs nor the *)
(* books; a claim may be taken and given back on the way.                  *)
LEMMA ThinkStep ==
    ASSUME GInv, NEW r \in Requests, NEW p \in Dispatches, Coherent(p, leg[r]),
           req' = [req EXCEPT ![r] = p], UNCHANGED <<kv, outstanding, up, leg>>,
           \/ circ' = circ
           \/ \E t \in Targets : circ' = [circ EXCEPT ![t] = Abandoned(Begun(circ[t]))]
    PROVE  GInv'
  <1>1. circ' \in [Targets -> Circuits] /\ \A u \in Targets : circ'[u].probing => circ[u].probing
    <2>1. CASE circ' = circ
      BY <2>1, Typed
    <2>2. CASE \E t \in Targets : circ' = [circ EXCEPT ![t] = Abandoned(Begun(circ[t]))]
      <3>1. PICK t \in Targets : circ' = [circ EXCEPT ![t] = Abandoned(Begun(circ[t]))]
        BY <2>2
      <3>2. Abandoned(Begun(circ[t])) \in Circuits /\ ~Abandoned(Begun(circ[t])).probing
        BY Typed, CircuitOps
      <3> QED BY <3>1, <3>2, Typed
    <2> QED BY <2>1, <2>2
  <1>2. leg' = [leg EXCEPT ![r] = leg[r]] /\ leg[r] \in [Targets -> Legs]
    BY Typed
  <1>3. Kept(r, leg[r])
    BY DEF Kept, Unsettled
  <1>4. \A u \in Targets : circ'[u].probing => Keeps(leg[r][u]) \/ (circ[u].probing /\ ~Keeps(leg[r][u]))
    BY <1>1, Zenon
  <1> QED BY <1>1, <1>2, <1>3, <1>4, RequestStep

----------------------------------------------------------------------------
(* _dispatch.                                                              *)

LEMMA ArriveKeeps == ASSUME GInv, NEW r \in Requests, Arrive(r) PROVE GInv'
  <1> DEFINE q == req[r]
             p == [q EXCEPT !.phase = "claim"]
  <1>1. q \in Dispatches /\ leg[r] \in [Targets -> Legs] /\ Coherent(q, leg[r]) /\ req \in [Requests -> Dispatches]
    BY Typed
  <1>2. req' = [req EXCEPT ![r] = p] /\ q.phase = "new" /\ UNCHANGED <<circ, kv, outstanding, up, leg>>
    BY <1>1 DEF Arrive
  <1> HIDE DEF q
  <1>3. /\ p \in Dispatches /\ p.phase = "claim" /\ p.tried = q.tried /\ p.seen = q.seen
        /\ p.n = q.n /\ p.last = q.last
    BY <1>1 DEF Dispatches
  <1> HIDE DEF p
  <1>4. Coherent(p, leg[r])
    BY <1>1, <1>2, <1>3, ClaimingCoherent
  <1> QED BY <1>2, <1>3, <1>4, ThinkStep

LEMMA ClaimNoneKeeps == ASSUME GInv, NEW r \in Requests, ClaimNone(r) PROVE GInv'
  <1> DEFINE q == req[r]
             p == [q EXCEPT !.phase = IF q.last THEN "over" ELSE "nowhere"]
  <1>1. q \in Dispatches /\ leg[r] \in [Targets -> Legs] /\ Coherent(q, leg[r]) /\ req \in [Requests -> Dispatches]
    BY Typed
  <1>2. req' = [req EXCEPT ![r] = p] /\ q.phase = "claim" /\ UNCHANGED <<kv, outstanding, up, leg>>
    BY <1>1 DEF ClaimNone
  <1>t. up \subseteq Targets
    BY DEF GInv, TypeOK
  <1>c. circ' = circ \/ \E t \in Targets : circ' = [circ EXCEPT ![t] = Abandoned(Begun(circ[t]))]
    BY <1>t DEF ClaimNone, Circuit, Offered
  <1> HIDE DEF q
  <1>3. /\ p \in Dispatches /\ p.phase = (IF q.last THEN "over" ELSE "nowhere") /\ p.tried = q.tried /\ p.seen = q.seen
        /\ p.n = q.n /\ p.last = q.last /\ p.main = q.main
    BY <1>1 DEF Dispatches
  <1> HIDE DEF p
  <1>4. Coherent(p, leg[r])
    BY <1>1, <1>2, <1>3, ClaimingCoherent, OverCoherent
  <1> QED BY <1>2, <1>c, <1>3, <1>4, ThinkStep

LEMMA RefuseKeeps == ASSUME GInv, NEW r \in Requests, Refuse(r) PROVE GInv'
  <1> DEFINE q == req[r]
             p == [q EXCEPT !.phase = "over"]
  <1>1. q \in Dispatches /\ leg[r] \in [Targets -> Legs] /\ Coherent(q, leg[r]) /\ req \in [Requests -> Dispatches]
    BY Typed
  <1>2. req' = [req EXCEPT ![r] = p] /\ UNCHANGED <<circ, kv, outstanding, up, leg>>
    BY <1>1 DEF Refuse
  <1> HIDE DEF q
  <1>3. p \in Dispatches /\ p.phase = "over" /\ p.tried = q.tried /\ p.seen = q.seen /\ p.main = q.main
    BY <1>1 DEF Dispatches
  <1> HIDE DEF p
  <1>4. Coherent(p, leg[r])
    BY <1>1, <1>3, OverCoherent
  <1> QED BY <1>2, <1>3, <1>4, ThinkStep

(* Dispatched afresh: nothing of the first time was held, so nothing is    *)
(* forgotten with it.                                                      *)
LEMMA RecoverKeeps == ASSUME GInv, NEW r \in Requests, Recover(r) PROVE GInv'
  <1> DEFINE q == req[r]
             p == [Fresh EXCEPT !.phase = "claim", !.parked = TRUE]
             m == [t \in Targets |-> NoLeg]
  <1>1. q \in Dispatches /\ leg[r] \in [Targets -> Legs] /\ Coherent(q, leg[r]) /\ circ \in [Targets -> Circuits]
    BY Typed
  <1>2. /\ req' = [req EXCEPT ![r] = p] /\ q.phase = "nowhere" /\ UNCHANGED <<circ, kv, outstanding, up>>
        /\ leg' = [leg EXCEPT ![r] = m]
    BY DEF Recover
  <1>3. p \in Dispatches /\ p.phase = "claim" /\ p.seen = {} /\ p.n = 0
    <2>1. 0 \in 0 .. MaxAttempts
      BY AttemptsAssumption
    <2>2. Fresh \in Dispatches /\ Fresh.seen = {} /\ Fresh.n = 0
      BY <2>1 DEF Fresh, Dispatches
    <2> QED BY <2>2 DEF Dispatches
  <1>4. m \in [Targets -> Legs] /\ Coherent(p, m) /\ \A t \in Targets : m[t] = NoLeg
    BY <1>3, NoLegTyped, AfreshCoherent
  <1> HIDE DEF p, m
  <1>5. \A t \in Targets : leg[r][t].at \in Spent
    BY <1>1, <1>2 DEF Coherent, AtRest
  <1>6. Kept(r, m)
    BY <1>2, <1>4, <1>5, NoLegTyped DEF Kept, Unsettled, Spent, Unusable, Holding
  <1>7. \A t \in Targets : ~Keeps(leg[r][t])
    BY <1>5 DEF Keeps, Spent, Unusable, Unreached, Early
  <1>8. \A t \in Targets : circ'[t].probing => Keeps(m[t]) \/ (circ[t].probing /\ ~Keeps(leg[r][t]))
    BY <1>2, <1>7, Zenon
  <1> QED BY <1>1, <1>2, <1>3, <1>4, <1>6, <1>8, RequestStep

LEMMA ClaimKeeps == ASSUME GInv, NEW r \in Requests, Claim(r) PROVE GInv'
  <1> DEFINE q == req[r]
  <1>1. q \in Dispatches /\ leg[r] \in [Targets -> Legs] /\ Coherent(q, leg[r]) /\ req \in [Requests -> Dispatches]
    BY Typed
  <1>t. up \subseteq Targets
    BY DEF GInv, TypeOK
  <1>2. PICK S \in SUBSET {u \in Offered(r) : Busy(circ[u])}, t \in {u \in Offered(r) : ~Busy(circ[u])} :
           /\ req[r].n + Cardinality(S) < MaxAttempts
           /\ req' = [req EXCEPT ![r] =
                [@ EXCEPT !.phase = "wait", !.n = req[r].n + Cardinality(S), !.main = t, !.mate = None,
                          !.tried = req[r].tried \cup S \cup {t},
                          !.hedged = FALSE, !.again = TRUE]]
           /\ Take(r, t, Hedging, leg, circ)
    BY Zenon DEF Claim
  <1> DEFINE p == [q EXCEPT !.phase = "wait", !.n = q.n + Cardinality(S), !.main = t, !.mate = None,
                            !.tried = @ \cup S \cup {t}, !.hedged = FALSE, !.again = TRUE]
  <1>3. t \in Targets \ q.tried /\ S \subseteq Targets
    BY <1>t DEF Offered
  <1>4. Cardinality(S) \in Nat
    BY <1>3, FiniteAssumption, FS_Subset, FS_CardinalityType
  <1>u. req' = [req EXCEPT ![r] = p] /\ q.phase = "claim" /\ up' = up
    BY <1>1, <1>2 DEF Claim
  <1>k. q.n + Cardinality(S) < MaxAttempts
    BY <1>2
  <1> HIDE DEF q
  <1>n. q.n \in Nat /\ MaxAttempts \in Nat /\ q.n + Cardinality(S) \in q.n .. MaxAttempts - 1
        /\ q.n + Cardinality(S) \in 0 .. MaxAttempts
    BY <1>1, <1>k, <1>4, AttemptsAssumption DEF Dispatches
  <1>5. /\ p \in Dispatches /\ p.phase = "wait" /\ p.n = q.n + Cardinality(S) /\ p.main = t /\ p.mate = None
        /\ p.tried = q.tried \cup S \cup {t} /\ p.hedged = FALSE /\ p.last = q.last /\ p.seen = q.seen
    BY <1>1, <1>3, <1>n DEF Dispatches
  <1> HIDE DEF p
  <1>6. \A x \in Legs : Coherent(p, [leg[r] EXCEPT ![t] = x])
    BY <1>1, <1>u, <1>3, <1>5, <1>n, ClaimCoherent
  <1>7. leg[r][t] = NoLeg
    BY <1>1, <1>3 DEF Coherent, Untried
  <1> QED BY <1>2, <1>3, <1>u, <1>5, <1>6, <1>7, TakeStep, AttemptsAssumption

LEMMA HedgeKeeps == ASSUME GInv, NEW r \in Requests, Hedge(r) PROVE GInv'
  <1> DEFINE q == req[r]
  <1>1. q \in Dispatches /\ leg[r] \in [Targets -> Legs] /\ Coherent(q, leg[r]) /\ req \in [Requests -> Dispatches]
    BY Typed
  <1>t. up \subseteq Targets
    BY DEF GInv, TypeOK
  <1>2. PICK t \in {u \in Offered(r) : ~Busy(circ[u])} :
           /\ req' = [req EXCEPT ![r] = [@ EXCEPT !.hedged = TRUE, !.mate = t, !.tried = req[r].tried \cup {t}]]
           /\ Take(r, t, TRUE, leg, circ)
    BY Zenon DEF Hedge
  <1> DEFINE p == [q EXCEPT !.hedged = TRUE, !.mate = t, !.tried = @ \cup {t}]
  <1>3. t \in Targets \ q.tried
    BY <1>t DEF Offered
  <1>u. /\ req' = [req EXCEPT ![r] = p] /\ up' = up
        /\ Hedging /\ q.phase = "wait" /\ ~q.hedged /\ leg[r][q.main].at \in InProgress
    BY <1>1, <1>2 DEF Hedge
  <1> HIDE DEF q
  <1>5. /\ p \in Dispatches /\ p.phase = q.phase /\ p.n = q.n /\ p.main = q.main /\ p.mate = t
        /\ p.tried = q.tried \cup {t} /\ p.hedged = TRUE /\ p.seen = q.seen
    BY <1>1, <1>3 DEF Dispatches
  <1> HIDE DEF p
  <1>6. ASSUME NEW x \in Legs, x.at \in Turns PROVE Coherent(p, [leg[r] EXCEPT ![t] = x])
    <2> DEFINE m == [leg[r] EXCEPT ![t] = x]
    <2>1. m \in [Targets -> Legs]
      BY <1>1
    <2> QED BY <1>1, <1>u, <1>3, <1>5, <1>6, <2>1, HedgeCoherent
  <1>7. leg[r][t] = NoLeg
    BY <1>1, <1>3 DEF Coherent, Untried
  <1> QED BY <1>2, <1>3, <1>u, <1>5, <1>6, <1>7, TakeStep

LEMMA HedgeNoneKeeps == ASSUME GInv, NEW r \in Requests, HedgeNone(r) PROVE GInv'
  <1> DEFINE q == req[r]
  <1>1. q \in Dispatches /\ leg[r] \in [Targets -> Legs] /\ Coherent(q, leg[r]) /\ req \in [Requests -> Dispatches]
    BY Typed
  <1>t. up \subseteq Targets
    BY DEF GInv, TypeOK
  <1>2. PICK t \in Offered(r) \cup {None} :
           /\ req' = [req EXCEPT ![r] = [@ EXCEPT !.hedged = TRUE, !.tried = req[r].tried \cup ({t} \ {None})]]
           /\ IF t = None \/ Busy(circ[t])
              THEN UNCHANGED circ
              ELSE Circuit(t, Abandoned(Begun(circ[t])))
    BY Zenon DEF HedgeNone
  <1> DEFINE p == [q EXCEPT !.hedged = TRUE, !.tried = @ \cup ({t} \ {None})]
  <1>3. {t} \ {None} \subseteq Targets
    BY <1>t DEF Offered
  <1>c. circ' = circ \/ \E u \in Targets : circ' = [circ EXCEPT ![u] = Abandoned(Begun(circ[u]))]
    BY <1>2, <1>3 DEF Circuit
  <1>u. /\ req' = [req EXCEPT ![r] = p] /\ UNCHANGED <<kv, outstanding, up, leg>>
        /\ Hedging /\ q.phase = "wait" /\ ~q.hedged /\ leg[r][q.main].at \in InProgress
    BY <1>1, <1>2 DEF HedgeNone
  <1> HIDE DEF q
  <1>5. /\ p \in Dispatches /\ p.phase = q.phase /\ p.n = q.n /\ p.main = q.main /\ p.mate = q.mate
        /\ q.tried \subseteq p.tried /\ p.hedged = TRUE /\ p.seen = q.seen
    BY <1>1, <1>3 DEF Dispatches
  <1> HIDE DEF p
  <1>6. Coherent(p, leg[r])
    BY <1>1, <1>u, <1>5, HedgeCoherent
  <1> QED BY <1>c, <1>u, <1>5, <1>6, ThinkStep

LEMMA CancelledIs ==
    ASSUME GInv, NEW r \in Requests, NEW t \in Targets, leg[r][t].at \in InProgress, NEW at \in Cancelled(r, t)
    PROVE  /\ at \in {"cut", "gone", "stranded"}
           /\ Releases(r, t, at) = IF leg[r][t].at \in Holding /\ at \notin Holding THEN {t} ELSE {}
           /\ at \in Holding => leg[r][t].at \in Holding
           /\ leg[r][t].at \in Unreached => at # "gone"
  BY DEF Cancelled, Releases, InProgress, Unreached, Early, Holding

LEMMA DiscardedIs ==
    ASSUME GInv, NEW r \in Requests, NEW t \in Targets, leg[r][t].at \in Turns, NEW at \in Discarded(r, t)
    PROVE  /\ at \in Places /\ leg[r][t].at # "no"
           /\ Releases(r, t, at) = IF leg[r][t].at \in Holding /\ at \notin Holding THEN {t} ELSE {}
           /\ at \in Holding => leg[r][t].at \in Holding
           /\ leg[r][t].at \in Unreached => at \in {"cut", "stranded"}
  <1>1. CASE leg[r][t].at \in InProgress
    BY <1>1, CancelledIs DEF Discarded, Places, InProgress, Unreached, Early, Holding
  <1>2. CASE leg[r][t].at \notin InProgress
    BY <1>2 DEF Discarded, Releases, Turns, Usable, Unusable, Places, InProgress, Unreached, Early, Holding
  <1> QED BY <1>1, <1>2

Moved(x, at) == [at |-> at, probe |-> x.probe]
MovesOn(r, t, x, at) ==
    /\ x \in Legs /\ x.at = at /\ x.probe = leg[r][t].probe
    /\ leg' = [leg EXCEPT ![r] = [leg[r] EXCEPT ![t] = x]]

LEMMA MoveOn ==
    ASSUME GInv, NEW r \in Requests, NEW t \in Targets, NEW at \in Places, Move(r, t, at, FALSE),
           NEW x, x = Moved(leg[r][t], at)
    PROVE  MovesOn(r, t, x, at)
  <1>1. leg \in [Requests -> [Targets -> Legs]] /\ leg[r][t].probe \in BOOLEAN
    BY Typed
  <1>2. x \in Legs /\ x.at = at /\ x.probe = leg[r][t].probe
    BY <1>1 DEF Legs, Moved
  <1>3. (leg[r][t].probe /\ ~FALSE) = leg[r][t].probe
    BY <1>1
  <1>4. leg' = [leg EXCEPT ![r][t] = x]
    BY <1>3 DEF Move, Moved
  <1>5. leg' = [leg EXCEPT ![r] = [leg[r] EXCEPT ![t] = x]]
    BY <1>1, <1>4
  <1> QED BY <1>2, <1>5 DEF MovesOn

(* One leg moves on without a verdict, and is settled if it lets go.       *)
LEMMA LegStep ==
    ASSUME GInv, NEW r \in Requests, NEW o \in Targets, NEW x \in Legs, x.probe = leg[r][o].probe,
           NEW m, m = [leg[r] EXCEPT ![o] = x], leg' = [leg EXCEPT ![r] = m],
           NEW p \in Dispatches, req' = [req EXCEPT ![r] = p], up' = up, Coherent(p, m),
           circ' \in [Targets -> Circuits], \A u \in Targets : circ'[u].probing => circ[u].probing,
           \/ Settle(r, IF leg[r][o].at \in Holding /\ x.at \notin Holding THEN {o} ELSE {})
           \/ Unsettled /\ x.at \in Holding,
           x.at \in Holding => leg[r][o].at \in Holding,
           leg[r][o].at \in Unreached \cup {"cut", "stranded"} => x.at \in {"cut", "stranded"}
    PROVE  GInv'
  <1> DEFINE at == x.at
  <1>1. m \in [Targets -> Legs] /\ m[o] = x /\ \A u \in Targets \ {o} : m[u] = leg[r][u]
    BY Typed
  <1>3. \A u \in Targets : circ'[u].probing => Keeps(m[u]) \/ (circ[u].probing /\ ~Keeps(leg[r][u]))
    <2> SUFFICES ASSUME NEW u \in Targets, circ'[u].probing
                 PROVE  Keeps(m[u]) \/ (circ[u].probing /\ ~Keeps(leg[r][u]))
      OBVIOUS
    <2>1. CASE u # o
      <3>1. m[u] = leg[r][u]
        BY <2>1, <1>1
      <3> QED BY <3>1, Zenon
    <2>2. CASE u = o
      <3>1. Keeps(leg[r][o]) => Keeps(m[o])
        <4> SUFFICES ASSUME Keeps(leg[r][o]) PROVE Keeps(m[o])
          OBVIOUS
        <4>1. at \in {"cut", "stranded"} /\ x.probe
          BY DEF Keeps
        <4> QED BY <4>1, <1>1 DEF Keeps
      <3> QED BY <2>2, <3>1, Zenon
    <2> QED BY <2>1, <2>2
  <1>4. Kept(r, m) \/ \E S \in SUBSET Targets : Settled(r, m, S)
    <2>1. CASE Unsettled /\ at \in Holding
      BY <2>1, <1>1 DEF Kept
    <2>2. CASE Settle(r, IF leg[r][o].at \in Holding /\ at \notin Holding THEN {o} ELSE {})
      <3> DEFINE S == IF leg[r][o].at \in Holding /\ at \notin Holding THEN {o} ELSE {}
      <3>1. Settled(r, m, S)
        BY <2>2, <1>1 DEF Settled
      <3> QED BY <3>1
    <2> QED BY <2>1, <2>2
  <1> QED BY <1>1, <1>3, <1>4, RequestStep

(* The loser of a race is released, whatever state it is thrown away in,   *)
(* unless it is one of those that nobody settles.                          *)
LEMMA WinKeeps == ASSUME GInv, NEW r \in Requests, Win(r) PROVE GInv'
  <1> DEFINE q == req[r]
  <1>1. q \in Dispatches /\ leg[r] \in [Targets -> Legs] /\ Coherent(q, leg[r]) /\ req \in [Requests -> Dispatches]
    BY Typed
  <1>2. PICK w \in {req[r].main, req[r].mate} :
           LET l == IF w = req[r].main THEN req[r].mate ELSE req[r].main IN
           /\ leg[r][w].at \in Usable
           /\ req' = [req EXCEPT ![r] = [@ EXCEPT !.main = w, !.mate = None,
                         !.again = (w = req[r].main) /\ req[r].again]]
           /\ \E at \in Discarded(r, l) :
                 /\ Move(r, l, at, FALSE)
                 /\ Settle(r, Releases(r, l, at))
    BY Zenon DEF Win
  <1> DEFINE o == IF w = q.main THEN q.mate ELSE q.main
             p == [q EXCEPT !.main = w, !.mate = None, !.again = (w = q.main) /\ q.again]
  <1>3. PICK at \in Discarded(r, o) : Move(r, o, at, FALSE) /\ Settle(r, Releases(r, o, at))
    BY <1>2
  <1>u. req' = [req EXCEPT ![r] = p] /\ q.phase = "wait" /\ q.mate # None /\ UNCHANGED <<circ, up>>
    BY <1>1, <1>2 DEF Win
  <1>l. leg[r][w].at \in Usable /\ w \in {q.main, q.mate}
    BY <1>2
  <1> HIDE DEF q
  <1>d. /\ w \in Targets /\ o \in Targets /\ o \in {q.main, q.mate} \ {w}
        /\ leg[r][w].at \in Turns /\ leg[r][o].at \in Turns
    <2>1. q.main \in Targets /\ q.mate \in Targets /\ q.main # q.mate
      BY <1>1, <1>u DEF Coherent, Paired, Dispatches
    <2>2. leg[r][q.main].at \in Turns /\ leg[r][q.mate].at \in Turns
      BY <1>1, <1>u DEF Coherent, Together
    <2> QED BY <2>1, <2>2, <1>l
  <1>b. ((w = q.main) /\ q.again) \in BOOLEAN
    BY <1>1
  <1> HIDE DEF o
  <1>5. /\ p \in Dispatches /\ p.phase = q.phase /\ p.n = q.n /\ p.main = w /\ p.mate = None
        /\ p.tried = q.tried /\ p.hedged = q.hedged /\ p.seen = q.seen
    BY <1>1, <1>d, <1>b DEF Dispatches
  <1> HIDE DEF p
  <1>6. /\ at \in Places /\ leg[r][o].at # "no"
        /\ Releases(r, o, at) = IF leg[r][o].at \in Holding /\ at \notin Holding THEN {o} ELSE {}
        /\ at \in Holding => leg[r][o].at \in Holding
        /\ leg[r][o].at \in Unreached => at \in {"cut", "stranded"}
    BY <1>d, DiscardedIs
  <1> DEFINE x == Moved(leg[r][o], at)
  <1>7. /\ x \in Legs /\ x.at = at /\ x.probe = leg[r][o].probe
        /\ leg' = [leg EXCEPT ![r] = [leg[r] EXCEPT ![o] = x]]
    <2>1. Move(r, o, at, FALSE) /\ at \in Places /\ o \in Targets
      BY <1>d, <1>3, <1>6
    <2>2. MovesOn(r, o, x, at)
      BY <2>1, MoveOn
    <2> QED BY <2>2 DEF MovesOn
  <1> HIDE DEF x
  <1> DEFINE m == [leg[r] EXCEPT ![o] = x]
  <1>8. Coherent(p, m)
    BY <1>1, <1>u, <1>l, <1>d, <1>5, <1>6, <1>7, WinCoherent
  <1>9. circ' \in [Targets -> Circuits] /\ \A u \in Targets : circ'[u].probing => circ[u].probing
    BY <1>u, Typed
  <1>h. leg[r][o].at \in Unreached \cup {"cut", "stranded"} => at \in {"cut", "stranded"}
    BY <1>d, <1>6 DEF Turns, InProgress, Unreached, Early, Usable, Unusable
  <1> HIDE DEF m
  <1> QED BY <1>3, <1>u, <1>d, <1>5, <1>6, <1>7, <1>8, <1>9, <1>h, LegStep DEF m

LEMMA YieldKeeps == ASSUME GInv, NEW r \in Requests, Yield(r) PROVE GInv'
  <1> DEFINE q == req[r]
  <1>1. q \in Dispatches /\ leg[r] \in [Targets -> Legs] /\ Coherent(q, leg[r]) /\ req \in [Requests -> Dispatches]
    BY Typed
  <1>2. PICK w \in {req[r].main, req[r].mate} :
           LET l == IF w = req[r].main THEN req[r].mate ELSE req[r].main IN
           /\ leg[r][w].at \in Unusable
           /\ req' = [req EXCEPT ![r] = [@ EXCEPT !.main = l, !.mate = None,
                         !.again = (l = req[r].main) /\ req[r].again]]
    BY Zenon DEF Yield
  <1> DEFINE o == IF w = q.main THEN q.mate ELSE q.main
             p == [q EXCEPT !.main = o, !.mate = None, !.again = (o = q.main) /\ q.again]
  <1>u. /\ req' = [req EXCEPT ![r] = p] /\ q.phase = "wait" /\ q.mate # None
        /\ UNCHANGED <<circ, kv, outstanding, up, leg>>
    BY <1>1, <1>2 DEF Yield
  <1>l. leg[r][w].at \in Unusable /\ w \in {q.main, q.mate}
    BY <1>2
  <1> HIDE DEF q
  <1>d. w \in Targets /\ o \in Targets /\ o \in {q.main, q.mate} \ {w}
    BY <1>1, <1>u, <1>l DEF Coherent, Paired, Dispatches
  <1>b. ((o = q.main) /\ q.again) \in BOOLEAN
    BY <1>1
  <1> HIDE DEF o
  <1>5. /\ p \in Dispatches /\ p.phase = q.phase /\ p.n = q.n /\ p.main = o /\ p.mate = None
        /\ p.tried = q.tried /\ p.hedged = q.hedged /\ p.seen = q.seen
    BY <1>1, <1>d, <1>b DEF Dispatches
  <1> HIDE DEF p
  <1>6. Coherent(p, leg[r])
    BY <1>1, <1>u, <1>l, <1>d, <1>5, YieldCoherent
  <1> QED BY <1>u, <1>5, <1>6, ThinkStep

LEMMA OutcomeKeeps == ASSUME GInv, NEW r \in Requests, Outcome(r) PROVE GInv'
  <1> DEFINE q == req[r]
             at == leg[r][q.main].at
  <1>1. q \in Dispatches /\ leg[r] \in [Targets -> Legs] /\ Coherent(q, leg[r]) /\ req \in [Requests -> Dispatches]
    BY Typed
  <1>2. PICK phase \in {"body", "over", "claim"} :
           /\ \/ at = "ready" /\ phase = "body"
              \/ at \in {"answer", "refused"} /\ phase = "over"
              \/ at = "skip" /\ phase = "claim"
              \/ at \in {"retry", "pool"} /\ phase \in {"claim", "over"}
           /\ req' = [req EXCEPT ![r] = [@ EXCEPT !.phase = phase,
                          !.n = IF phase = "claim" THEN req[r].n + 1 ELSE req[r].n,
                          !.last = req[r].last \/ at \in {"retry", "pool"}]]
    <2>1. at \in {"ready", "answer", "retry", "pool", "skip", "refused"}
      BY DEF Outcome, Usable, Unusable
    <2>2. PICK phase \in CASE at = "ready" -> {"body"}
                         [] at \in {"answer", "refused"} -> {"over"}
                         [] at = "skip" -> {"claim"}
                         [] at \in {"retry", "pool"} -> {"claim", "over"} :
             req' = [req EXCEPT ![r] =
                [@ EXCEPT !.phase = phase,
                          !.n = IF phase = "claim" THEN req[r].n + 1 ELSE req[r].n,
                          !.last = req[r].last \/ at \in {"retry", "pool"}]]
      BY Zenon DEF Outcome
    <2> HIDE DEF at
    <2>3. /\ \/ at = "ready" /\ phase = "body"
             \/ at \in {"answer", "refused"} /\ phase = "over"
             \/ at = "skip" /\ phase = "claim"
             \/ at \in {"retry", "pool"} /\ phase \in {"claim", "over"}
          /\ phase \in {"body", "over", "claim"}
      BY <2>1, <2>2
    <2> QED BY <2>2, <2>3
  <1> DEFINE n == IF phase = "claim" THEN q.n + 1 ELSE q.n
             last == q.last \/ at \in {"retry", "pool"}
             p == [q EXCEPT !.phase = phase, !.n = n, !.last = last]
  <1>u. /\ req' = [req EXCEPT ![r] = p] /\ q.phase = "wait" /\ q.mate = None
        /\ UNCHANGED <<circ, kv, outstanding, up, leg>>
    BY <1>1, <1>2 DEF Outcome
  <1> HIDE DEF q
  <1>n. n \in 0 .. MaxAttempts /\ last \in BOOLEAN /\ q.last \in BOOLEAN
    BY <1>1, <1>u, AttemptsAssumption DEF Coherent, Paired, Dispatches
  <1>l. (at \in {"retry", "pool"} => last) /\ (q.last => last)
    OBVIOUS
  <1>m. phase = "claim" => n = q.n + 1
    OBVIOUS
  <1>o. phase = "body" => n = q.n
    OBVIOUS
  <1> HIDE DEF n, last
  <1>5. /\ p \in Dispatches /\ p.phase = phase /\ p.n = n /\ p.main = q.main /\ p.mate = q.mate
        /\ p.tried = q.tried /\ p.last = last /\ p.seen = q.seen
    BY <1>1, <1>2, <1>n DEF Dispatches
  <1> HIDE DEF p
  <1>6. Coherent(p, leg[r])
    <2>1. CASE phase = "over"
      BY <2>1, <1>1, <1>5, OverCoherent
    <2>2. CASE phase = "body"
      BY <2>2, <1>1, <1>2, <1>u, <1>o, <1>5, OutcomeCoherent
    <2>3. CASE phase = "claim"
      <3>1. leg[r][q.main].at \in Unusable /\ (leg[r][q.main].at = "retry" => p.last) /\ (q.last => p.last)
        BY <2>3, <1>2, <1>5, <1>l DEF Unusable
      <3> QED BY <2>3, <3>1, <1>1, <1>u, <1>m, <1>5, OutcomeCoherent
    <2> QED BY <1>2, <2>1, <2>2, <2>3
  <1> QED BY <1>u, <1>5, <1>6, ThinkStep

----------------------------------------------------------------------------
(* The body.                                                               *)

(* Where the legs of a request with a body are.                            *)
LEMMA BodyIs ==
    ASSUME GInv, NEW r \in Requests, req[r].phase = "body"
    PROVE  /\ req[r].main \in Targets /\ req[r].main \in req[r].tried
           /\ leg[r][req[r].main].at \in {"ready", "stream", "reopen"}
           /\ leg[r][req[r].main].at = "reopen" =>
                 /\ req[r].mate \in Targets /\ req[r].mate # req[r].main
                 /\ leg[r][req[r].mate].at \in Turns
  <1> DEFINE q == req[r]
  <1>1. q \in Dispatches /\ leg[r] \in [Targets -> Legs] /\ Coherent(q, leg[r]) /\ req \in [Requests -> Dispatches]
    BY Typed
  <1>2. q.phase = "body"
    OBVIOUS
  <1> HIDE DEF q
  <1>3. /\ q.main \in Targets /\ q.main \in q.tried /\ leg[r][q.main].at \in {"ready", "stream", "reopen"}
        /\ leg[r][q.main].at = "reopen" =>
              q.mate \in Targets /\ q.mate # q.main /\ leg[r][q.mate].at \in Turns
    BY <1>1, <1>2, TargetsAssumption DEF Coherent, Paired, Bodied, Together, Dispatches
  <1> QED BY <1>3 DEF q

(* The request ends, and the leg that it was on with it.                   *)
LEMMA LastLegStep ==
    ASSUME GInv, NEW r \in Requests, req[r].phase = "body", up' = up,
           leg[r][req[r].main].at \in {"ready", "stream"},
           req' = [req EXCEPT ![r].phase = "over"],
           NEW at \in {"gone", "stranded"}, Move(r, req[r].main, at, FALSE),
           \/ at = "gone" /\ Settle(r, {req[r].main})
           \/ at = "stranded" /\ Unsettled,
           circ' \in [Targets -> Circuits], \A u \in Targets : circ'[u].probing => circ[u].probing
    PROVE  GInv'
  <1> DEFINE q == req[r]
             p == [q EXCEPT !.phase = "over"]
             o == q.main
  <1>1. q \in Dispatches /\ leg[r] \in [Targets -> Legs] /\ Coherent(q, leg[r]) /\ req \in [Requests -> Dispatches]
    BY Typed
  <1>2. req' = [req EXCEPT ![r] = p] /\ o \in Targets /\ leg[r][o].at \in {"ready", "stream"}
    BY <1>1, BodyIs
  <1> DEFINE x == Moved(leg[r][o], at)
  <1>3. /\ x \in Legs /\ x.at = at /\ x.probe = leg[r][o].probe
        /\ leg' = [leg EXCEPT ![r] = [leg[r] EXCEPT ![o] = x]]
    <2>1. at \in Places /\ Move(r, o, at, FALSE)
      BY DEF Places, Holding
    <2> HIDE DEF o, x
    <2>2. MovesOn(r, o, x, at)
      BY <1>2, <2>1, MoveOn DEF x
    <2> QED BY <2>2 DEF MovesOn
  <1>4. \/ at = "gone" /\ Settle(r, {o})
        \/ at = "stranded" /\ Unsettled
    OBVIOUS
  <1> HIDE DEF q
  <1>5. p \in Dispatches /\ p.phase = "over" /\ p.tried = q.tried /\ p.seen = q.seen /\ p.main = q.main
    BY <1>1 DEF Dispatches
  <1> HIDE DEF p, o
  <1> HIDE DEF x
  <1> DEFINE m == [leg[r] EXCEPT ![o] = x]
  <1>6. Coherent(p, m)
    <2>1. m \in [Targets -> Legs] /\ m[o].at # "no" /\ \A u \in Targets \ {o} : m[u] = leg[r][u]
      BY <1>1, <1>2, <1>3
    <2> HIDE DEF m
    <2> QED BY <2>1, <1>1, <1>2, <1>5, OverCoherent
  <1>7. /\ \/ Settle(r, IF leg[r][o].at \in Holding /\ x.at \notin Holding THEN {o} ELSE {})
           \/ Unsettled /\ x.at \in Holding
        /\ x.at \in Holding => leg[r][o].at \in Holding
        /\ leg[r][o].at \notin Unreached \cup {"cut", "stranded"}
    <2>1. leg[r][o].at \in Holding /\ leg[r][o].at \notin Unreached \cup {"cut", "stranded"}
      BY <1>2 DEF Holding, Unreached, Early
    <2>2. CASE at = "gone" /\ Settle(r, {o})
      <3>1. x.at \notin Holding
        BY <2>2, <1>3 DEF Holding
      <3> QED BY <2>1, <2>2, <3>1
    <2>3. CASE at = "stranded" /\ Unsettled
      BY <2>1, <2>3, <1>3 DEF Holding
    <2> QED BY <1>4, <2>2, <2>3
  <1> HIDE DEF m
  <1> QED BY <1>2, <1>3, <1>5, <1>6, <1>7, LegStep DEF m

LEMMA StartBodyKeeps == ASSUME GInv, NEW r \in Requests, StartBody(r) PROVE GInv'
  <1> DEFINE q == req[r]
             o == q.main
  <1>1. q \in Dispatches /\ leg[r] \in [Targets -> Legs] /\ Coherent(q, leg[r]) /\ req \in [Requests -> Dispatches]
    BY Typed
  <1>2. /\ q.phase = "body" /\ o \in Targets /\ leg[r][o].at = "ready" /\ Move(r, o, "stream", FALSE)
        /\ Unsettled /\ UNCHANGED <<circ, up, req>>
    BY BodyIs DEF StartBody
  <1>u. req' = [req EXCEPT ![r] = q]
    BY <1>1, <1>2
  <1> HIDE DEF q
  <1> DEFINE x == Moved(leg[r][o], "stream")
  <1>3. /\ x \in Legs /\ x.at = "stream" /\ x.probe = leg[r][o].probe
        /\ leg' = [leg EXCEPT ![r] = [leg[r] EXCEPT ![o] = x]]
    <2>1. "stream" \in Places
      BY DEF Places, Holding
    <2> HIDE DEF o, x
    <2>2. MovesOn(r, o, x, "stream")
      BY <1>2, <2>1, MoveOn DEF x
    <2> QED BY <2>2 DEF MovesOn
  <1> HIDE DEF x
  <1> DEFINE m == [leg[r] EXCEPT ![o] = x]
  <1>4. Coherent(q, m)
    BY <1>1, <1>2, <1>3, BodyCoherent
  <1>5. circ' \in [Targets -> Circuits] /\ \A u \in Targets : circ'[u].probing => circ[u].probing
    BY <1>2, Typed
  <1>6. /\ leg[r][o].at \in Holding /\ x.at \in Holding
        /\ leg[r][o].at \notin Unreached \cup {"cut", "stranded"}
    BY <1>2, <1>3 DEF Holding, Unreached, Early
  <1> HIDE DEF m, o
  <1> QED BY <1>1, <1>2, <1>u, <1>3, <1>4, <1>5, <1>6, LegStep DEF m

LEMMA ChunkKeeps == ASSUME GInv, NEW r \in Requests, Chunk(r) PROVE GInv'
  <1> DEFINE q == req[r]
             p == [q EXCEPT !.seen = q.seen \cup {q.main}]
  <1>1. q \in Dispatches /\ leg[r] \in [Targets -> Legs] /\ Coherent(q, leg[r]) /\ req \in [Requests -> Dispatches]
    BY Typed
  <1>2. /\ req' = [req EXCEPT ![r] = p] /\ q.phase = "body" /\ leg[r][q.main].at = "stream"
        /\ UNCHANGED <<circ, kv, outstanding, up, leg>>
    BY <1>1 DEF Chunk, Streaming
  <1>3. q.main \in Targets
    BY <1>2, BodyIs
  <1> HIDE DEF q
  <1>4. /\ p \in Dispatches /\ p.phase = q.phase /\ p.n = q.n /\ p.tried = q.tried /\ p.main = q.main
        /\ p.mate = q.mate /\ p.again = q.again /\ p.seen = q.seen \cup {q.main}
    BY <1>1, <1>3 DEF Dispatches
  <1> HIDE DEF p
  <1>5. Coherent(p, leg[r])
    <2>1. leg[r] = [leg[r] EXCEPT ![q.main] = leg[r][q.main]] /\ leg[r][q.main] \in Legs
      BY <1>1, <1>3
    <2> QED BY <2>1, <1>1, <1>2, <1>4, BodyCoherent
  <1> QED BY <1>2, <1>4, <1>5, ThinkStep

LEMMA FinishKeeps == ASSUME GInv, NEW r \in Requests, Finish(r) PROVE GInv'
  <1>1. circ' \in [Targets -> Circuits] /\ \A u \in Targets : circ'[u].probing => circ[u].probing
    BY Typed DEF Finish
  <1> QED BY <1>1, LastLegStep DEF Finish, Streaming

LEMMA BodyDiesKeeps == ASSUME GInv, NEW r \in Requests, BodyDies(r) PROVE GInv'
  <1>1. req[r].main \in Targets
    BY BodyIs DEF BodyDies, Streaming
  <1>2. circ[req[r].main] \in Circuits /\ circ \in [Targets -> Circuits]
    BY <1>1, Typed
  <1>3. Failed(circ[req[r].main]) \in Circuits /\ ~Failed(circ[req[r].main]).probing
    BY <1>2, CircuitOps
  <1>4. circ' = [circ EXCEPT ![req[r].main] = Failed(circ[req[r].main])]
    BY DEF BodyDies, Circuit
  <1>5. circ' \in [Targets -> Circuits] /\ \A u \in Targets : circ'[u].probing => circ[u].probing
    BY <1>1, <1>2, <1>3, <1>4
  <1> QED BY <1>5, LastLegStep DEF BodyDies, Streaming

(* A claim on top of the leg that died.                                    *)
LEMMA ReopenStep ==
    ASSUME GInv, NEW r \in Requests, NEW o \in Targets, leg[r][o].at = "stream",
           NEW t \in Targets, t # o, leg[r][t] = NoLeg,
           NEW y \in Legs, y.at = "reopen", NEW c \in [Targets -> Circuits],
           c[t] = circ[t], \A u \in Targets : c[u].probing => circ[u].probing,
           NEW l, l = [leg[r] EXCEPT ![o] = y],
           Take(r, t, FALSE, [leg EXCEPT ![r] = l], c),
           NEW p \in Dispatches, req' = [req EXCEPT ![r] = p], up' = up,
           \A x \in Legs : x.at \in Turns => Coherent(p, [l EXCEPT ![t] = x])
    PROVE  GInv'
  <1> DEFINE lg == [leg EXCEPT ![r] = l]
  <1>1. leg \in [Requests -> [Targets -> Legs]] /\ leg[r] \in [Targets -> Legs]
    BY Typed
  <1>2. l \in [Targets -> Legs] /\ l[o] = y /\ \A u \in Targets \ {o} : l[u] = leg[r][u]
    BY <1>1
  <1>3. lg \in [Requests -> [Targets -> Legs]] /\ lg[r] = l
    BY <1>1, <1>2
  <1>t. Take(r, t, FALSE, lg, c)
    OBVIOUS
  <1>f. \A v : [lg EXCEPT ![r] = v] = [leg EXCEPT ![r] = v]
    BY <1>1, <1>2
  <1> HIDE DEF lg
  <1>4. PICK x \in Legs, d \in Circuits :
              /\ leg' = [lg EXCEPT ![r] = [lg[r] EXCEPT ![t] = x]]
              /\ circ' = [c EXCEPT ![t] = d]
              /\ d.probing => Keeps(x)
              /\ x.at \in Turns
              /\ \/ x.at \notin Holding /\ Unsettled
                 \/ /\ x.at \in Holding /\ t \in Local /\ Fits(r, t)
                    /\ outstanding' = [outstanding EXCEPT ![t] = @ + 1]
                    /\ kv' = [kv EXCEPT ![t] = @ + Cost[r]]
    BY <1>3, <1>t, TakeIs
  <1> DEFINE m == [l EXCEPT ![t] = x]
  <1>c. Coherent(p, m)
    BY <1>4
  <1>5. leg' = [leg EXCEPT ![r] = m]
    BY <1>3, <1>4, <1>f
  <1>6. m \in [Targets -> Legs] /\ m[t] = x /\ m[o] = y /\ \A u \in Targets \ {t, o} : m[u] = leg[r][u]
    BY <1>2
  <1> HIDE DEF m
  <1>7. circ' \in [Targets -> Circuits] /\ circ'[t] = d /\ \A u \in Targets \ {t} : circ'[u] = c[u]
    BY <1>4
  <1>8. \A u \in Targets : circ'[u].probing => Keeps(m[u]) \/ (circ[u].probing /\ ~Keeps(leg[r][u]))
    <2> SUFFICES ASSUME NEW u \in Targets, circ'[u].probing
                 PROVE  Keeps(m[u]) \/ (circ[u].probing /\ ~Keeps(leg[r][u]))
      OBVIOUS
    <2>1. CASE u = t
      <3>1. Keeps(x)
        BY <2>1, <1>4, <1>7
      <3> QED BY <2>1, <3>1, <1>6
    <2>2. CASE u # t /\ u # o
      <3>1. circ[u].probing /\ m[u] = leg[r][u]
        BY <2>2, <1>6, <1>7
      <3> QED BY <3>1, Zenon
    <2>3. CASE u = o
      <3>1. circ[u].probing
        BY <2>3, <1>7
      <3>2. ~Keeps(leg[r][o])
        BY DEF Keeps, Unreached, Early
      <3> QED BY <2>3, <3>1, <3>2
    <2> QED BY <2>1, <2>2, <2>3
  <1>9. Kept(r, m) \/ Taken1(r, m, t)
    <2>1. leg[r][t].at \notin Holding /\ leg[r][o].at \in Holding /\ y.at \in Holding
      BY NoLegTyped DEF Holding
    <2> QED BY <2>1, <1>4, <1>6 DEF Kept, Taken1
  <1> QED BY <1>c, <1>5, <1>6, <1>7, <1>8, <1>9, RequestStep

LEMMA ReopenKeeps == ASSUME GInv, NEW r \in Requests, Reopen(r) PROVE GInv'
  <1> DEFINE q == req[r]
             o == q.main
             c == [circ EXCEPT ![o] = IF o \in Local THEN Failed(circ[o]) ELSE circ[o]]
             y == [leg[r][o] EXCEPT !.at = "reopen"]
             l == [leg[r] EXCEPT ![o] = y]
  <1>1. q \in Dispatches /\ leg[r] \in [Targets -> Legs] /\ Coherent(q, leg[r]) /\ req \in [Requests -> Dispatches]
    BY Typed
  <1>t. up \subseteq Targets /\ circ \in [Targets -> Circuits]
    BY DEF GInv, TypeOK
  <1>2. PICK t \in {u \in Offered(r) : ~Busy(circ[u])} :
          /\ req' = [req EXCEPT ![r] = [@ EXCEPT !.mate = t, !.tried = req[r].tried \cup {t}]]
          /\ Take(r, t, FALSE, [leg EXCEPT ![r][req[r].main].at = "reopen"],
                  [circ EXCEPT ![req[r].main] = IF req[r].main \in Local THEN Failed(@) ELSE @])
    BY Zenon DEF Reopen
  <1> DEFINE p == [q EXCEPT !.mate = t, !.tried = q.tried \cup {t}]
  <1>3. /\ req' = [req EXCEPT ![r] = p] /\ up' = up /\ q.phase = "body" /\ leg[r][o].at = "stream"
        /\ q.seen = {} /\ q.again /\ q.n + 1 < MaxAttempts
    BY <1>1, <1>2 DEF Reopen, Streaming, Reopens
  <1>4. t \in Targets \ q.tried
    BY <1>t DEF Offered
  <1>5. o \in Targets /\ o \in q.tried
    BY <1>3, BodyIs
  <1>6. [circ EXCEPT ![req[r].main] = IF req[r].main \in Local THEN Failed(@) ELSE @] = c
    OBVIOUS
  <1>7. y \in Legs /\ y.at = "reopen" /\ leg[r][o] \in Legs
    BY <1>1, <1>5 DEF Legs, Places, Holding
  <1>8. [leg EXCEPT ![r][req[r].main].at = "reopen"] = [leg EXCEPT ![r] = l]
    BY Typed
  <1>9. Take(r, t, FALSE, [leg EXCEPT ![r] = l], c)
    BY <1>2, <1>6, <1>8
  <1> HIDE DEF q, o
  <1>10. c \in [Targets -> Circuits] /\ c[t] = circ[t] /\ \A u \in Targets : c[u].probing => circ[u].probing
    <2>1. Failed(circ[o]) \in Circuits /\ ~Failed(circ[o]).probing
      BY <1>t, <1>5, CircuitOps
    <2> QED BY <2>1, <1>t, <1>4, <1>5
  <1> HIDE DEF y, c
  <1>11. /\ p \in Dispatches /\ p.phase = q.phase /\ p.n = q.n /\ p.tried = q.tried \cup {t}
         /\ p.main = q.main /\ p.mate = t /\ p.again = q.again /\ p.seen = q.seen
    BY <1>1, <1>4 DEF Dispatches
  <1> HIDE DEF p
  <1>12. ASSUME NEW x \in Legs, x.at \in Turns PROVE Coherent(p, [l EXCEPT ![t] = x])
    <2> DEFINE m == [l EXCEPT ![t] = x]
    <2>1. m = [leg[r] EXCEPT ![q.main] = y, ![t] = x]
      BY DEF o
    <2>2. leg[r][q.main].at = "stream"
      BY <1>3 DEF o
    <2> HIDE DEF l, m
    <2>3. Coherent(p, m)
      BY <1>1, <1>3, <1>4, <1>7, <1>11, <1>12, <2>1, <2>2, ReopenCoherent
    <2> QED BY <2>3 DEF m
  <1>13. leg[r][t] = NoLeg
    BY <1>1, <1>4 DEF Coherent, Untried
  <1>14. l = [leg[r] EXCEPT ![o] = y] /\ t # o
    BY <1>4, <1>5
  <1> HIDE DEF l
  <1> QED BY <1>3, <1>4, <1>5, <1>7, <1>9, <1>10, <1>11, <1>12, <1>13, <1>14, ReopenStep

Put(x, at) == [x EXCEPT !.at = at]

LEMMA PutIs == ASSUME NEW x \in Legs, NEW at \in Places
               PROVE  Put(x, at) \in Legs /\ Put(x, at).at = at /\ Put(x, at).probe = x.probe
  BY DEF Put, Legs

Pairs(m, l, o, t, at) == m = [l EXCEPT ![o] = Put(l[o], "gone"), ![t] = Put(l[t], at)]

(* The leg that died is given up, and the leg of its replacement goes on.  *)
LEMMA PairStep ==
    ASSUME GInv, NEW r \in Requests, NEW o \in Targets, leg[r][o].at = "reopen",
           NEW t \in Targets, t # o, leg[r][t].at \in Turns, NEW at \in Places,
           NEW m, Pairs(m, leg[r], o, t, at), leg' = [leg EXCEPT ![r] = m],
           NEW p \in Dispatches, req' = [req EXCEPT ![r] = p], up' = up, Coherent(p, m),
           circ' \in [Targets -> Circuits], \A u \in Targets : circ'[u].probing => circ[u].probing,
           Settle(r, {o} \cup (IF leg[r][t].at \in Holding /\ at \notin Holding THEN {t} ELSE {})),
           at \in Holding => leg[r][t].at \in Holding,
           leg[r][t].at \in Unreached => at \in {"cut", "stranded"}
    PROVE  GInv'
  <1> DEFINE x == Put(leg[r][o], "gone")
             y == Put(leg[r][t], at)
  <1>1. leg[r] \in [Targets -> Legs] /\ leg[r][o] \in Legs /\ leg[r][t] \in Legs /\ "gone" \in Places
    BY Typed DEF Places
  <1>2. x \in Legs /\ x.at = "gone" /\ y \in Legs /\ y.at = at /\ y.probe = leg[r][t].probe
    BY <1>1, PutIs
  <1>m. m = [leg[r] EXCEPT ![o] = x, ![t] = y]
    BY DEF Pairs
  <1> HIDE DEF x, y
  <1>3. m \in [Targets -> Legs] /\ m[o] = x /\ m[t] = y /\ \A u \in Targets \ {o, t} : m[u] = leg[r][u]
    BY <1>1, <1>2, <1>m
  <1>4. \A u \in Targets : circ'[u].probing => Keeps(m[u]) \/ (circ[u].probing /\ ~Keeps(leg[r][u]))
    <2> SUFFICES ASSUME NEW u \in Targets, circ'[u].probing
                 PROVE  Keeps(m[u]) \/ (circ[u].probing /\ ~Keeps(leg[r][u]))
      OBVIOUS
    <2>1. CASE u # o /\ u # t
      <3>1. m[u] = leg[r][u]
        BY <2>1, <1>3
      <3> QED BY <3>1, Zenon
    <2>2. CASE u = o
      <3>1. ~Keeps(leg[r][o])
        BY DEF Keeps, Unreached, Early
      <3> QED BY <2>2, <3>1
    <2>3. CASE u = t
      <3>1. Keeps(leg[r][t]) => Keeps(y)
        <4> SUFFICES ASSUME Keeps(leg[r][t]) PROVE Keeps(y)
          OBVIOUS
        <4>1. leg[r][t].at \in Unreached
          BY DEF Keeps, Turns, InProgress, Unreached, Early, Usable, Unusable
        <4>2. at \in {"cut", "stranded"} /\ y.probe
          BY <4>1, <1>2 DEF Keeps
        <4> QED BY <4>2, <1>2 DEF Keeps
      <3> QED BY <2>3, <3>1, <1>3, Zenon
    <2> QED BY <2>1, <2>2, <2>3
  <1>5. \E S \in SUBSET Targets : Settled(r, m, S)
    <2> DEFINE S == {o} \cup (IF leg[r][t].at \in Holding /\ at \notin Holding THEN {t} ELSE {})
    <2>1. leg[r][o].at \in Holding /\ m[o].at \notin Holding
      BY <1>2, <1>3 DEF Holding
    <2>2. Settled(r, m, S)
      BY <2>1, <1>2, <1>3 DEF Settled
    <2> QED BY <2>2
  <1> QED BY <1>3, <1>4, <1>5, RequestStep

(* The failure that is reported on the way out ends no probe but its own.  *)
LEMMA ReportIs ==
    ASSUME GInv, NEW o \in Targets, Report(o)
    PROVE  circ' \in [Targets -> Circuits] /\ \A u \in Targets : circ'[u].probing => circ[u].probing
  <1>1. circ \in [Targets -> Circuits]
    BY DEF GInv, TypeOK
  <1>2. Failed(circ[o]) \in Circuits /\ ~Failed(circ[o]).probing
    BY <1>1, CircuitOps
  <1> QED BY <1>1, <1>2 DEF Report, Circuit

LEMMA ReplaceKeeps == ASSUME GInv, NEW r \in Requests, Replace(r) PROVE GInv'
  <1> DEFINE q == req[r]
             o == q.main
             t == q.mate
             p == [q EXCEPT !.main = t, !.mate = None, !.again = FALSE]
             m == [leg[r] EXCEPT ![o] = Put(leg[r][o], "gone"), ![t] = Put(leg[r][t], "stream")]
  <1>1. q \in Dispatches /\ leg[r] \in [Targets -> Legs] /\ Coherent(q, leg[r]) /\ req \in [Requests -> Dispatches]
    BY Typed
  <1>2. /\ req' = [req EXCEPT ![r] = p] /\ up' = up /\ q.phase = "body" /\ leg[r][o].at = "reopen"
        /\ leg[r][t].at = "ready" /\ Settle(r, {o}) /\ Report(o)
    BY <1>1 DEF Replace, Reopening
  <1>3. o \in Targets /\ t \in Targets /\ t # o /\ leg[r][t].at \in Turns
    BY <1>2, BodyIs
  <1>4. leg' = [leg EXCEPT ![r] = m]
    <2>1. leg' = [leg EXCEPT ![r][o].at = "gone", ![r][t].at = "stream"]
      BY DEF Replace
    <2> HIDE DEF o, t
    <2> QED BY <2>1, <1>3, Typed DEF Put
  <1>5. circ' \in [Targets -> Circuits] /\ \A u \in Targets : circ'[u].probing => circ[u].probing
    BY <1>2, <1>3, ReportIs
  <1> HIDE DEF q
  <1>6. /\ p \in Dispatches /\ p.phase = q.phase /\ p.n = q.n /\ p.tried = q.tried /\ p.main = t
        /\ p.mate = None /\ p.again = FALSE /\ p.seen = q.seen
    <2> HIDE DEF t
    <2> QED BY <1>1, <1>3 DEF Dispatches
  <1>p. "gone" \in Places /\ "stream" \in Places
    BY DEF Places, Holding
  <1>7. /\ Put(leg[r][o], "gone") \in Legs /\ Put(leg[r][o], "gone").at = "gone"
        /\ Put(leg[r][t], "stream") \in Legs /\ Put(leg[r][t], "stream").at = "stream"
    BY <1>1, <1>3, <1>p, PutIs
  <1> HIDE DEF p
  <1>8. Coherent(p, m)
    BY <1>1, <1>2, <1>6, <1>7, ReplaceCoherent
  <1>9. /\ leg[r][t].at \in Holding /\ "stream" \in Holding /\ leg[r][t].at \notin Unreached
        /\ Settle(r, {o} \cup (IF leg[r][t].at \in Holding /\ "stream" \notin Holding THEN {t} ELSE {}))
    <2>1. leg[r][t].at \in Holding /\ "stream" \in Holding /\ leg[r][t].at \notin Unreached
      BY <1>2 DEF Holding, Unreached, Early
    <2>2. {o} \cup (IF leg[r][t].at \in Holding /\ "stream" \notin Holding THEN {t} ELSE {}) = {o}
      BY <2>1
    <2> QED BY <2>1, <2>2, <1>2
  <1>10. Pairs(m, leg[r], o, t, "stream")
    BY DEF Pairs
  <1> HIDE DEF m, o, t
  <1> QED BY <1>2, <1>3, <1>4, <1>5, <1>6, <1>p, <1>8, <1>9, <1>10, PairStep

(* The request ends while a replacement is awaited.                        *)
LEMMA LastPairStep ==
    ASSUME GInv, NEW r \in Requests, req[r].phase = "body", up' = up,
           leg[r][req[r].main].at = "reopen", req' = [req EXCEPT ![r].phase = "over"],
           NEW at \in Places, at # "no",
           leg' = [leg EXCEPT ![r][req[r].main].at = "gone", ![r][req[r].mate].at = at],
           circ' \in [Targets -> Circuits], \A u \in Targets : circ'[u].probing => circ[u].probing,
           Settle(r, {req[r].main} \cup (IF leg[r][req[r].mate].at \in Holding /\ at \notin Holding
                                         THEN {req[r].mate} ELSE {})),
           at \in Holding => leg[r][req[r].mate].at \in Holding,
           leg[r][req[r].mate].at \in Unreached => at \in {"cut", "stranded"}
    PROVE  GInv'
  <1> DEFINE q == req[r]
             o == q.main
             t == q.mate
             p == [q EXCEPT !.phase = "over"]
             m == [leg[r] EXCEPT ![o] = Put(leg[r][o], "gone"), ![t] = Put(leg[r][t], at)]
  <1>1. q \in Dispatches /\ leg[r] \in [Targets -> Legs] /\ Coherent(q, leg[r]) /\ req \in [Requests -> Dispatches]
    BY Typed
  <1>2. o \in Targets /\ t \in Targets /\ t # o /\ leg[r][t].at \in Turns /\ leg[r][o].at = "reopen"
    BY BodyIs
  <1>3. req' = [req EXCEPT ![r] = p]
    BY <1>1
  <1>4. leg' = [leg EXCEPT ![r] = m]
    <2>1. leg' = [leg EXCEPT ![r][o].at = "gone", ![r][t].at = at]
      OBVIOUS
    <2> HIDE DEF o, t
    <2> QED BY <2>1, <1>2, Typed DEF Put
  <1>5. /\ Settle(r, {o} \cup (IF leg[r][t].at \in Holding /\ at \notin Holding THEN {t} ELSE {}))
        /\ at \in Holding => leg[r][t].at \in Holding
        /\ leg[r][t].at \in Unreached => at \in {"cut", "stranded"}
    OBVIOUS
  <1> HIDE DEF q
  <1>6. p \in Dispatches /\ p.phase = "over" /\ p.tried = q.tried /\ p.seen = q.seen /\ p.main = q.main
    BY <1>1 DEF Dispatches
  <1> HIDE DEF p
  <1>p. "gone" \in Places
    BY DEF Places
  <1>7. /\ Put(leg[r][o], "gone") \in Legs /\ Put(leg[r][o], "gone").at = "gone"
        /\ Put(leg[r][t], at) \in Legs /\ Put(leg[r][t], at).at = at
    BY <1>1, <1>2, <1>p, PutIs
  <1>8. leg[r][o].at # "no" /\ leg[r][t].at # "no"
    BY <1>2 DEF Turns, InProgress, Unreached, Early, Usable, Unusable
  <1> HIDE DEF o, t
  <1>9. m \in [Targets -> Legs] /\ m[o].at = "gone" /\ m[t].at = at /\ \A u \in Targets \ {o, t} : m[u] = leg[r][u]
    BY <1>1, <1>2, <1>7
  <1>10. Pairs(m, leg[r], o, t, at)
    BY DEF Pairs
  <1> HIDE DEF m
  <1>11. Coherent(p, m)
    <2>1. \A u \in Targets : leg[r][u].at = "no" => m[u] = leg[r][u]
      BY <1>8, <1>9
    <2>2. \A u \in Targets : m[u].at = "no" => leg[r][u].at = "no"
      BY <1>8, <1>9
    <2> QED BY <2>1, <2>2, <1>1, <1>6, <1>9, OverCoherent
  <1> QED BY <1>2, <1>3, <1>4, <1>5, <1>6, <1>10, <1>11, PairStep

LEMMA ReplaceNoneKeeps == ASSUME GInv, NEW r \in Requests, ReplaceNone(r) PROVE GInv'
  <1> DEFINE o == req[r].main
             t == req[r].mate
             at == IF leg[r][t].at = "ready" THEN "stranded" ELSE leg[r][t].at
  <1>1. /\ req[r].phase = "body" /\ leg[r][o].at = "reopen" /\ leg[r][t].at \in Usable \cup Unusable
        /\ Settle(r, {o}) /\ Report(o) /\ up' = up /\ req' = [req EXCEPT ![r].phase = "over"]
    BY DEF ReplaceNone, Reopening
  <1>2. o \in Targets /\ t \in Targets /\ t # o
    BY <1>1, BodyIs
  <1>3. circ' \in [Targets -> Circuits] /\ \A u \in Targets : circ'[u].probing => circ[u].probing
    BY <1>1, <1>2, ReportIs
  <1>4. leg' = [leg EXCEPT ![r][o].at = "gone", ![r][t].at = at]
    <2>1. leg' = [leg EXCEPT ![r][o].at = "gone", ![r][t].at = IF @ = "ready" THEN "stranded" ELSE @]
      BY DEF ReplaceNone
    <2>2. leg \in [Requests -> [Targets -> Legs]] /\ leg[r] \in [Targets -> Legs] /\ leg[r][t] \in Legs
      BY <1>2, Typed
    <2> HIDE DEF o, t
    <2> QED BY <1>2, <2>1, <2>2
  <1>5. /\ at \in Places /\ at # "no" /\ (at \in Holding <=> leg[r][t].at \in Holding)
        /\ leg[r][t].at \notin Unreached
    <2> HIDE DEF t
    <2> QED BY <1>1 DEF Places, Holding, Usable, Unusable, Unreached, Early
  <1>6. Settle(r, {o} \cup (IF leg[r][t].at \in Holding /\ at \notin Holding THEN {t} ELSE {}))
    <2>1. {o} \cup (IF leg[r][t].at \in Holding /\ at \notin Holding THEN {t} ELSE {}) = {o}
      BY <1>5
    <2> QED BY <1>1, <2>1
  <1>7. /\ at \in Places /\ at # "no" /\ (at \in Holding => leg[r][t].at \in Holding)
        /\ (leg[r][t].at \in Unreached => at \in {"cut", "stranded"})
    BY <1>5
  <1>8. up' = up /\ req[r].phase = "body" /\ leg[r][o].at = "reopen" /\ req' = [req EXCEPT ![r].phase = "over"]
    BY <1>1
  <1> HIDE DEF at
  <1> QED BY <1>3, <1>4, <1>6, <1>7, <1>8, LastPairStep

(* The client hangs up: before the body, in the middle of it, or while a   *)
(* replacement is awaited.                                                 *)
LEMMA HangUpKeeps == ASSUME GInv, NEW r \in Requests, HangUp(r) PROVE GInv'
  <1> DEFINE o == req[r].main
             t == req[r].mate
  <1>1. req[r].phase = "body" /\ req' = [req EXCEPT ![r].phase = "over"] /\ UNCHANGED <<circ, up>>
    BY DEF HangUp
  <1>2. circ' \in [Targets -> Circuits] /\ \A u \in Targets : circ'[u].probing => circ[u].probing
    BY <1>1, Typed
  <1>3. leg[r][o].at \in {"ready", "stream", "reopen"}
    BY <1>1, BodyIs
  <1>4. CASE leg[r][o].at = "ready"
    <2>1. Move(r, o, "stranded", FALSE) /\ Unsettled
      BY <1>4 DEF HangUp
    <2> QED BY <1>1, <1>2, <1>4, <2>1, LastLegStep
  <1>5. CASE leg[r][o].at = "stream"
    <2>1. Move(r, o, "gone", FALSE) /\ Settle(r, {o})
      BY <1>5 DEF HangUp
    <2> QED BY <1>1, <1>2, <1>5, <2>1, LastLegStep
  <1>6. CASE leg[r][o].at = "reopen"
    <2>1. PICK at \in IF leg[r][t].at \in InProgress THEN Cancelled(r, t)
                      ELSE IF leg[r][t].at = "ready" THEN {"stranded"} ELSE {leg[r][t].at} :
             /\ leg' = [leg EXCEPT ![r][o].at = "gone", ![r][t].at = at]
             /\ Settle(r, {o} \cup Releases(r, t, at))
      BY <1>6 DEF HangUp
    <2>2. t \in Targets /\ leg[r][t].at \in Turns
      BY <1>1, <1>6, BodyIs
    <2>3. /\ at \in Places /\ at # "no"
          /\ Releases(r, t, at) = IF leg[r][t].at \in Holding /\ at \notin Holding THEN {t} ELSE {}
          /\ at \in Holding => leg[r][t].at \in Holding
          /\ leg[r][t].at \in Unreached => at \in {"cut", "stranded"}
      <3> HIDE DEF t
      <3>1. CASE leg[r][t].at \in InProgress
        <4>1. at \in Cancelled(r, t)
          BY <3>1, <2>1
        <4> QED BY <4>1, <3>1, <2>2, CancelledIs DEF Places, Holding
      <3>2. CASE leg[r][t].at = "ready"
        <4>1. at = "stranded" /\ leg[r][t].at \notin InProgress
          BY <3>2, <2>1 DEF InProgress, Unreached, Early
        <4> QED BY <4>1, <3>2 DEF Places, Holding, Releases, Unreached, Early
      <3>3. CASE leg[r][t].at \notin InProgress /\ leg[r][t].at # "ready"
        <4>1. at = leg[r][t].at
          BY <3>3, <2>1
        <4>2. at \in {"answer", "retry", "pool", "skip", "refused"}
          BY <4>1, <3>3, <2>2 DEF Turns, Usable, Unusable
        <4> QED BY <4>1, <4>2 DEF Places, Usable, Unusable, Holding, Releases, Unreached, Early
      <3> QED BY <3>1, <3>2, <3>3
    <2>4. Settle(r, {o} \cup (IF leg[r][t].at \in Holding /\ at \notin Holding THEN {t} ELSE {}))
      BY <2>1, <2>3
    <2>5. leg' = [leg EXCEPT ![r][o].at = "gone", ![r][t].at = at]
      BY <2>1
    <2> QED BY <1>1, <1>2, <1>6, <2>3, <2>4, <2>5, LastPairStep
  <1> QED BY <1>3, <1>4, <1>5, <1>6

----------------------------------------------------------------------------
(* The world around, and the whole step.                                   *)

LEMMA WorldKeeps == ASSUME GInv, NEW t \in Targets, World(t) PROVE GInv'
  <1>1. circ \in [Targets -> Circuits] /\ up \subseteq Targets
    BY DEF GInv, TypeOK
  <1>2. /\ Cooled(circ[t]) \in Circuits /\ Cooled(circ[t]).probing = circ[t].probing
        /\ Closed \in Circuits /\ ~Closed.probing
    BY <1>1, CircuitOps
  <1>3. /\ circ' \in [Targets -> Circuits] /\ up' \subseteq Targets
        /\ \A u \in Targets : circ'[u].probing => circ[u].probing
        /\ UNCHANGED <<kv, outstanding, req, leg>>
    <2>1. CASE Cool(t)
      <3>1. circ' = [circ EXCEPT ![t] = Cooled(circ[t])] /\ UNCHANGED <<kv, outstanding, up, req, leg>>
        BY <2>1 DEF Cool, Circuit
      <3> QED BY <3>1, <1>1, <1>2
    <2>2. CASE Withdraw(t)
      <3>1. circ' = circ \/ circ' = [circ EXCEPT ![t] = Closed]
        BY <2>2 DEF Withdraw
      <3>2. circ' \in [Targets -> Circuits] /\ \A u \in Targets : circ'[u].probing => circ[u].probing
        BY <3>1, <1>1, <1>2
      <3> QED BY <2>2, <3>2, <1>1 DEF Withdraw
    <2>3. CASE Return(t)
      BY <2>3, <1>1 DEF Return
    <2> QED BY <2>1, <2>2, <2>3 DEF World
  <1>4. Books' /\ Consistent'
    BY <1>3 DEF GInv, Books, Balanced, Held, WithinBudget, Consistent
  <1>5. ProbeAccounted'
    BY <1>3 DEF GInv, ProbeAccounted
  <1>6. TypeOK'
    BY <1>3 DEF GInv, TypeOK
  <1> QED BY <1>4, <1>5, <1>6 DEF GInv

LEMMA GInit == Init => GInv
  <1> SUFFICES ASSUME Init PROVE GInv
    OBVIOUS
  <1> USE DEF Init
  <1>1. Fresh \in Dispatches /\ Fresh.phase = "new" /\ Fresh.seen = {} /\ Fresh.n = 0
    <2>1. 0 \in 0 .. MaxAttempts
      BY AttemptsAssumption
    <2> QED BY <2>1 DEF Fresh, Dispatches
  <1>c. Closed \in Circuits /\ ~Closed.probing
    BY ThresholdAssumption DEF Circuits, Closed
  <1>2. TypeOK
    BY <1>1, <1>c, NoLegTyped DEF TypeOK
  <1>3. Consistent
    BY <1>1, AfreshCoherent DEF Consistent
  <1>4. \A t \in Targets : Held(t) = {}
    BY NoLegTyped DEF Held, Holding
  <1>5. Charged({}) = 0 /\ Cardinality({}) = 0
    BY ChargedOne, FS_EmptySet
  <1>6. Books
    BY <1>4, <1>5, CostAssumption DEF Books, Balanced, WithinBudget
  <1>7. ProbeAccounted
    BY <1>c DEF ProbeAccounted
  <1> QED BY <1>2, <1>3, <1>6, <1>7 DEF GInv

LEMMA GStep == GInv /\ [Next]_vars => GInv'
  <1> SUFFICES ASSUME GInv, [Next]_vars PROVE GInv'
    OBVIOUS
  <1>1. ASSUME NEW r \in Requests, Dispatching(r) PROVE GInv'
    BY <1>1, ArriveKeeps, ClaimKeeps, ClaimNoneKeeps, RecoverKeeps, RefuseKeeps, HedgeKeeps,
       HedgeNoneKeeps, WinKeeps, YieldKeeps, OutcomeKeeps DEF Dispatching
  <1>2. ASSUME NEW r \in Requests, Sending(r) PROVE GInv'
    BY <1>2, StartBodyKeeps, ChunkKeeps, FinishKeeps, BodyDiesKeeps, ReopenKeeps, ReplaceKeeps,
       ReplaceNoneKeeps, HangUpKeeps DEF Sending
  <1>3. ASSUME NEW r \in Requests, NEW t \in Targets, Attempting(r, t) PROVE GInv'
    BY <1>3, AttemptingKeeps
  <1>4. ASSUME NEW t \in Targets, World(t) PROVE GInv'
    BY <1>4, WorldKeeps
  <1>5. CASE UNCHANGED vars
    BY <1>5 DEF vars, GInv, TypeOK, Consistent, Books, Balanced, Held, WithinBudget, ProbeAccounted
  <1> QED BY <1>1, <1>2, <1>3, <1>4, <1>5 DEF Next

----------------------------------------------------------------------------
(* The theorems.                                                           *)

LEMMA GInvariant == Spec => []GInv
  BY GInit, GStep, PTL DEF Spec

(* The invariant says what the runs check.                                 *)
LEMMA GImplies ==
    GInv => /\ TypeOK /\ BooksBalance /\ ProbeAccounted
            /\ WithinBudget /\ AttemptsBounded /\ OneBody
            /\ ~Hedging => NoneMeansUnsent
  <1> SUFFICES ASSUME GInv PROVE /\ TypeOK /\ BooksBalance /\ ProbeAccounted
                                 /\ WithinBudget /\ AttemptsBounded /\ OneBody
                                 /\ ~Hedging => NoneMeansUnsent
    OBVIOUS
  <1>1. TypeOK /\ BooksBalance /\ ProbeAccounted /\ WithinBudget
    BY BalancedIs DEF GInv, Books
  <1>2. AttemptsBounded
    <2> SUFFICES ASSUME NEW r \in Requests PROVE Cardinality(Offers(leg[r])) <= Width * MaxAttempts
      BY DEF AttemptsBounded, Offers, Width
    <2> QED BY Typed DEF Coherent, Counted
  <1>3. OneBody
    <2> SUFFICES ASSUME NEW r \in Requests PROVE Cardinality(req[r].seen) <= 1
      BY DEF OneBody
    <2>1. req[r].seen = {} \/ req[r].seen = {req[r].main}
      BY Typed DEF Coherent, Watched
    <2>2. Cardinality({}) = 0 /\ Cardinality({req[r].main}) = 1
      BY FS_EmptySet, FS_Singleton
    <2> QED BY <2>1, <2>2
  <1>4. ~Hedging => NoneMeansUnsent
    BY Typed DEF Coherent, Shown, NoneMeansUnsent
  <1> QED BY <1>1, <1>2, <1>3, <1>4

(* For any requests, targets, costs and budget, however attempts, hedges,  *)
(* replacements and clients that hang up interleave: a target's            *)
(* outstanding count is the number of legs that hold a place on it, and    *)
(* what admission has committed on a deployment is the sum of what they    *)
(* were charged.  settle() (proxy.py, openai_api.py) never runs twice for  *)
(* a leg, and never for one that committed nothing.                        *)
THEOREM TheBooksBalance == Spec => []BooksBalance
  BY GInvariant, GImplies, PTL

(* The same with the types and with the breaker: a half-open circuit whose *)
(* probe is out has it with a leg that runs, or that was cancelled before  *)
(* it had a verdict (the except clauses of _attempt_on and forward).       *)
THEOREM HedgedBooks == Spec => []HedgeBooks
  <1>1. GInv => HedgeBooks
    BY GImplies DEF HedgeBooks
  <1> QED BY <1>1, GInvariant, PTL

(* check() and commit() with nothing awaited in between keep every         *)
(* deployment within its KV budget; failover_max_attempts bounds the       *)
(* targets of a request, twice as many with hedges, the replacement of a   *)
(* dead body included; and a client never has bytes of two targets.        *)
THEOREM RequestsBounded == Spec => []RequestBounds
  <1>1. GInv => RequestBounds
    BY GImplies DEF RequestBounds
  <1> QED BY <1>1, GInvariant, PTL

(* Without hedging _dispatch returns None only when no target that was     *)
(* sent the request has failed it, so that parking never sends it twice.   *)
THEOREM NoneOnlyUnsent == ASSUME ~Hedging PROVE Spec => []NoneMeansUnsent
  <1>1. GInv => NoneMeansUnsent
    BY GImplies
  <1> QED BY <1>1, GInvariant, PTL
=============================================================================
