------------------------------ MODULE Routing ------------------------------
(***************************************************************************)
(* The router of one served name: the target index and its scores          *)
(* (gateway/targets.py, strength.py), the policies (policies.py), the      *)
(* operator's override (router.py) and the admission blocks (admission.py).*)
(* Weights are shares of Scale; a key's home is its prefix hash.           *)
(***************************************************************************)
EXTENDS Integers, Sequences, FiniteSetsExt, SequencesExt

CONSTANTS
    Locals, Remotes,       \* deployments and provider:model targets
    IdOrder,               \* the targets in the order of their ids
    Predicted, Bandwidth,  \* of a local: the fit's estimate, its nodes' bandwidth; 0 for none
    Speeds,                \* decode rates that may be measured
    RemoteDefault,         \* remote_default_strength
    Seats,                 \* max_concurrent_seqs of a local, 0 for no bound
    Priority,              \* a provider's priority
    Cost,                  \* cost per token, or Unpriced
    WeakFloor, AutoSpread, \* in percent
    WeightScale,
    Keys, Home,            \* prefixes and prefix_hash of each
    MaxBusy

Targets == Locals \cup Remotes
Unpriced == -1
Nowhere == "nowhere"
Automatic == "auto"
Policies == {"least_outstanding", "round_robin", "weighted_capacity", "cache_affinity",
             "failover", "local_first", "cost_aware"}

ASSUME IdsOrdered ==
    /\ IdOrder \in Seq(Targets) /\ IdOrder # <<>>
    /\ ToSet(IdOrder) = Targets /\ Len(IdOrder) = Cardinality(Targets)
ASSUME RoutingAssumption ==
    /\ Locals \cap Remotes = {} /\ Nowhere \notin Targets
    /\ Predicted \in [Locals -> Nat] /\ Bandwidth \in [Locals -> Nat] /\ Seats \in [Locals -> Nat]
    /\ Priority \in [Remotes -> Int] /\ Cost \in [Targets -> Int] /\ Home \in [Keys -> Nat]
    /\ Speeds \subseteq Nat /\ RemoteDefault \in Nat /\ WeightScale \in Nat /\ MaxBusy \in Nat

VARIABLES
    standing,   \* a deployment's state; of a provider, absent, serving or not (pending)
    measured,   \* decode rate measured so far, 0 for none
    pressured,  \* locals with a node at critical_memory_pct
    blocks,     \* _blocks of the admission controller
    opened,     \* circuits that are open
    busy,       \* outstanding
    listed,     \* listed[t]: "no", or what the index saw of it
    raws,       \* raw_strength of the listed targets
    shares,     \* _scores: the weight of the targets of the last scoring
    override,   \* _overrides of this name
    turn,       \* PolicyState: [cursor, credit, sticky]
    pick        \* the last selection (history)

routingVars == <<standing, measured, pressured, blocks, opened, busy, listed, raws, shares,
                 override, turn, pick>>
live == <<standing, measured, pressured, opened>>
indexed == <<listed, raws, shares>>

Rank(t) == CHOOSE i \in DOMAIN IdOrder : IdOrder[i] = t
First(S, Before(_, _)) ==
    IF S = {} THEN Nowhere ELSE CHOOSE t \in S : \A u \in S \ {t} : Before(t, u)
Listed == {t \in Targets : listed[t] # "no"}

----------------------------------------------------------------------------
(* local_strength(), remote_strength(): what was measured, else what was   *)
(* predicted, else the bandwidth of nodes the registry still knows.        *)
LocalStrength(t, nodesRead) ==
    IF measured[t] > 0 THEN measured[t]
    ELSE IF Predicted[t] > 0 THEN Predicted[t]
    ELSE IF nodesRead /\ Bandwidth[t] > 0 THEN Bandwidth[t] ELSE 1
RemoteStrength(t) == IF measured[t] > 0 THEN measured[t] ELSE RemoteDefault

Strongest(strength, group) == IF group = {} THEN 0 ELSE Max({strength[t] : t \in group})
BelowFloor(t, strength, group) ==
    t \in Locals /\ strength[t] * 100 < Strongest(strength, group \cap Locals) * WeakFloor

(* apply_scores(): a remote nobody has measured stands at the mean of the  *)
(* locals beside it.                                                       *)
GroupRaw(group, strength) ==
    LET locals == {t \in group \cap Locals : strength[t] > 0}
        mean == MapThenSumSet(LAMBDA t : strength[t], locals) \div Cardinality(locals)
    IN [t \in group |-> IF t \in Remotes /\ measured[t] = 0 /\ locals # {} THEN mean ELSE strength[t]]

(* compute_weights(): shares of the strength above the floor.              *)
ComputeWeights(group, strength) ==
    LET counted == [t \in group |-> IF BelowFloor(t, strength, group) THEN 0 ELSE strength[t]]
        total == MapThenSumSet(LAMBDA t : counted[t], group)
    IN [t \in group |-> IF total <= 0 THEN WeightScale \div Cardinality(group)
                                      ELSE (counted[t] * WeightScale) \div total]

(* build_index(): a deployment counts once it serves, a provider while it  *)
(* is enabled, with its health as it was then.                             *)
Seen(t, deploymentsRead, providersRead) ==
    IF t \in Locals THEN (IF deploymentsRead /\ standing[t] = "serving" THEN "serving" ELSE "no")
    ELSE IF providersRead /\ standing[t] # "absent" THEN standing[t] ELSE "no"

MutPolicyScored(due, group) == due

(* New targets are scored at once, whether or not a scoring is due.        *)
PolicyScored(due, group) == due \/ ~(group \subseteq DOMAIN shares)

(* rebuild(): a source that raises is an empty list (_safe()); a target    *)
(* without a score brings the scoring forward; the breaker forgets what is *)
(* not in the index.                                                       *)
Rebuild(due, deploymentsRead, providersRead, nodesRead) ==
    LET seen == [t \in Targets |-> Seen(t, deploymentsRead, providersRead)]
        group == {t \in Targets : seen[t] # "no"}
        strength == [t \in group |-> IF t \in Locals THEN LocalStrength(t, nodesRead) ELSE RemoteStrength(t)]
    IN /\ listed' = seen
       /\ raws' = strength
       /\ shares' = IF PolicyScored(due, group)
                    THEN ComputeWeights(group, GroupRaw(group, strength)) ELSE shares
       /\ opened' = opened \cap group
       /\ UNCHANGED <<standing, measured, pressured, blocks, busy, override, turn, pick>>

----------------------------------------------------------------------------
(* _refresh_live() and eligible(): a deployment's state is read afresh, a  *)
(* provider's health is the index's copy.                                  *)
Eligible(t) ==
    /\ IF t \in Locals THEN standing[t] = "serving" /\ listed[t] # "no" ELSE listed[t] = "serving"
    /\ t \notin opened
    /\ blocks[t] = {}

Weight(t) == IF t \in DOMAIN shares THEN shares[t] ELSE 0

LeastOutstanding(pool) ==
    First(pool, LAMBDA t, u : busy[t] < busy[u] \/ (busy[t] = busy[u] /\ Rank(t) < Rank(u)))
Ahead(t, u) == IF t \in Locals <=> u \in Locals THEN Rank(t) < Rank(u) ELSE t \in Locals
StableOrder(pool) ==
    [i \in 1 .. Cardinality(pool) |-> CHOOSE t \in pool : Cardinality({u \in pool : Ahead(u, t)}) = i - 1]
Saturated(t) == t \in Locals /\ Seats[t] > 0 /\ busy[t] >= Seats[t]

Says(t) == [target |-> t, turn |-> turn]

SelectLeastOutstanding(pool) == Says(LeastOutstanding(pool))

MutSelectRoundRobin(pool) ==
    LET order == StableOrder(pool)
    IN IF pool = {} THEN Says(Nowhere)
       ELSE [target |-> order[(turn.cursor % Len(order)) + 1],
             turn |-> [turn EXCEPT !.cursor = (@ + 2) % Len(order)]]

MutSelectUnbounded(pool) ==
    LET order == StableOrder(pool)
    IN IF pool = {} THEN Says(Nowhere)
       ELSE [target |-> order[(turn.cursor % Len(order)) + 1],
             turn |-> [turn EXCEPT !.cursor = @ + 1]]

SelectRoundRobin(pool) ==
    LET order == StableOrder(pool)
    IN IF pool = {} THEN Says(Nowhere)
       ELSE [target |-> order[(turn.cursor % Len(order)) + 1],
             turn |-> [turn EXCEPT !.cursor = (@ + 1) % Len(order)]]

Round(weighted) == MapThenSumSet(LAMBDA t : shares[t], weighted)
Raised(weighted) == [t \in Targets |-> turn.credit[t] + (IF t \in weighted THEN Weight(t) ELSE 0)]
MostCredit(weighted) ==
    First(weighted, LAMBDA t, u : Raised(weighted)[t] > Raised(weighted)[u]
                                  \/ (Raised(weighted)[t] = Raised(weighted)[u] /\ Rank(t) < Rank(u)))

MutSelectWeightedCapacity(pool) ==
    LET weighted == {t \in pool : Weight(t) > 0}
        best == MostCredit(weighted)
    IN IF weighted = {} THEN Says(LeastOutstanding(pool))
       ELSE [target |-> best, turn |-> [turn EXCEPT !.credit = [Raised(weighted) EXCEPT ![best] = @ - WeightScale]]]

(* select_weighted_capacity(): smooth weighted round robin; everyone's     *)
(* credit rises by its weight and the one served pays for all.             *)
SelectWeightedCapacity(pool) ==
    LET weighted == {t \in pool : Weight(t) > 0}
        best == MostCredit(weighted)
    IN IF weighted = {} THEN Says(LeastOutstanding(pool))
       ELSE [target |-> best,
             turn |-> [turn EXCEPT !.credit = [Raised(weighted) EXCEPT ![best] = @ - Round(weighted)]]]

MutSelectCacheAffinity(offered, pool, key) ==
    LET locals == StableOrder(offered \cap Locals)
        pinned == turn.sticky[key]
        home == locals[(Home[key] % Len(locals)) + 1]
    IN IF locals = <<>> THEN Says(LeastOutstanding(pool))
       ELSE IF pinned # Nowhere THEN Says(pinned)
       ELSE IF home \notin pool THEN Says(LeastOutstanding(pool))
       ELSE [target |-> home, turn |-> [turn EXCEPT !.sticky[key] = home]]

MutSelectPinless(offered, pool, key) ==
    LET locals == StableOrder(offered \cap Locals)
        home == locals[(Home[key] % Len(locals)) + 1]
    IN IF locals = <<>> \/ home \notin pool THEN Says(LeastOutstanding(pool))
       ELSE [target |-> home, turn |-> [turn EXCEPT !.sticky[key] = home]]

(* select_cache_affinity(): the pin, then the home among all the locals,   *)
(* then whoever is free; only a home is pinned.                            *)
SelectCacheAffinity(offered, pool, key) ==
    LET locals == StableOrder(offered \cap Locals)
        pinned == turn.sticky[key]
        home == locals[(Home[key] % Len(locals)) + 1]
    IN IF locals = <<>> THEN Says(LeastOutstanding(pool))
       ELSE IF pinned \in offered \cap pool THEN Says(pinned)
       ELSE IF home \notin pool THEN Says(LeastOutstanding(pool))
       ELSE [target |-> home, turn |-> [turn EXCEPT !.sticky[key] = home]]

SelectFailover(pool) == Says(IF pool = {} THEN Nowhere ELSE StableOrder(pool)[1])

SelectLocalFirst(pool) ==
    LET free == {t \in pool \cap Locals : ~Saturated(t)}
        cheaper(t, u) == \/ Priority[t] < Priority[u]
                         \/ Priority[t] = Priority[u] /\ busy[t] < busy[u]
                         \/ Priority[t] = Priority[u] /\ busy[t] = busy[u] /\ Rank(t) < Rank(u)
    IN Says(IF free # {} THEN LeastOutstanding(free)
            ELSE IF pool \cap Remotes # {} THEN First(pool \cap Remotes, cheaper)
            ELSE LeastOutstanding(pool))

SelectCostAware(pool) ==
    LET priced == {t \in pool : Cost[t] # Unpriced}
        cheaper(t, u) == \/ Cost[t] < Cost[u]
                         \/ Cost[t] = Cost[u] /\ busy[t] < busy[u]
                         \/ Cost[t] = Cost[u] /\ busy[t] = busy[u] /\ Rank(t) < Rank(u)
    IN Says(First(priced, cheaper))

(* strength_spread() and auto_policy().                                    *)
Spread(group) ==
    LET local == {raws[t] : t \in {u \in group \cap Locals : raws[u] > 0}}
    IN IF Cardinality({u \in group \cap Locals : raws[u] > 0}) < 2 THEN 0
       ELSE ((Max(local) - Min(local)) * 100) \div Max(local)
AutoPolicy(group) ==
    IF group \cap Locals # {} /\ group \cap Remotes # {} THEN "local_first"
    ELSE IF Spread(group) > AutoSpread THEN "weighted_capacity" ELSE "least_outstanding"
PolicyFor(group) == IF override = Automatic THEN AutoPolicy(group) ELSE override

Selected(policy, offered, key) ==
    LET pool == {t \in offered : Eligible(t)} IN
    CASE policy = "least_outstanding" -> SelectLeastOutstanding(pool)
      [] policy = "round_robin"       -> SelectRoundRobin(pool)
      [] policy = "weighted_capacity" -> SelectWeightedCapacity(pool)
      [] policy = "cache_affinity"    -> SelectCacheAffinity(offered, pool, key)
      [] policy = "failover"          -> SelectFailover(pool)
      [] policy = "local_first"       -> SelectLocalFirst(pool)
      [] policy = "cost_aware"        -> SelectCostAware(pool)

(* Router.select(), and the request it sends.  tried is what a retry       *)
(* excludes: the target of the pick before it, which has failed.           *)
Route(key, retry) ==
    LET tried == IF retry THEN {pick.target} ELSE {}
        offered == Listed \ tried
        policy == PolicyFor(Listed)
        said == Selected(policy, offered, key)
    IN /\ retry => pick.target # Nowhere
       /\ Listed # {} /\ offered # {}
       /\ said.target # Nowhere => busy[said.target] < MaxBusy
       /\ turn' = said.turn
       /\ busy' = [t \in Targets |-> busy[t] + (IF t = said.target THEN 1 ELSE 0)]
       /\ pick' = [policy |-> policy, key |-> key, target |-> said.target,
                   pool |-> {t \in offered : Eligible(t)},
                   rotation |->
                        IF policy # "round_robin" \/ said.target = Nowhere THEN <<>>
                        ELSE IF retry \/ pick.rotation = <<>> \/ pick.pool # {t \in offered : Eligible(t)}
                             THEN <<said.target>>
                        ELSE IF Len(pick.rotation) < Cardinality(Targets)
                             THEN Append(pick.rotation, said.target)
                             ELSE Append(Tail(pick.rotation), said.target)]
       /\ UNCHANGED <<live, blocks, indexed, override>>

Finish(t) ==
    /\ busy[t] > 0
    /\ busy' = [busy EXCEPT ![t] = @ - 1]
    /\ UNCHANGED <<live, blocks, indexed, override, turn, pick>>

----------------------------------------------------------------------------
NewTurn == [cursor |-> 0, credit |-> [t \in Targets |-> 0], sticky |-> [k \in Keys |-> Nowhere]]

(* set_policy(): the override is kept although the name may serve nothing. *)
SetPolicy(policy) ==
    /\ override' = policy
    /\ turn' = NewTurn
    /\ pick' = [pick EXCEPT !.rotation = <<>>]
    /\ UNCHANGED <<live, blocks, busy, indexed>>

ClearPolicy ==
    /\ override' = Automatic
    /\ UNCHANGED <<live, blocks, busy, indexed, turn, pick>>

(* A pin has lived sticky_ttl_s.                                           *)
PinExpires(k) ==
    /\ turn.sticky[k] # Nowhere
    /\ turn' = [turn EXCEPT !.sticky[k] = Nowhere]
    /\ UNCHANGED <<live, blocks, busy, indexed, override, pick>>

(* reconcile(): both reasons of every deployment that is listed, a drain   *)
(* asked for by DELETE among them, are set anew.                           *)
BlocksOf(t) ==
    IF t \in Remotes \/ standing[t] = "absent" THEN blocks[t]
    ELSE (IF t \in pressured THEN {"memory"} ELSE {}) \cup (IF standing[t] = "stopping" THEN {"draining"} ELSE {})

Reconcile ==
    /\ blocks' = [t \in Targets |-> BlocksOf(t)]
    /\ UNCHANGED <<live, busy, indexed, override, turn, pick>>

(* DELETE /api/deployments: admission stops before the manager is asked.   *)
SetDraining(t) ==
    /\ standing[t] = "serving"
    /\ blocks' = [blocks EXCEPT ![t] = @ \cup {"draining"}]
    /\ UNCHANGED <<live, busy, indexed, override, turn, pick>>

Standings(t) == {"absent", "pending", "serving"} \cup (IF t \in Locals THEN {"stopping"} ELSE {})

(* What happens around the router.                                         *)
Stand(t, s) ==
    /\ standing[t] # s
    /\ standing' = [standing EXCEPT ![t] = s]
    /\ UNCHANGED <<measured, pressured, blocks, opened, busy, indexed, override, turn, pick>>
Measure(t, v) ==
    /\ measured[t] # v
    /\ measured' = [measured EXCEPT ![t] = v]
    /\ UNCHANGED <<standing, pressured, blocks, opened, busy, indexed, override, turn, pick>>
Press(t) ==
    /\ pressured' = IF t \in pressured THEN pressured \ {t} ELSE pressured \cup {t}
    /\ UNCHANGED <<standing, measured, blocks, opened, busy, indexed, override, turn, pick>>
Trip(t) ==
    /\ t \in Listed
    /\ opened' = IF t \in opened THEN opened \ {t} ELSE opened \cup {t}
    /\ UNCHANGED <<standing, measured, pressured, blocks, busy, indexed, override, turn, pick>>

(* Router.start(): everything serves and the index has been built.         *)
RoutingInit ==
    /\ standing = [t \in Targets |-> "serving"]
    /\ measured = [t \in Targets |-> 0]
    /\ pressured = {} /\ opened = {}
    /\ blocks = [t \in Targets |-> {}] /\ busy = [t \in Targets |-> 0]
    /\ listed = standing
    /\ raws = [t \in Targets |-> IF t \in Locals THEN LocalStrength(t, TRUE) ELSE RemoteStrength(t)]
    /\ shares = ComputeWeights(Targets, GroupRaw(Targets, raws))
    /\ override \in {Automatic} \cup Policies
    /\ turn = NewTurn
    /\ pick = [policy |-> Automatic, key |-> Nowhere, target |-> Nowhere, pool |-> {}, rotation |-> <<>>]

RoutingSelects == \E k \in Keys, retry \in BOOLEAN : Route(k, retry)
RoutingWorld ==
    \/ \E due \in BOOLEAN, d, p, n \in BOOLEAN : Rebuild(due, d, p, n)
    \/ \E t \in Targets : Finish(t) \/ Trip(t)
    \/ \E t \in Targets, v \in Speeds : Measure(t, v)
    \/ \E t \in Targets : \E s \in Standings(t) : Stand(t, s)
    \/ \E t \in Locals : Press(t) \/ SetDraining(t)
    \/ \E p \in Policies : SetPolicy(p)
    \/ ClearPolicy \/ Reconcile
    \/ \E k \in Keys : PinExpires(k)
RoutingNext == RoutingSelects \/ RoutingWorld
RoutingSpec == RoutingInit /\ [][RoutingNext]_routingVars

----------------------------------------------------------------------------
(* The router's state has its type, and the cursor fits the targets.       *)
RoutingTypeOK ==
    /\ standing \in [Targets -> {"absent", "pending", "stopping", "serving"}]
    /\ blocks \in [Targets -> SUBSET {"memory", "draining"}]
    /\ busy \in [Targets -> 0 .. MaxBusy]
    /\ DOMAIN raws = Listed
    /\ override \in Policies \cup {Automatic}
    /\ turn.cursor \in 0 .. Cardinality(Targets) - 1
    /\ turn.sticky \in [Keys -> Locals \cup {Nowhere}]

(* Every listed target has a score, whatever came and went since the last  *)
(* scoring, so no target is without a weight by accident (router.rebuild). *)
AllScored == Listed \subseteq DOMAIN shares

(* select() answers a target that may be used and was not tried, and has   *)
(* no answer only where nothing may be used, or nothing has a price and    *)
(* the policy is cost_aware: through stale pins, blocks and open circuits. *)
Served ==
    pick.policy # Automatic =>
        IF pick.target # Nowhere THEN pick.target \in pick.pool
        ELSE pick.pool = {} \/ (pick.policy = "cost_aware" /\ \A t \in pick.pool : Cost[t] = Unpriced)

(* The credits of smooth weighted round robin sum to nothing, and nobody's *)
(* is more than half a round for each of the other targets, although       *)
(* targets come, go, fail and are re-weighed in between, and the credit of *)
(* one that has left is kept: no target builds up a claim without end.     *)
CreditsBounded ==
    /\ MapThenSumSet(LAMBDA t : turn.credit[t], Targets) = 0
    /\ \A t \in Targets :
           LET most == WeightScale * (Cardinality(Targets) - 1)
           IN 2 * turn.credit[t] <= most /\ 2 * turn.credit[t] >= -most

(* While the pool stays as it is and nothing is retried, round robin comes *)
(* to every target before it comes to one again.                           *)
RotationEven ==
    LET n == Cardinality(pick.pool) r == pick.rotation IN
    \A i, j \in DOMAIN r : i < j /\ j - i < n => r[i] # r[j]

(* A conversation keeps its replica while that may be used and its pin     *)
(* lasts, although the set of replicas, and so its home, has changed.      *)
PinKept ==
    [][\A k \in Keys :
         /\ pick' # pick /\ pick'.policy = "cache_affinity" /\ pick'.key = k
         /\ turn.sticky[k] \in pick'.pool
         => pick'.target = turn.sticky[k]]_routingVars

(* Documented by DELETE ("Stop admitting immediately"): a replica that is  *)
(* draining is not routed to again until it has left.                      *)
DrainHolds ==
    [][\A t \in Locals : "draining" \in blocks[t] /\ "draining" \notin blocks'[t]
          => standing[t] # "serving"]_routingVars

(* What routing promises under every policy while targets come, go, fill   *)
(* up and slow down: every target has a score, a request is served when    *)
(* anything may be used, credits stay bounded, the rotation is even, and a *)
(* conversation keeps its replica.                                         *)
RoutingPromise ==
    [](RoutingTypeOK /\ AllScored /\ Served /\ CreditsBounded /\ RotationEven)
    /\ PinKept
============================================================================
