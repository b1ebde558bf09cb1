------------------------- MODULE MCGatewayDispatch -------------------------
(* Instances of GatewayDispatch for TLC.                                   *)
EXTENDS GatewayDispatch, TLC

CONSTANTS r1, r2, r3, r4, t1, t2, t3

MCEqualCost == [r \in Requests |-> 1]

MCSymmetry == Permutations(Requests)
MCProviderSymmetry == Permutations(Requests) \cup {f \in Permutations(Targets) : f[t1] = t1}
MCTargetSymmetry == Permutations(Requests) \cup Permutations(Targets)
=============================================================================
