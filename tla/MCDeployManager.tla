-------------------------- MODULE MCDeployManager --------------------------
(* Instances of DeployManager for TLC.                                     *)
EXTENDS DeployManager, TLC

CONSTANTS d1, d2, n1, n2, m1, m2, op1, op2, fin

\* Two requests that may run side by side on one node.
MCNeighbours ==
    { [model |-> m1, name |-> "a", nodes |-> {n1}],
      [model |-> m2, name |-> "b", nodes |-> {n1}] }

MCOne == { [model |-> m1, name |-> "a", nodes |-> {n1}] }

MCSymmetry == Permutations(Ids) \cup Permutations(Callers)
=============================================================================
