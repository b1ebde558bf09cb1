---------------------------- MODULE DeployClaims ----------------------------
(***************************************************************************)
(* What the deployment manager promises its callers, with the threads, the *)
(* store and the restarts left out: a table of claims.  A launch takes a   *)
(* claim on a served name and, for one model, on nodes; nobody else gets a *)
(* clashing one until it is given up; a deployment id claims once.         *)
(* DeployManager implements this (control_plane/deploy/manager.py,         *)
(* _find_conflict: "Terminal deployments hold nothing").                   *)
(***************************************************************************)
CONSTANTS Ids, Requests, NoRequest

VARIABLES
    held,   \* the request each id holds a claim for, or NoRequest
    used    \* ids that have claimed

Excludes(r, q) == \/ r.name = q.name
                  \/ r.model = q.model /\ r.nodes \cap q.nodes # {}

Init ==
    /\ held = [d \in Ids |-> NoRequest]
    /\ used = {}

Claim(d, r) ==
    /\ d \notin used
    /\ \A e \in Ids : held[e] # NoRequest => ~Excludes(held[e], r)
    /\ held' = [held EXCEPT ![d] = r]
    /\ used' = used \cup {d}

GiveUp(d) ==
    /\ held[d] # NoRequest
    /\ held' = [held EXCEPT ![d] = NoRequest]
    /\ UNCHANGED used

Next == \E d \in Ids : GiveUp(d) \/ \E r \in Requests : Claim(d, r)

Spec == Init /\ [][Next]_<<held, used>>
=============================================================================
