---------------------------- MODULE Membership -----------------------------
(***************************************************************************)
(* One worker and the coordinator it belongs to: registry/startup.py,      *)
(* bootstrap.py and agent.py on the worker's side, Registry on the other.  *)
(*                                                                         *)
(* The worker is started with a credential in its environment for good     *)
(* (install.sh bakes it in) and may hold the cluster's own token on disk.  *)
(* A join is a request and an answer; either side may die or the answer be *)
(* lost in between.  The coordinator asks the address it was given before  *)
(* it believes a join, and that fails while the address is not the         *)
(* worker's or its agent is not being served yet.                          *)
(***************************************************************************)
EXTENDS Registry

CONSTANTS
    Worker,      \* its node id
    Environment, \* credentials the environment may hold
    MaxFaults    \* deaths, losses, moves and removals in all

ASSUME WorkerAssumption == Worker \in Nodes \ {Local}
ASSUME EnvironmentAssumption == Environment \subseteq Credentials \ {"wrong"}
ASSUME MaxFaultsAssumption == MaxFaults \in Nat

VARIABLES
    phase,       \* where start_node() and the loops it starts are
    env,         \* DERATE_TOKEN
    explicit,    \* DERATE_JOIN is set; otherwise DERATE_ROLE=worker and mDNS
    disk,        \* the token in cluster.json
    config,      \* NodeRuntime.config: [token, fallback]
    waiting,     \* the token of rejoin_until_admitted()'s own copy of config
    agent,       \* NodeAgent._token
    status,      \* decision.status
    addr,        \* where the worker is
    known,       \* the address the running loop or runtime believes in
    quiet,       \* nothing has polled the agent for REANNOUNCE_UNPOLLED_S
    pending,     \* the call whose answer is awaited, or NoCall
    faults

NoCall == "no call"
worker == <<phase, env, explicit, disk, config, waiting, agent, status, addr, known, quiet,
            pending, faults>>
mvars == <<registryVars, worker>>

Phases == {"down", "boot", "rejoin", "steady"}

MembershipTypeOK ==
    /\ phase \in Phases
    /\ env \in Environment /\ explicit \in BOOLEAN
    /\ {disk, waiting, agent, config.token, config.fallback} \subseteq Credentials
    /\ status \in {"none", "rejected", "candidate", "member"}
    /\ {addr, known} \subseteq Urls \ {LocalUrl}
    /\ quiet \in BOOLEAN
    /\ pending \in Calls \cup {NoCall}
    /\ faults \in 0 .. MaxFaults

(* The coordinator is up and has minted the tokens; the worker is off.     *)
MembershipInit ==
    /\ phase = "down"
    /\ env \in Environment /\ explicit \in BOOLEAN
    /\ disk = "none" /\ waiting = "none" /\ agent = "none"
    /\ config = [token |-> "none", fallback |-> "none"]
    /\ status = "none"
    /\ addr \in Urls \ {LocalUrl} /\ known = addr
    /\ quiet = FALSE
    /\ pending = NoCall
    /\ faults = 0

Fault == faults < MaxFaults /\ faults' = faults + 1

----------------------------------------------------------------------------
MutRecovered == [token |-> IF env = "none" THEN disk ELSE env, fallback |-> "none"]

(* recover_credentials(): the environment's token leads, the stored one is *)
(* what to fall back on.                                                   *)
Recovered ==
    [token |-> IF env = "none" THEN disk ELSE env,
     fallback |-> IF env \notin {"none", disk} THEN disk ELSE "none"]

(* start_node(), up to resolve_role()'s first join.                        *)
Start ==
    /\ phase = "down" /\ pending = NoCall
    /\ phase' = "boot"
    /\ config' = Recovered
    /\ waiting' = Recovered.token
    /\ known' = addr
    /\ status' = "none" /\ agent' = "none" /\ quiet' = FALSE
    /\ UNCHANGED <<registryVars, env, explicit, disk, addr, pending, faults>>

(* The credential a loop leads with: rejoin_until_admitted() works on a    *)
(* copy of the configuration, the others on the configuration.             *)
Lead == IF phase = "rejoin" THEN waiting ELSE config.token

MutPost(cred) ==
    /\ pending = NoCall /\ known # NoUrl
    /\ phase \in {"boot", "rejoin"} \/ (phase = "steady" /\ known # addr)
    /\ \E c \in Calls :
        /\ Join(c, Worker, IF phase = "steady" THEN addr ELSE known, cred)
        /\ pending' = c
    /\ known' = IF phase = "steady" THEN addr ELSE known
    /\ UNCHANGED <<phase, env, explicit, disk, config, waiting, agent, status, addr, quiet, faults>>

(* post_join(): at start-up, in the rejoin loop, and in _announce_loop()   *)
(* when the address moved or nobody polls.                                 *)
Post(cred) ==
    /\ pending = NoCall /\ known # NoUrl
    /\ \/ phase \in {"boot", "rejoin"}
       \/ phase = "steady" /\ (quiet \/ known # addr)
    /\ \E c \in Calls :
        /\ Join(c, Worker, IF phase = "steady" THEN addr ELSE known, cred)
        /\ pending' = c
    /\ known' = IF phase = "steady" THEN addr ELSE known
    /\ UNCHANGED <<phase, env, explicit, disk, config, waiting, agent, status, addr, quiet, faults>>

PostLead == Post(Lead)

(* join_with_held_credentials(): refused, so the one held in reserve.      *)
PostFallback ==
    /\ pending \in Calls /\ calls[pending].op = "rejected"
    /\ calls[pending].cred # config.fallback /\ config.fallback # "none"
    /\ calls' = [calls EXCEPT ![pending] =
        [@ EXCEPT !.cred = config.fallback,
                  !.op = "join"]]
    /\ UNCHANGED <<books, store, round, worker>>

(* Both refused.  At start-up the node stays a worker and waits.           *)
Refused ==
    /\ pending \in Calls /\ calls[pending].op = "rejected"
    /\ config.fallback \in {"none", calls[pending].cred}
    /\ calls' = [calls EXCEPT ![pending] = NoRequest]
    /\ pending' = NoCall
    /\ phase' = IF phase = "boot" THEN "rejoin" ELSE phase
    /\ agent' = IF phase = "boot" THEN config.token ELSE agent
    /\ status' = IF phase = "boot" THEN "rejected" ELSE status
    /\ UNCHANGED <<books, store, round, env, explicit, disk, config, waiting, addr, known, quiet,
                   faults>>

MutAdopted(held, reply) == IF reply = "member+token" THEN reply ELSE held

(* adopt_cluster_token(): what the answer carries is written down before   *)
(* anything is derived from it.                                            *)
Adopted(held, reply) == IF reply = "member+token" THEN "cluster" ELSE held

(* An answer, at start-up: the credential that worked leads from now on.   *)
AcceptedAtBoot ==
    /\ phase = "boot"
    /\ LET used == Adopted(calls[pending].cred, calls[pending].op)
           member == calls[pending].op \in {"member", "member+token"}
       IN /\ config' = [config EXCEPT !.token = used]
          /\ waiting' = used
          /\ agent' = used
          /\ phase' = IF member THEN "steady" ELSE "rejoin"
          /\ status' = IF member THEN "member" ELSE "candidate"

(* In rejoin_until_admitted(): the loop's own copy learns what worked; on  *)
(* "member" _apply_admission() sets the runtime from the answer alone.     *)
AcceptedWaiting ==
    /\ phase = "rejoin"
    /\ LET reply == calls[pending].op
           member == reply \in {"member", "member+token"}
           held == Adopted(config.token, reply)
       IN /\ waiting' = Adopted(calls[pending].cred, reply)
          /\ config' = [config EXCEPT !.token = IF member THEN held ELSE @]
          /\ agent' = IF member THEN held ELSE agent
          /\ phase' = IF member THEN "steady" ELSE phase
          /\ status' = IF member THEN "member" ELSE status

(* In _announce_loop(): _apply_announcement().                             *)
AcceptedAnnouncing ==
    /\ phase = "steady"
    /\ LET used == Adopted(calls[pending].cred, calls[pending].op)
       IN /\ config' = [config EXCEPT !.token = used]
          /\ agent' = used
          /\ status' = IF calls[pending].op \in {"member", "member+token"}
                       THEN "member" ELSE "candidate"
    /\ UNCHANGED <<phase, waiting>>

Accepted ==
    /\ pending \in Calls /\ calls[pending].op \in Replies \ {"rejected"}
    /\ AcceptedAtBoot \/ AcceptedWaiting \/ AcceptedAnnouncing
    /\ disk' = Adopted(disk, calls[pending].op)
    /\ calls' = [calls EXCEPT ![pending] = NoRequest]
    /\ pending' = NoCall
    /\ UNCHANGED <<books, store, round, env, explicit, addr, known, quiet, faults>>

(* No answer (ProbeFailed).  With DERATE_JOIN that ends start_node();      *)
(* without it the node waits to be found.  The loops go on.                *)
Unanswered ==
    /\ pending' = NoCall
    /\ phase' = IF phase # "boot" \/ pending = NoCall THEN phase
                ELSE IF explicit THEN "down" ELSE "steady"
    /\ agent' = IF phase = "boot" /\ phase' = "steady" THEN config.token ELSE agent
    /\ UNCHANGED <<env, explicit, disk, config, waiting, status, addr, known, quiet>>

Lost == pending \in Calls /\ Fault /\ Unanswered /\ UNCHANGED registryVars

(* Who the answer was for has gone, or stopped waiting.                    *)
Unread(c) == c # pending /\ Returned(c) /\ UNCHANGED worker

(* The probe-back: it reaches the worker if that is where it is and its    *)
(* agent is served (not yet during start_node(), unless the process        *)
(* before this one still is).                                              *)
ProbeBack(c, kind) ==
    /\ \/ calls[c].at = addr /\ phase # "down" /\ (JoinMember(c, kind) \/ JoinNew(c, kind))
       \/ (calls[c].at # addr \/ phase \in {"down", "boot"}) /\ JoinUnprobed(c)
    /\ UNCHANGED worker

----------------------------------------------------------------------------
(* The coordinator polls its members where it believes they are.           *)
Poll ==
    /\ phase \in {"rejoin", "steady"} /\ Worker \in members /\ url[Worker] = addr /\ quiet
    /\ quiet' = FALSE
    /\ UNCHANGED <<registryVars, phase, env, explicit, disk, config, waiting, agent, status, addr, known,
                   pending, faults>>

(* REANNOUNCE_UNPOLLED_S go by without a poll.                             *)
Unpolled ==
    /\ phase = "steady" /\ ~quiet
    /\ ~(Worker \in members /\ url[Worker] = addr)
    /\ quiet' = TRUE
    /\ UNCHANGED <<registryVars, phase, env, explicit, disk, config, waiting, agent, status, addr, known,
                   pending, faults>>

(* The worker's process dies or is stopped.                                *)
Die ==
    /\ phase # "down" /\ Fault
    /\ phase' = "down" /\ pending' = NoCall
    /\ UNCHANGED <<registryVars, env, explicit, disk, config, waiting, agent, status, addr, known, quiet>>

(* Its address changes; the agent's re-probe sees it.                      *)
Move ==
    /\ Fault
    /\ addr' \in Urls \ {addr, LocalUrl}
    /\ UNCHANGED <<registryVars, phase, env, explicit, disk, config, waiting, agent, status, known, quiet,
                   pending>>

(* The coordinator restarts, on its data directory or on an empty one with *)
(* the same token.                                                         *)
Replaced ==
    /\ Booted(Blank)
    /\ tokens' = [t \in Tokens |-> 0] /\ tokenFile' = tokens'
    /\ calls' = [c \in Calls |-> NoRequest] /\ round' = {}
    /\ UNCHANGED <<expired, minted, letIn>>

CoordinatorDies == Fault /\ (Restart \/ Replaced) /\ Unanswered

Operator ==
    /\ \/ Admit(Worker) /\ UNCHANGED faults
       \/ RemoveNode(Worker) /\ Fault
       \/ \E t \in Tokens : (MintEnrollment(t, 1) \/ Expire(t)) /\ UNCHANGED faults
    /\ UNCHANGED <<phase, env, explicit, disk, config, waiting, agent, status, addr, known, quiet,
                   pending>>

WorkerStep == Start \/ PostLead \/ PostFallback \/ Refused \/ Accepted

MembershipNext ==
    \/ WorkerStep \/ Lost \/ Poll \/ Unpolled \/ Die \/ Move \/ CoordinatorDies \/ Operator
    \/ \E c \in Calls : Unread(c) \/ \E kind \in Kinds : ProbeBack(c, kind)

(* The worker's loops run, the coordinator answers what it is asked, and   *)
(* its health loop and the clock go on.  Nobody owes an admission.         *)
MembershipFairness ==
    /\ WF_mvars(WorkerStep)
    /\ \A c \in Calls : WF_mvars(Unread(c)) /\ WF_mvars(\E kind \in Kinds : ProbeBack(c, kind))
    /\ WF_mvars(Poll) /\ WF_mvars(Unpolled)

MembershipStart == RegistryInit /\ MembershipInit
MembershipSpec == MembershipStart /\ [][MembershipNext]_mvars /\ MembershipFairness

----------------------------------------------------------------------------
(* Properties.                                                             *)

OnFile == (Worker \in members /\ url[Worker] = addr) \/ candidates[Worker].at = addr

(* A worker that holds the cluster's token and is past its first admission *)
(* does not stay where the coordinator cannot find it: after a move, a     *)
(* removal, or a coordinator rebuilt from nothing, it is on file again at  *)
(* the address it is at (_announce_loop()).                                *)
FoundAgain ==
    (phase = "steady" /\ "cluster" \in {config.token, config.fallback}) ~>
        (OnFile \/ phase # "steady")

(* A member that holds the cluster's token on disk is not refused for      *)
(* good because the token in its environment is spent                      *)
(* (join_with_held_credentials(), recover_credentials()).                  *)
NotLockedOut ==
    (phase = "rejoin" /\ Worker \in members /\ disk = "cluster") ~>
        (phase # "rejoin" \/ Worker \notin members \/ known # addr)

(* What membership promises a worker through moves, restarts on either     *)
(* side and spent tokens: the coordinator finds it again, and it is not    *)
(* locked out.                                                             *)
MembershipPromise ==
    []MembershipTypeOK
    /\ FoundAgain /\ NotLockedOut

(* set_token(): "Without this the agent would keep refusing kills for the  *)
(* life of the process, on a node the coordinator already considers a      *)
(* member."                                                                *)
AgentAcceptsCluster ==
    (phase = "steady" /\ status = "member" /\ disk = "cluster") => agent = "cluster"

(* handle_join(): "Hand it over again rather than let this member 403      *)
(* itself out of the cluster": a member that was let in on an enrollment   *)
(* token ends up with the cluster's token.                                 *)
AdmissionKept ==
    (phase = "rejoin" /\ Worker \in members) ~>
        (phase # "rejoin" \/ Worker \notin members \/ known # addr)

(* A worker that is up gets on file, wherever it is.                       *)
EveryWorkerReturns == (phase = "rejoin" /\ disk = "cluster") ~> (OnFile \/ phase # "rejoin")
=============================================================================
