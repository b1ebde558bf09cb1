------------------------------ MODULE Registry -----------------------------
(***************************************************************************)
(* registry/registry.py: the coordinator's list of nodes, with the         *)
(* enrollment tokens of registry/enrollment.py and the file of             *)
(* registry/roster.py.                                                     *)
(*                                                                         *)
(* One event loop runs the whole of it, so an action is what happens       *)
(* between two awaits.  The awaits are the calls to an agent: a join, a    *)
(* manual add, a refresh and a health round each read the books, wait for  *)
(* the far side, and then write books that may have moved meanwhile.  An   *)
(* entry a dict does not hold is the default `.get` gives for it.          *)
(***************************************************************************)
EXTENDS Integers, FiniteSets

CONSTANTS
    Nodes,       \* node ids
    Local,       \* the coordinator's own
    Urls,        \* agent addresses
    LocalUrl,    \* the coordinator's own
    NoUrl,
    Kinds,       \* what a probe can identify hardware as
    Unknown,     \* what it says when it cannot
    LocalKind,   \* what it says on the coordinator's machine
    Labels, NoLabel,
    Tokens,      \* enrollment tokens; one is minted once
    Supervised,  \* those minted with auto_admit off
    MaxUses,     \* bound on mint(uses)
    Calls,       \* requests that can be in flight together
    MissLimit    \* HEARTBEAT_MISSES_UNHEALTHY

ASSUME NodesAssumption == Local \in Nodes /\ LocalUrl \in Urls /\ NoUrl \notin Urls
ASSUME KindsAssumption == Unknown \notin Kinds /\ LocalKind \in Kinds \cup {Unknown}
ASSUME LabelsAssumption == NoLabel \notin Labels
ASSUME LimitAssumption == MissLimit \in Nat \ {0} /\ MaxUses \in Nat
ASSUME CredentialsAssumption ==
    Supervised \subseteq Tokens /\ Tokens \cap {"none", "cluster", "wrong"} = {}

VARIABLES
    members,     \* keys of _members
    profile,     \* _members[n].profile
    healthy,     \* _members[n].healthy
    candidates,  \* _candidates[n], or NoCandidate
    url,         \* _agent_urls[n], or NoUrl
    label,       \* _labels[n], or NoLabel
    misses,      \* _misses[n], up to MissLimit: more changes nothing
    sampled,     \* nodes the telemetry store holds a sample of
    roster,      \* registry.json
    tokens,      \* EnrollmentStore._tokens[t].uses_remaining; 0: not held
    tokenFile,   \* enrollment.json
    expired,     \* tokens whose expires_at has passed
    minted,      \* uses a token was minted with; 0: not yet
    letIn,       \* how often a token has admitted a node (history)
    calls,       \* handle_join, add_node and refresh_profile in their await
    round        \* the ids a health round is asking, {} between rounds

books == <<members, profile, healthy, candidates, url, label, misses, sampled, roster>>
store == <<tokens, tokenFile, expired, minted, letIn>>
registryVars == <<books, store, calls, round>>

NoCandidate == [kind |-> Unknown, at |-> NoUrl]
Profiles == Kinds \cup {Unknown}
Places == Urls \cup {NoUrl}
Credentials == Tokens \cup {"none", "cluster", "wrong"}
NoRequest == [op |-> "idle", node |-> Local, at |-> NoUrl, cred |-> "none"]
Replies == {"rejected", "candidate", "thin", "member", "member+token"}
Ops == {"idle", "join", "add", "refresh"} \cup Replies

Entry == [kind: Profiles, at: Places, label: Labels \cup {NoLabel}]
NoEntry == [kind |-> Unknown, at |-> NoUrl, label |-> NoLabel]

RegistryTypeOK ==
    /\ members \subseteq Nodes /\ sampled \subseteq Nodes /\ round \subseteq Nodes
    /\ profile \in [Nodes -> Profiles]
    /\ healthy \in [Nodes -> BOOLEAN]
    /\ candidates \in [Nodes -> [kind: Profiles, at: Places]]
    /\ url \in [Nodes -> Places]
    /\ label \in [Nodes -> Labels \cup {NoLabel}]
    /\ misses \in [Nodes -> 0 .. MissLimit]
    /\ roster \in [members: [Nodes -> Entry], ids: SUBSET Nodes,
                   candidates: [Nodes -> [kind: Profiles, at: Places]]]
    /\ tokens \in [Tokens -> 0 .. MaxUses] /\ tokenFile \in [Tokens -> 0 .. MaxUses]
    /\ minted \in [Tokens -> 0 .. MaxUses] /\ letIn \in [Tokens -> Nat]
    /\ expired \subseteq Tokens
    /\ calls \in [Calls -> [op: Ops, node: Nodes, at: Places, cred: Credentials]]

----------------------------------------------------------------------------
(* The roster.                                                             *)

(* _persist_roster(): the books as they are now, in one atomic write.      *)
Persisted(ms, ps, us, ls, cs) ==
    [ids |-> ms,
     members |-> [n \in Nodes |->
        IF n \in ms THEN [kind |-> ps[n], at |-> us[n], label |-> ls[n]] ELSE NoEntry],
     candidates |-> cs]

Persist == roster' = Persisted(members', profile', url', label', candidates')

(* __init__ on what load_roster() found, enroll_local() for this machine,  *)
(* and start() up to its first await.  A restored member is healthy and    *)
(* unmeasured, and what is local is never a candidate.                     *)
Booted(file) ==
    /\ members' = file.ids \cup {Local}
    /\ profile' = [n \in Nodes |-> IF n = Local THEN LocalKind ELSE file.members[n].kind]
    /\ healthy' = [n \in Nodes |-> TRUE]
    /\ candidates' = [file.candidates EXCEPT ![Local] = NoCandidate]
    /\ url' = [n \in Nodes |-> IF n = Local THEN LocalUrl ELSE file.members[n].at]
    /\ label' = [n \in Nodes |-> file.members[n].label]
    /\ misses' = [n \in Nodes |-> 0]
    /\ sampled' = {}
    /\ Persist

Blank ==
    [ids |-> {}, members |-> [n \in Nodes |-> NoEntry], candidates |-> [n \in Nodes |-> NoCandidate]]

(* A coordinator with nobody else on its roster, and tokens already minted *)
(* or not.                                                                 *)
RegistryInit ==
    /\ members = {Local}
    /\ healthy = [n \in Nodes |-> TRUE]
    /\ candidates = [n \in Nodes |-> NoCandidate]
    /\ url = [n \in Nodes |-> IF n = Local THEN LocalUrl ELSE NoUrl]
    /\ label = [n \in Nodes |-> NoLabel]
    /\ misses = [n \in Nodes |-> 0]
    /\ sampled = {}
    /\ profile = [n \in Nodes |-> IF n = Local THEN LocalKind ELSE Unknown]
    /\ roster = Persisted(members, profile, url, label, candidates)
    /\ tokens \in [Tokens -> 0 .. MaxUses] /\ tokenFile = tokens /\ minted = tokens
    /\ letIn = [t \in Tokens |-> 0] /\ expired = {}
    /\ calls = [c \in Calls |-> NoRequest]
    /\ round = {}

----------------------------------------------------------------------------
(* Enrollment tokens.                                                      *)

(* _prune(): a token is dead past expires_at or with no use left.          *)
Pruned(ts) == [t \in Tokens |-> IF t \in expired THEN 0 ELSE ts[t]]

(* mint(): a use count below 1 is refused.                                 *)
MintEnrollment(t, uses) ==
    /\ minted[t] = 0 /\ uses >= 1
    /\ minted' = [minted EXCEPT ![t] = uses]
    /\ tokens' = [Pruned(tokens) EXCEPT ![t] = uses]
    /\ tokenFile' = tokens'
    /\ UNCHANGED <<books, calls, round, expired, letIn>>

(* verify(): prune, save if that dropped any, and look the token up.       *)
Verified(t) ==
    /\ tokens' = Pruned(tokens)
    /\ tokenFile' = IF tokens' = tokens THEN tokenFile ELSE tokens'

LiveToken(t) == tokens[t] > 0 /\ t \notin expired

MutConsumed(t) == tokens' = [tokens EXCEPT ![t] = @ - 1] /\ tokenFile' = tokens'
MutConsumedNot(t) == UNCHANGED <<tokens, tokenFile>>

(* consume(): nothing if the token has gone meanwhile.                     *)
Consumed(t) ==
    /\ tokens' = [tokens EXCEPT ![t] = IF @ = 0 THEN 0 ELSE @ - 1]
    /\ tokenFile' = IF tokens[t] = 0 THEN tokenFile ELSE tokens'

MutRevokeEnrollment(t) ==
    /\ tokens[t] > 0
    /\ tokens' = [tokens EXCEPT ![t] = 0]
    /\ UNCHANGED <<books, calls, round, tokenFile, expired, minted, letIn>>

(* revoke()                                                                *)
RevokeEnrollment(t) ==
    /\ tokens[t] > 0
    /\ tokens' = [tokens EXCEPT ![t] = 0]
    /\ tokenFile' = tokens'
    /\ UNCHANGED <<books, calls, round, expired, minted, letIn>>

(* live() and public_list(): reading the list prunes it.                   *)
ListEnrollments ==
    /\ tokens' = Pruned(tokens)
    /\ tokens' # tokens
    /\ tokenFile' = tokens'
    /\ UNCHANGED <<books, calls, round, expired, minted, letIn>>

(* Time passes a token's expires_at.                                       *)
Expire(t) ==
    /\ minted[t] > 0 /\ t \notin expired
    /\ expired' = expired \cup {t}
    /\ UNCHANGED <<books, calls, round, tokens, tokenFile, minted, letIn>>

----------------------------------------------------------------------------
(* Admission.                                                              *)

MutForgotten(n) ==
    /\ url' = [url EXCEPT ![n] = NoUrl]
    /\ misses' = [misses EXCEPT ![n] = 0]
    /\ sampled' = sampled \ {n}
    /\ UNCHANGED label

Forgotten(n) ==
    /\ url' = [url EXCEPT ![n] = NoUrl]
    /\ label' = [label EXCEPT ![n] = NoLabel]
    /\ misses' = [misses EXCEPT ![n] = 0]
    /\ sampled' = sampled \ {n}

(* admit() of a candidate's record: the one place a NodeState is built.    *)
Admitted(n, record) ==
    /\ members' = members \cup {n}
    /\ candidates' = [candidates EXCEPT ![n] = NoCandidate]
    /\ profile' = [profile EXCEPT ![n] = record.kind]
    /\ healthy' = [healthy EXCEPT ![n] = TRUE]
    /\ url' = [url EXCEPT ![n] = record.at]
    /\ misses' = [misses EXCEPT ![n] = 0]
    /\ UNCHANGED <<label, sampled>>
    /\ Persist

(* admit(): of a member it changes nothing.                                *)
Admit(n) ==
    /\ n \notin members /\ candidates[n] # NoCandidate
    /\ Admitted(n, candidates[n])
    /\ UNCHANGED <<store, calls, round>>

(* A join reaches handle_join(): a credential that is neither the          *)
(* cluster's nor a live enrollment token is refused before anything is     *)
(* written; every other call goes on to probe the address it gave.         *)
Join(c, n, at, cred) ==
    /\ calls[c].op = "idle" /\ n # Local
    /\ calls' = [calls EXCEPT ![c] =
        [op |-> IF cred \in {"none", "cluster"} \/ (cred \in Tokens /\ LiveToken(cred))
                THEN "join" ELSE "rejected",
         node |-> n, at |-> at, cred |-> cred]]
    /\ IF cred \in {"none", "cluster"} THEN UNCHANGED <<tokens, tokenFile>> ELSE Verified(cred)
    /\ UNCHANGED <<books, round, expired, minted, letIn>>

Answer(c, reply) == calls' = [calls EXCEPT ![c].op = reply]

(* The probe-back fails, or answers as somebody else.                      *)
JoinUnprobed(c) ==
    /\ calls[c].op = "join"
    /\ Answer(c, "rejected")
    /\ UNCHANGED <<books, store, round>>

MutRejoinedUnforgiven(n, at, cred, kind) ==
    /\ profile' = [profile EXCEPT ![n] = IF cred = "none" THEN @ ELSE kind]
    /\ url' = [url EXCEPT ![n] = IF cred = "none" THEN @ ELSE at]
    /\ healthy' = [healthy EXCEPT ![n] = @ \/ cred # "none"]
    /\ UNCHANGED <<members, candidates, label, sampled, misses>>
    /\ IF cred = "none" THEN UNCHANGED roster ELSE Persist

MutRejoinedAnyone(n, at, cred, kind) ==
    /\ profile' = [profile EXCEPT ![n] = kind]
    /\ url' = [url EXCEPT ![n] = at]
    /\ healthy' = [healthy EXCEPT ![n] = TRUE]
    /\ misses' = [misses EXCEPT ![n] = 0]
    /\ UNCHANGED <<members, candidates, label, sampled>>
    /\ Persist

(* A member: with a credential its address and profile are rewritten and   *)
(* its misses forgiven; with none it only learns that it is one.           *)
Rejoined(n, at, cred, kind) ==
    /\ profile' = [profile EXCEPT ![n] = IF cred = "none" THEN @ ELSE kind]
    /\ url' = [url EXCEPT ![n] = IF cred = "none" THEN @ ELSE at]
    /\ healthy' = [healthy EXCEPT ![n] = @ \/ cred # "none"]
    /\ misses' = [misses EXCEPT ![n] = IF cred = "none" THEN @ ELSE 0]
    /\ UNCHANGED <<members, candidates, label, sampled>>
    /\ IF cred = "none" THEN UNCHANGED roster ELSE Persist

JoinMember(c, kind) ==
    LET call == calls[c] IN
    /\ call.op = "join" /\ call.node \in members
    /\ Rejoined(call.node, call.at, call.cred, kind)
    /\ Answer(c, IF call.cred \in Tokens THEN "member+token" ELSE "member")
    /\ UNCHANGED <<store, round>>

(* Somebody new: an enrollment token admits it and is consumed, unless it  *)
(* was minted to propose only; that, the cluster's token or none makes it  *)
(* a candidate (offer_candidate()).                                        *)
JoinNew(c, kind) ==
    LET call == calls[c]
        record == [kind |-> kind, at |-> call.at]
    IN /\ call.op = "join" /\ call.node \notin members
       /\ IF call.cred \in Tokens \ Supervised
          THEN /\ Admitted(call.node, record)
               /\ Consumed(call.cred)
               /\ letIn' = [letIn EXCEPT ![call.cred] = @ + 1]
               /\ Answer(c, "member+token")
               /\ UNCHANGED <<expired, minted>>
          ELSE /\ candidates' = [candidates EXCEPT ![call.node] = record]
               /\ UNCHANGED <<members, profile, healthy, url, label, misses, sampled, store>>
               /\ Persist
               /\ Answer(c, IF call.cred = "none" THEN "thin" ELSE "candidate")
       /\ UNCHANGED round

(* The caller reads its answer, or has gone.                               *)
Returned(c) ==
    /\ calls[c].op \in Replies
    /\ calls' = [calls EXCEPT ![c] = NoRequest]
    /\ UNCHANGED <<books, store, round>>

(* add_node(): a human types an address; what answers there is admitted,   *)
(* whatever it is.  For one that is a member already admit() returns       *)
(* first and the candidate's record just written stays.                    *)
AddNode(c, at) ==
    /\ calls[c].op = "idle"
    /\ calls' = [calls EXCEPT ![c] = [NoRequest EXCEPT !.op = "add", !.at = at]]
    /\ UNCHANGED <<books, store, round>>

AddProbed(c, n, kind) ==
    LET record == [kind |-> kind, at |-> calls[c].at] IN
    /\ calls[c].op = "add" /\ n # Local
    /\ IF n \in members
       THEN /\ candidates' = [candidates EXCEPT ![n] = record]
            /\ UNCHANGED <<members, profile, healthy, url, label, misses, sampled, roster>>
       ELSE Admitted(n, record)
    /\ calls' = [calls EXCEPT ![c] = NoRequest]
    /\ UNCHANGED <<store, round>>

AddFailed(c) ==
    /\ calls[c].op = "add"
    /\ calls' = [calls EXCEPT ![c] = NoRequest]
    /\ UNCHANGED <<books, store, round>>

(* remove_node(): an unknown id is an error.                               *)
RemoveNode(n) ==
    /\ n \in members \/ candidates[n] # NoCandidate
    /\ members' = members \ {n}
    /\ candidates' = [candidates EXCEPT ![n] = NoCandidate]
    /\ Forgotten(n)
    /\ profile' = [profile EXCEPT ![n] = Unknown]
    /\ healthy' = [healthy EXCEPT ![n] = TRUE]
    /\ Persist
    /\ UNCHANGED <<store, calls, round>>

(* dismiss_candidate()                                                     *)
DismissCandidate(n) ==
    /\ candidates[n] # NoCandidate
    /\ candidates' = [candidates EXCEPT ![n] = NoCandidate]
    /\ UNCHANGED <<members, profile, healthy, url, label, misses, sampled, store, calls, round>>
    /\ Persist

MutSetNodeLabel(n, l) ==
    /\ n \in members /\ label[n] # l
    /\ label' = [label EXCEPT ![n] = l]
    /\ UNCHANGED <<members, profile, healthy, candidates, url, misses, sampled, roster, store,
                   calls, round>>

(* set_node_label(): members only, and saved only when it changes.         *)
SetNodeLabel(n, l) ==
    /\ n \in members /\ label[n] # l
    /\ label' = [label EXCEPT ![n] = l]
    /\ UNCHANGED <<members, profile, healthy, candidates, url, misses, sampled, store, calls, round>>
    /\ Persist

----------------------------------------------------------------------------
(* Rounds.                                                                 *)

(* profile_supersedes(): silence never replaces an identification.         *)
Supersedes(fresh, held) == fresh # Unknown \/ held = Unknown

(* refresh_profile(): one member's hardware, re-read over its address.     *)
Refresh(c, n) ==
    /\ calls[c].op = "idle" /\ n \in members /\ url[n] # NoUrl
    /\ calls' = [calls EXCEPT ![c] = [NoRequest EXCEPT !.op = "refresh", !.node = n]]
    /\ UNCHANGED <<books, store, round>>

(* It answers, as itself (who = the node asked) or as another.  The books  *)
(* are read again: the member may have gone or been replaced.              *)
RefreshAnswered(c, who, fresh) ==
    LET n == calls[c].node IN
    /\ calls[c].op = "refresh"
    /\ calls' = [calls EXCEPT ![c] = NoRequest]
    /\ IF n \in members /\ who = n /\ Supersedes(fresh, profile[n]) /\ fresh # profile[n]
       THEN /\ profile' = [profile EXCEPT ![n] = fresh]
            /\ UNCHANGED <<members, healthy, candidates, url, label, misses, sampled>>
            /\ Persist
       ELSE UNCHANGED books
    /\ UNCHANGED <<store, round>>

(* health_round(): the ids are listed, everyone is asked at once ...       *)
HealthRound ==
    /\ round = {} /\ members # {}
    /\ round' = members
    /\ UNCHANGED <<books, store, calls>>

(* ... and the answers are recorded for those ids, whoever is a member by  *)
(* then (record_health()).  A miss of MissLimit in a row is unhealthy, one *)
(* answer clears it, and nobody is removed.  The local node is healthy by  *)
(* definition and one without an address is a miss (check_health()).       *)
RecordHealth(ok) ==
    /\ round # {} /\ ok \subseteq round
    /\ Local \in round => Local \in ok
    /\ misses' = [n \in Nodes |->
        IF n \notin round \cap members THEN misses[n]
        ELSE IF n \in ok THEN 0
        ELSE IF misses[n] < MissLimit THEN misses[n] + 1 ELSE MissLimit]
    /\ healthy' = [n \in Nodes |->
        IF n \notin round \cap members THEN healthy[n]
        ELSE n \in ok \/ (healthy[n] /\ misses'[n] < MissLimit)]
    /\ round' = {}
    /\ UNCHANGED <<members, profile, candidates, url, label, sampled, roster, store, calls>>

(* _sample_node() and apply_sample(): for a member with an address.        *)
ApplySample(n) ==
    /\ n \in members /\ url[n] # NoUrl /\ n \notin sampled
    /\ sampled' = sampled \cup {n}
    /\ UNCHANGED <<members, profile, healthy, candidates, url, label, misses, roster, store,
                   calls, round>>

(* The process ends, with what was in flight, and a new one starts on the  *)
(* same data directory.  EnrollmentStore._load() prunes and does not save. *)
Restart ==
    /\ Booted(roster)
    /\ tokens' = Pruned(tokenFile)
    /\ calls' = [c \in Calls |-> NoRequest]
    /\ round' = {}
    /\ UNCHANGED <<tokenFile, expired, minted, letIn>>

----------------------------------------------------------------------------
(* What comes from outside: operators, joining machines, the clock.        *)
RegistryRequest ==
    \/ \E t \in Tokens : \/ \E uses \in 0 .. MaxUses : MintEnrollment(t, uses)
                         \/ RevokeEnrollment(t) \/ Expire(t)
    \/ ListEnrollments
    \/ \E c \in Calls, n \in Nodes, at \in Urls \ {LocalUrl}, cred \in Credentials : Join(c, n, at, cred)
    \/ \E c \in Calls, at \in Urls \ {LocalUrl} : AddNode(c, at)
    \/ \E n \in Nodes : \/ Admit(n) \/ RemoveNode(n) \/ DismissCandidate(n)
                        \/ \E l \in Labels \cup {NoLabel} : SetNodeLabel(n, l)
    \/ Restart

(* What the coordinator does by itself, and the answers it waits for.      *)
RegistryProceed ==
    \/ \E c \in Calls : \/ JoinUnprobed(c) \/ Returned(c) \/ AddFailed(c)
                        \/ \E kind \in Profiles : JoinMember(c, kind) \/ JoinNew(c, kind)
                        \/ \E n \in Nodes, kind \in Profiles :
                            AddProbed(c, n, kind) \/ RefreshAnswered(c, n, kind)
                        \/ \E n \in Nodes : Refresh(c, n)
    \/ \E n \in Nodes : ApplySample(n)
    \/ HealthRound \/ \E ok \in SUBSET Nodes : RecordHealth(ok)

RegistryNext == RegistryRequest \/ RegistryProceed

RegistrySpec == RegistryInit /\ [][RegistryNext]_registryVars

----------------------------------------------------------------------------
(* Properties.                                                             *)

(* The five dicts of the registry are written by a dozen handlers, most of *)
(* them on either side of an await, and stay one book: whoever is not a    *)
(* member has no address, name, misses or telemetry left behind.           *)
BooksTogether ==
    \A n \in Nodes \ members :
        url[n] = NoUrl /\ label[n] = NoLabel /\ misses[n] = 0 /\ n \notin sampled

(* A coordinator that dies at any moment comes back with the members it    *)
(* had, where they were and what they were called.                         *)
RosterAgrees ==
    roster.ids = members /\ roster.members = Persisted(members, profile, url, label, candidates).members

(* A member is unhealthy exactly when its last MissLimit polls all missed, *)
(* whatever joined, moved or was re-admitted while a round was in flight.  *)
UnhealthyEarned == \A n \in members : ~healthy[n] <=> misses[n] = MissLimit

(* Where a member's traffic goes, and what its hardware is known to be,    *)
(* is moved by a join that carried a credential and by nothing else; a     *)
(* restart re-reads only the coordinator itself.                           *)
OnlyCredentialsMove ==
    [][\A n \in Nodes \ {Local} :
        n \in members \cap members'
        /\ (url'[n] # url[n] \/ (profile[n] # Unknown /\ profile'[n] = Unknown))
        => \E c \in Calls : calls[c].op = "join" /\ calls[c].node = n
                            /\ calls[c].cred # "none" /\ calls'[c].op \in Replies]_registryVars

(* What an enrollment token has left is what it was minted with less what  *)
(* it has let in, across restarts and overlapping joins, as long as it is  *)
(* held at all.                                                            *)
UsesHonest == \A t \in Tokens : tokens[t] > 0 => tokens[t] + letIn[t] = minted[t]

(* Restarting loses no token that could still be used, and revives none    *)
(* that was spent or revoked.                                              *)
TokenFileAgrees == Pruned(tokenFile) = Pruned(tokens)

(* candidates(): "Discovered, not yet admitted."                           *)
CandidatesWait == \A n \in members : candidates[n] = NoCandidate

(* What the registry promises while joins, polls, heartbeats, removals and *)
(* restarts interleave at every await: its five dicts stay one book, a     *)
(* restart finds the roster that was, a member is unhealthy exactly when   *)
(* its last polls all missed, traffic is moved by a credential and by      *)
(* nothing else, and a token lets in no more than it was minted for,       *)
(* across restarts.                                                        *)
RegistryPromise ==
    [](RegistryTypeOK /\ BooksTogether /\ RosterAgrees /\ UnhealthyEarned /\ UsesHonest /\ TokenFileAgrees)
    /\ OnlyCredentialsMove
=============================================================================
