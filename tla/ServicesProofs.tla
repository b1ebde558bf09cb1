--------------------------- MODULE ServicesProofs ---------------------------
(***************************************************************************)
(* The node registry, kills of GPU processes, pulls of models, link        *)
(* measurements, the inventory and the model resolver keep their promises, *)
(* for any nodes, tokens, processes, pids, models, configurations and any  *)
(* number of calls in flight.                                              *)
(* Each part has variables of its own and is argued about on its own.      *)
(***************************************************************************)
EXTENDS Registry, Kills, Pulls, Links, Inventory, Resolver, NumberFacts, SequenceTheorems, TLAPS

----------------------------------------------------------------------------
(* The registry.  The books (who is a member, where it is and how it is)   *)
(* and the token store are argued about one after the other: the only      *)
(* thing that ties them together is a join in flight.                      *)

BooksType ==
    /\ members \subseteq Nodes /\ sampled \subseteq Nodes /\ round \subseteq Nodes
    /\ profile \in [Nodes -> Profiles]
    /\ healthy \in [Nodes -> BOOLEAN]
    /\ candidates \in [Nodes -> [kind: Profiles, at: Places]]
    /\ url \in [Nodes -> Places]
    /\ label \in [Nodes -> Labels \cup {NoLabel}]
    /\ misses \in [Nodes -> 0 .. MissLimit]
    /\ roster \in [members: [Nodes -> Entry], ids: SUBSET Nodes,
                   candidates: [Nodes -> [kind: Profiles, at: Places]]]
StoreType ==
    /\ tokens \in [Tokens -> 0 .. MaxUses] /\ tokenFile \in [Tokens -> 0 .. MaxUses]
    /\ minted \in [Tokens -> 0 .. MaxUses] /\ letIn \in [Tokens -> Nat]
    /\ expired \subseteq Tokens
CallsType == calls \in [Calls -> [op: Ops, node: Nodes, at: Places, cred: Credentials]]

BooksInv == BooksType /\ BooksTogether /\ RosterAgrees /\ UnhealthyEarned

(* A token nobody minted has let nobody in, and a join that goes on with   *)
(* one was shown it: without that, minting it would start it in debt.      *)
NothingBeforeMint == \A t \in Tokens : minted[t] = 0 => letIn[t] = 0
JoinsVouched == \A c \in Calls : calls[c].op = "join" /\ calls[c].cred \in Tokens => minted[calls[c].cred] > 0

StoreInv == StoreType /\ UsesHonest /\ TokenFileAgrees /\ NothingBeforeMint /\ JoinsVouched

RInv == CallsType /\ BooksInv /\ StoreInv

----------------------------------------------------------------------------
(* The books.                                                              *)

LEMMA NothingTyped ==
    /\ NoCandidate \in [kind: Profiles, at: Places]
    /\ NoEntry \in Entry
    /\ NoRequest \in [op: Ops, node: Nodes, at: Places, cred: Credentials]
  BY NodesAssumption DEF NoCandidate, NoEntry, NoRequest, Profiles, Places, Entry, Ops, Credentials

(* What _persist_roster() writes is a roster, and one that agrees.         *)
LEMMA PersistAgrees ==
    ASSUME members' \subseteq Nodes, profile' \in [Nodes -> Profiles],
           candidates' \in [Nodes -> [kind: Profiles, at: Places]],
           url' \in [Nodes -> Places], label' \in [Nodes -> Labels \cup {NoLabel}],
           Persist
    PROVE  /\ roster' \in [members: [Nodes -> Entry], ids: SUBSET Nodes,
                           candidates: [Nodes -> [kind: Profiles, at: Places]]]
           /\ RosterAgrees'
  <1>1. ASSUME NEW n \in Nodes
        PROVE  [kind |-> profile'[n], at |-> url'[n], label |-> label'[n]] \in Entry
    BY DEF Entry
  <1>2. [n \in Nodes |-> IF n \in members'
                         THEN [kind |-> profile'[n], at |-> url'[n], label |-> label'[n]]
                         ELSE NoEntry] \in [Nodes -> Entry]
    BY <1>1, NothingTyped
  <1>3. roster' = Persisted(members', profile', url', label', candidates')
    BY DEF Persist
  <1> QED BY <1>2, <1>3 DEF Persisted, RosterAgrees

LEMMA RosterEntry ==
    ASSUME BooksInv, NEW n \in Nodes
    PROVE  roster.members[n] = IF n \in members THEN [kind |-> profile[n], at |-> url[n], label |-> label[n]]
                               ELSE NoEntry
  BY DEF BooksInv, RosterAgrees, Persisted

LEMMA AdmittedKeepsBooks ==
    ASSUME BooksInv, NEW n \in Nodes, NEW entry \in [kind: Profiles, at: Places],
           Admitted(n, entry), round' = round
    PROVE  BooksInv'
  <1> USE LimitAssumption DEF BooksInv, BooksType
  <1>1. /\ members' = members \cup {n} /\ members' \subseteq Nodes
        /\ candidates' = [candidates EXCEPT ![n] = NoCandidate]
        /\ profile' = [profile EXCEPT ![n] = entry.kind]
        /\ healthy' = [healthy EXCEPT ![n] = TRUE]
        /\ url' = [url EXCEPT ![n] = entry.at]
        /\ misses' = [misses EXCEPT ![n] = 0]
        /\ label' = label /\ sampled' = sampled /\ Persist
    BY DEF Admitted
  <1>2. /\ candidates' \in [Nodes -> [kind: Profiles, at: Places]]
        /\ profile' \in [Nodes -> Profiles] /\ url' \in [Nodes -> Places]
        /\ healthy' \in [Nodes -> BOOLEAN] /\ misses' \in [Nodes -> 0 .. MissLimit]
        /\ label' \in [Nodes -> Labels \cup {NoLabel}]
    BY <1>1, NothingTyped
  <1>3. BooksType' /\ RosterAgrees'
    BY <1>1, <1>2, PersistAgrees
  <1>4. BooksTogether'
    BY <1>1 DEF BooksTogether
  <1>5. UnhealthyEarned'
    BY <1>1 DEF UnhealthyEarned
  <1> QED BY <1>3, <1>4, <1>5

(* Steps that write nothing of the books but candidates and the roster.    *)
LEMMA CandidatesKeepBooks ==
    ASSUME BooksInv, candidates' \in [Nodes -> [kind: Profiles, at: Places]],
           UNCHANGED <<members, profile, healthy, url, label, misses, sampled>>,
           round' \subseteq Nodes,
           Persist \/ roster' = roster
    PROVE  BooksInv'
  <1> USE DEF BooksInv, BooksType
  <1>1. BooksTogether' /\ UnhealthyEarned'
    BY DEF BooksTogether, UnhealthyEarned
  <1>2. CASE Persist
    BY <1>1, <1>2, PersistAgrees
  <1>3. CASE roster' = roster
    BY <1>1, <1>3 DEF RosterAgrees, Persisted
  <1> QED BY <1>2, <1>3

LEMMA BooksUntouched ==
    ASSUME BooksInv, UNCHANGED books, round' \subseteq Nodes
    PROVE  BooksInv'
  BY CandidatesKeepBooks DEF books, BooksInv, BooksType

(* Steps that write one member's entry and persist it.                     *)
LEMMA EntryKeepsBooks ==
    ASSUME BooksInv, NEW n \in members,
           \/ \E p \in Profiles : profile' = [profile EXCEPT ![n] = p] /\ UNCHANGED <<url, label>>
           \/ \E l \in Labels \cup {NoLabel} : label' = [label EXCEPT ![n] = l] /\ UNCHANGED <<url, profile>>
           \/ \E p \in Profiles, u \in Places :
                 profile' = [profile EXCEPT ![n] = p] /\ url' = [url EXCEPT ![n] = u] /\ label' = label,
           \/ UNCHANGED <<healthy, misses>>
           \/ healthy' = [healthy EXCEPT ![n] = TRUE] /\ misses' = [misses EXCEPT ![n] = 0],
           UNCHANGED <<members, candidates, sampled, round>>, Persist
    PROVE  BooksInv'
  <1> USE LimitAssumption DEF BooksInv, BooksType
  <1>1. /\ profile' \in [Nodes -> Profiles] /\ url' \in [Nodes -> Places]
        /\ label' \in [Nodes -> Labels \cup {NoLabel}]
        /\ \A m \in Nodes \ members : url'[m] = url[m] /\ label'[m] = label[m]
    <2>1. CASE \E p \in Profiles : profile' = [profile EXCEPT ![n] = p] /\ UNCHANGED <<url, label>>
      BY <2>1
    <2>2. CASE \E l \in Labels \cup {NoLabel} : label' = [label EXCEPT ![n] = l] /\ UNCHANGED <<url, profile>>
      BY <2>2
    <2>3. CASE \E p \in Profiles, u \in Places :
                  profile' = [profile EXCEPT ![n] = p] /\ url' = [url EXCEPT ![n] = u] /\ label' = label
      BY <2>3
    <2> QED BY <2>1, <2>2, <2>3
  <1>2. healthy' \in [Nodes -> BOOLEAN] /\ misses' \in [Nodes -> 0 .. MissLimit]
    <2>1. CASE UNCHANGED <<healthy, misses>>
      BY <2>1
    <2>2. CASE healthy' = [healthy EXCEPT ![n] = TRUE] /\ misses' = [misses EXCEPT ![n] = 0]
      BY <2>2
    <2> QED BY <2>1, <2>2
  <1>3. BooksType' /\ RosterAgrees'
    BY <1>1, <1>2, PersistAgrees
  <1>4. BooksTogether'
    BY <1>1 DEF BooksTogether
  <1>5. UnhealthyEarned'
    BY DEF UnhealthyEarned
  <1> QED BY <1>3, <1>4, <1>5

LEMMA RemoveKeepsBooks ==
    ASSUME BooksInv, NEW n \in Nodes, RemoveNode(n) PROVE BooksInv'
  <1> USE LimitAssumption DEF BooksInv, BooksType
  <1>1. /\ members' = members \ {n} /\ members' \subseteq Nodes
        /\ candidates' = [candidates EXCEPT ![n] = NoCandidate]
        /\ url' = [url EXCEPT ![n] = NoUrl] /\ label' = [label EXCEPT ![n] = NoLabel]
        /\ misses' = [misses EXCEPT ![n] = 0] /\ sampled' = sampled \ {n}
        /\ profile' = [profile EXCEPT ![n] = Unknown]
        /\ healthy' = [healthy EXCEPT ![n] = TRUE]
        /\ Persist /\ round' = round
    BY DEF RemoveNode, Forgotten
  <1>2. /\ candidates' \in [Nodes -> [kind: Profiles, at: Places]]
        /\ profile' \in [Nodes -> Profiles] /\ url' \in [Nodes -> Places]
        /\ healthy' \in [Nodes -> BOOLEAN] /\ misses' \in [Nodes -> 0 .. MissLimit]
        /\ label' \in [Nodes -> Labels \cup {NoLabel}]
    BY <1>1, NothingTyped DEF Profiles, Places
  <1>3. BooksType' /\ RosterAgrees'
    BY <1>1, <1>2, PersistAgrees
  <1>4. BooksTogether'
    BY <1>1 DEF BooksTogether
  <1>5. UnhealthyEarned'
    BY <1>1 DEF UnhealthyEarned
  <1> QED BY <1>3, <1>4, <1>5

(* A round counts for the members it asked who are members still.          *)
LEMMA RecordKeepsBooks ==
    ASSUME BooksInv, NEW ok \in SUBSET Nodes, RecordHealth(ok) PROVE BooksInv'
  <1> USE LimitAssumption DEF BooksInv, BooksType
  <1>1. UNCHANGED <<members, profile, candidates, url, label, sampled, roster>> /\ round' = {}
    BY DEF RecordHealth
  <1>2. misses' = [n \in Nodes |->
            IF n \notin round \cap members THEN misses[n]
            ELSE IF n \in ok THEN 0
            ELSE IF misses[n] < MissLimit THEN misses[n] + 1 ELSE MissLimit]
    BY DEF RecordHealth
  <1>3. healthy' = [n \in Nodes |->
            IF n \notin round \cap members THEN healthy[n]
            ELSE n \in ok \/ (healthy[n] /\ misses'[n] < MissLimit)]
    BY DEF RecordHealth
  <1>4. ASSUME NEW n \in Nodes
        PROVE  misses[n] \in 0 .. MissLimit /\ misses'[n] \in 0 .. MissLimit
               /\ (n \notin members => misses'[n] = misses[n])
    BY <1>2
  <1>5. misses' \in [Nodes -> 0 .. MissLimit]
    BY <1>2, <1>4
  <1>6. healthy' \in [Nodes -> BOOLEAN]
    BY <1>3, Zenon
  <1>7. BooksTogether' /\ RosterAgrees'
    BY <1>1, <1>4 DEF BooksTogether, RosterAgrees, Persisted
  <1>8. UnhealthyEarned'
    <2> SUFFICES ASSUME NEW n \in members PROVE ~healthy'[n] <=> misses'[n] = MissLimit
      BY <1>1 DEF UnhealthyEarned
    <2>1. n \in Nodes /\ misses[n] \in 0 .. MissLimit /\ (~healthy[n] <=> misses[n] = MissLimit)
      BY DEF UnhealthyEarned
    <2>2. /\ misses'[n] = IF n \notin round THEN misses[n]
                          ELSE IF n \in ok THEN 0
                          ELSE IF misses[n] < MissLimit THEN misses[n] + 1 ELSE MissLimit
          /\ healthy'[n] <=> (IF n \notin round THEN healthy[n]
                              ELSE n \in ok \/ (healthy[n] /\ misses'[n] < MissLimit))
      BY <2>1, <1>2, <1>3
    <2>3. CASE n \notin round
      BY <2>1, <2>2, <2>3
    <2>4. CASE n \in round /\ n \in ok
      BY <2>2, <2>4
    <2>5. CASE n \in round /\ n \notin ok /\ misses[n] = MissLimit
      BY <2>1, <2>2, <2>5
    <2>6. CASE n \in round /\ n \notin ok /\ misses[n] # MissLimit
      <3>0. healthy[n]
        BY <2>1, <2>6, Zenon
      <3>1. misses[n] < MissLimit /\ healthy[n] /\ misses'[n] = misses[n] + 1
        <4>1. misses[n] < MissLimit
          <5>1. misses[n] \in 0 .. MissLimit /\ MissLimit \in Nat
            BY <2>1
          <5>2. misses[n] # MissLimit
            BY <2>6
          <5> HIDE DEF BooksInv, BooksType
          <5> QED BY <5>1, <5>2
        <4> QED BY <4>1, <3>0, <2>2, <2>6, Zenon
      <3>2. ~healthy'[n] <=> ~(misses'[n] < MissLimit)
        BY <3>1, <2>2, <2>6, Zenon
      <3> QED BY <3>1, <3>2, <2>1
    <2> QED BY <2>3, <2>4, <2>5, <2>6
  <1> QED BY <1>1, <1>5, <1>6, <1>7, <1>8

(* The new process finds what the old one held: that is RosterAgrees.      *)
LEMMA RestartKeepsBooks ==
    ASSUME BooksInv, Restart
    PROVE  /\ BooksInv'
           /\ \A n \in members \ {Local} : url'[n] = url[n] /\ profile'[n] = profile[n]
  <1> USE LimitAssumption DEF BooksInv, BooksType
  <1>1. /\ members' = members \cup {Local} /\ members' \subseteq Nodes
        /\ profile' = [n \in Nodes |-> IF n = Local THEN LocalKind ELSE roster.members[n].kind]
        /\ healthy' = [n \in Nodes |-> TRUE]
        /\ candidates' = [roster.candidates EXCEPT ![Local] = NoCandidate]
        /\ url' = [n \in Nodes |-> IF n = Local THEN LocalUrl ELSE roster.members[n].at]
        /\ label' = [n \in Nodes |-> roster.members[n].label]
        /\ misses' = [n \in Nodes |-> 0]
        /\ sampled' = {} /\ round' = {} /\ Persist
    BY NodesAssumption DEF Restart, Booted, RosterAgrees
  <1>2. ASSUME NEW n \in Nodes
        PROVE  /\ roster.members[n].kind \in Profiles /\ roster.members[n].at \in Places
               /\ roster.members[n].label \in Labels \cup {NoLabel}
    BY DEF Entry
  <1>3. /\ candidates' \in [Nodes -> [kind: Profiles, at: Places]]
        /\ healthy' \in [Nodes -> BOOLEAN] /\ misses' \in [Nodes -> 0 .. MissLimit]
        /\ profile' \in [Nodes -> Profiles] /\ url' \in [Nodes -> Places]
        /\ label' \in [Nodes -> Labels \cup {NoLabel}]
    BY <1>1, <1>2, NothingTyped, NodesAssumption, KindsAssumption DEF Profiles, Places
  <1>4. BooksType' /\ RosterAgrees'
    BY <1>1, <1>3, PersistAgrees
  <1>5. BooksTogether'
    <2> SUFFICES ASSUME NEW n \in Nodes \ members'
                 PROVE  url'[n] = NoUrl /\ label'[n] = NoLabel /\ misses'[n] = 0 /\ n \notin sampled'
      BY DEF BooksTogether
    <2>1. roster.members[n] = NoEntry /\ n # Local
      BY <1>1, RosterEntry
    <2>2. roster.members[n].at = NoUrl /\ roster.members[n].label = NoLabel
      BY <2>1 DEF NoEntry
    <2> QED BY <1>1, <2>1, <2>2
  <1>6. UnhealthyEarned'
    BY <1>1 DEF UnhealthyEarned
  <1>7. ASSUME NEW n \in members \ {Local} PROVE url'[n] = url[n] /\ profile'[n] = profile[n]
    <2>1. roster.members[n] = [kind |-> profile[n], at |-> url[n], label |-> label[n]] /\ n \in Nodes
      BY RosterEntry
    <2>2. roster.members[n].at = url[n] /\ roster.members[n].kind = profile[n]
      BY <2>1
    <2> QED BY <1>1, <2>1, <2>2
  <1> QED BY <1>4, <1>5, <1>6, <1>7

(* What JoinMember writes about the member that joined again.              *)
LEMMA RejoinedKeepsBooks ==
    ASSUME BooksInv, NEW n \in members, NEW place \in Places, NEW cred, NEW kind \in Profiles,
           Rejoined(n, place, cred, kind), round' = round
    PROVE  BooksInv'
  <1> USE DEF BooksInv, BooksType
  <1>1. CASE cred = "none"
    <2>1. /\ profile' = profile /\ url' = url /\ misses' = misses
          /\ UNCHANGED <<members, candidates, label, sampled, roster>>
      BY <1>1 DEF Rejoined
    <2>2. healthy' = healthy
      <3>1. healthy' = [healthy EXCEPT ![n] = @ \/ cred # "none"]
        BY DEF Rejoined
      <3>2. (healthy[n] \/ cred # "none") = healthy[n]
        BY <1>1, Zenon
      <3> QED BY <3>1, <3>2
    <2> QED BY <2>1, <2>2, BooksUntouched DEF books
  <1>2. CASE cred # "none"
    <2>1. /\ profile' = [profile EXCEPT ![n] = kind] /\ url' = [url EXCEPT ![n] = place]
          /\ misses' = [misses EXCEPT ![n] = 0]
          /\ UNCHANGED <<members, candidates, label, sampled>> /\ Persist
      BY <1>2 DEF Rejoined
    <2>2. healthy' = [healthy EXCEPT ![n] = TRUE]
      <3>1. healthy' = [healthy EXCEPT ![n] = @ \/ cred # "none"]
        BY DEF Rejoined
      <3>2. (healthy[n] \/ cred # "none") = TRUE
        BY <1>2, Zenon
      <3> QED BY <3>1, <3>2
    <2> QED BY <2>1, <2>2, EntryKeepsBooks
  <1> QED BY <1>1, <1>2

LEMMA BooksStep ==
    ASSUME CallsType, BooksInv, [RegistryNext]_registryVars
    PROVE  BooksInv'
  <1>c. ASSUME NEW c \in Calls
        PROVE  calls[c].node \in Nodes /\ calls[c].at \in Places
    BY DEF CallsType
  <1>r. round \subseteq Nodes /\ members \subseteq Nodes
    BY DEF BooksInv, BooksType
  <1>k. candidates \in [Nodes -> [kind: Profiles, at: Places]]
    BY DEF BooksInv, BooksType
  <1>1. ASSUME UNCHANGED books, round' = round \/ round' = members PROVE BooksInv'
    BY <1>1, <1>r, BooksUntouched
  <1>2. ASSUME NEW t \in Tokens, NEW uses \in 0 .. MaxUses,
               MintEnrollment(t, uses) \/ RevokeEnrollment(t) \/ Expire(t)
        PROVE  BooksInv'
    BY <1>1, <1>2 DEF MintEnrollment, RevokeEnrollment, Expire
  <1>3. ASSUME ListEnrollments PROVE BooksInv'
    BY <1>1, <1>3 DEF ListEnrollments
  <1>4. ASSUME NEW c \in Calls, NEW n \in Nodes, NEW place \in Urls, NEW cred \in Credentials, Join(c, n, place, cred)
        PROVE  BooksInv'
    BY <1>1, <1>4 DEF Join
  <1>5. ASSUME NEW c \in Calls, NEW place \in Urls, AddNode(c, place) PROVE BooksInv'
    BY <1>1, <1>5 DEF AddNode
  <1>6. ASSUME NEW n \in Nodes, Admit(n) PROVE BooksInv'
    BY <1>6, <1>k, AdmittedKeepsBooks DEF Admit
  <1>7. ASSUME NEW n \in Nodes, RemoveNode(n) PROVE BooksInv'
    BY <1>7, RemoveKeepsBooks
  <1>8. ASSUME NEW n \in Nodes, DismissCandidate(n) PROVE BooksInv'
    <2>1. candidates' \in [Nodes -> [kind: Profiles, at: Places]]
      BY <1>8, <1>k, NothingTyped DEF DismissCandidate
    <2> QED BY <1>8, <1>r, <2>1, CandidatesKeepBooks DEF DismissCandidate
  <1>9. ASSUME NEW n \in Nodes, NEW l \in Labels \cup {NoLabel}, SetNodeLabel(n, l) PROVE BooksInv'
    BY <1>9, EntryKeepsBooks DEF SetNodeLabel
  <1>10. ASSUME Restart PROVE BooksInv'
    BY <1>10, RestartKeepsBooks
  <1>11. ASSUME NEW c \in Calls, JoinUnprobed(c) \/ Returned(c) \/ AddFailed(c) PROVE BooksInv'
    BY <1>1, <1>11 DEF JoinUnprobed, Returned, AddFailed
  <1>12. ASSUME NEW c \in Calls, NEW kind \in Profiles, JoinMember(c, kind) PROVE BooksInv'
    BY <1>12, <1>c, RejoinedKeepsBooks DEF JoinMember
  <1>13. ASSUME NEW c \in Calls, NEW kind \in Profiles, JoinNew(c, kind) PROVE BooksInv'
    <2> DEFINE entry == [kind |-> kind, at |-> calls[c].at]
    <2>1. entry \in [kind: Profiles, at: Places]
      BY <1>c
    <2>2. CASE calls[c].cred \in Tokens \ Supervised
      <3>1. Admitted(calls[c].node, entry) /\ round' = round
        BY <1>13, <2>2 DEF JoinNew
      <3> HIDE DEF entry
      <3> QED BY <3>1, <2>1, <1>c, AdmittedKeepsBooks
    <2>3. CASE calls[c].cred \notin Tokens \ Supervised
      <3>1. /\ candidates' = [candidates EXCEPT ![calls[c].node] = entry] /\ round' = round
            /\ UNCHANGED <<members, profile, healthy, url, label, misses, sampled>> /\ Persist
        BY <1>13, <2>3 DEF JoinNew
      <3>2. candidates' \in [Nodes -> [kind: Profiles, at: Places]]
        BY <3>1, <2>1, <1>k
      <3> QED BY <3>1, <3>2, <1>r, CandidatesKeepBooks
    <2> QED BY <2>2, <2>3
  <1>14. ASSUME NEW c \in Calls, NEW n \in Nodes, NEW kind \in Profiles, AddProbed(c, n, kind) PROVE BooksInv'
    <2> DEFINE entry == [kind |-> kind, at |-> calls[c].at]
    <2>1. entry \in [kind: Profiles, at: Places]
      BY <1>c
    <2>2. CASE n \notin members
      <3>1. Admitted(n, entry) /\ round' = round
        BY <1>14, <2>2 DEF AddProbed
      <3> HIDE DEF entry
      <3> QED BY <3>1, <2>1, AdmittedKeepsBooks
    <2>3. CASE n \in members
      <3>1. /\ candidates' = [candidates EXCEPT ![n] = entry] /\ round' = round
            /\ UNCHANGED <<members, profile, healthy, url, label, misses, sampled, roster>>
        BY <1>14, <2>3 DEF AddProbed
      <3>2. candidates' \in [Nodes -> [kind: Profiles, at: Places]]
        BY <3>1, <2>1, <1>k
      <3> QED BY <3>1, <3>2, <1>r, CandidatesKeepBooks
    <2> QED BY <2>2, <2>3
  <1>15. ASSUME NEW c \in Calls, NEW n \in Nodes, NEW kind \in Profiles, RefreshAnswered(c, n, kind)
         PROVE  BooksInv'
    <2>1. CASE UNCHANGED books
      BY <1>1, <1>15, <2>1 DEF RefreshAnswered
    <2>2. CASE ~UNCHANGED books
      <3>1. /\ calls[c].node \in members
            /\ profile' = [profile EXCEPT ![calls[c].node] = kind]
            /\ UNCHANGED <<members, healthy, candidates, url, label, misses, sampled, round>> /\ Persist
        BY <1>15, <2>2 DEF RefreshAnswered
      <3> QED BY <3>1, EntryKeepsBooks
    <2> QED BY <2>1, <2>2
  <1>16. ASSUME NEW c \in Calls, NEW n \in Nodes, Refresh(c, n) PROVE BooksInv'
    BY <1>1, <1>16 DEF Refresh
  <1>17. ASSUME NEW n \in Nodes, ApplySample(n) PROVE BooksInv'
    BY <1>17 DEF ApplySample, BooksInv, BooksType, BooksTogether, RosterAgrees, Persisted, UnhealthyEarned
  <1>18. ASSUME HealthRound PROVE BooksInv'
    BY <1>1, <1>18 DEF HealthRound
  <1>19. ASSUME NEW ok \in SUBSET Nodes, RecordHealth(ok) PROVE BooksInv'
    BY <1>19, RecordKeepsBooks
  <1>20. ASSUME UNCHANGED registryVars PROVE BooksInv'
    BY <1>1, <1>20 DEF registryVars
  <1>21. ASSUME RegistryRequest PROVE BooksInv'
    BY <1>2, <1>3, <1>4, <1>5, <1>6, <1>7, <1>8, <1>9, <1>10, <1>21, LimitAssumption DEF RegistryRequest
  <1>22. ASSUME RegistryProceed PROVE BooksInv'
    BY <1>11, <1>12, <1>13, <1>14, <1>15, <1>16, <1>17, <1>18, <1>19, <1>22 DEF RegistryProceed
  <1> QED BY <1>20, <1>21, <1>22 DEF RegistryNext

----------------------------------------------------------------------------
(* The token store.                                                        *)

LEMMA PrunedTyped ==
    ASSUME NEW ts \in [Tokens -> 0 .. MaxUses]
    PROVE  Pruned(ts) \in [Tokens -> 0 .. MaxUses]
  BY LimitAssumption DEF Pruned

LEMMA PrunedAt ==
    ASSUME NEW ts, NEW t \in Tokens
    PROVE  Pruned(ts)[t] = IF t \in expired THEN 0 ELSE ts[t]
  BY DEF Pruned

(* TokenFileAgrees, token by token.                                        *)
LEMMA AgreesAt ==
    ASSUME TokenFileAgrees, NEW t \in Tokens \ expired PROVE tokenFile[t] = tokens[t]
  <1>1. Pruned(tokenFile)[t] = Pruned(tokens)[t]
    BY DEF TokenFileAgrees
  <1> QED BY <1>1, PrunedAt

LEMMA AgreeAfter ==
    ASSUME \A t \in Tokens \ expired' : tokenFile'[t] = tokens'[t] PROVE TokenFileAgrees'
  BY DEF TokenFileAgrees, Pruned

(* Dropping tokens from the store, whichever and whether or not the file   *)
(* is written, keeps what is left honest.                                  *)
LEMMA DroppingKeepsStore ==
    ASSUME StoreInv, minted' = minted, letIn' = letIn,
           expired' \subseteq Tokens,
           tokens' \in [Tokens -> 0 .. MaxUses], tokenFile' \in [Tokens -> 0 .. MaxUses],
           \A t \in Tokens : tokens'[t] \in {0, tokens[t]},
           \A t \in Tokens \ expired' : tokenFile'[t] = tokens'[t],
           JoinsVouched'
    PROVE  StoreInv'
  <1> USE DEF StoreInv, StoreType
  <1>1. TokenFileAgrees'
    BY AgreeAfter
  <1>2. UsesHonest' /\ NothingBeforeMint'
    BY DEF UsesHonest, NothingBeforeMint
  <1> QED BY <1>1, <1>2

LEMMA UntouchedKeepsStore ==
    ASSUME StoreInv, UNCHANGED store, JoinsVouched' PROVE StoreInv'
  BY DEF StoreInv, StoreType, store, UsesHonest, NothingBeforeMint, TokenFileAgrees, Pruned

(* A call that answers, ends or is none of a join's vouches for nothing.   *)
LEMMA CallVouched ==
    ASSUME CallsType, StoreInv, minted' = minted, NEW c \in Calls,
           \/ \E r \in Ops \ {"join"} : Answer(c, r)
           \/ \E q \in [op: Ops \ {"join"}, node: Nodes, at: Places, cred: Credentials] :
                 calls' = [calls EXCEPT ![c] = q]
    PROVE  CallsType' /\ JoinsVouched'
  <1> USE DEF CallsType, StoreInv
  <1>1. CASE \E r \in Ops \ {"join"} : Answer(c, r)
    BY <1>1 DEF Answer, JoinsVouched
  <1>2. CASE \E q \in [op: Ops \ {"join"}, node: Nodes, at: Places, cred: Credentials] :
                 calls' = [calls EXCEPT ![c] = q]
    BY <1>2 DEF JoinsVouched
  <1> QED BY <1>1, <1>2

LEMMA IdleTyped ==
    /\ NoRequest \in [op: Ops \ {"join"}, node: Nodes, at: Places, cred: Credentials]
    /\ \A place \in Urls : [NoRequest EXCEPT !.op = "add", !.at = place]
                          \in [op: Ops \ {"join"}, node: Nodes, at: Places, cred: Credentials]
    /\ \A n \in Nodes : [NoRequest EXCEPT !.op = "refresh", !.node = n]
                          \in [op: Ops \ {"join"}, node: Nodes, at: Places, cred: Credentials]
    /\ Replies \subseteq Ops \ {"join"}
  BY NodesAssumption DEF NoRequest, Ops, Places, Credentials, Replies

(* A join that is let through with a token was shown a live one.           *)
LEMMA JoinKeepsStore ==
    ASSUME CallsType, StoreInv,
           NEW c \in Calls, NEW n \in Nodes, NEW place \in Urls, NEW cred \in Credentials, Join(c, n, place, cred)
    PROVE  CallsType' /\ StoreInv'
  <1> USE DEF StoreInv, StoreType
  <1> DEFINE op == IF cred \in {"none", "cluster"} \/ (cred \in Tokens /\ LiveToken(cred))
                   THEN "join" ELSE "rejected"
             q == [op |-> op, node |-> n, at |-> place, cred |-> cred]
  <1>1. /\ calls' = [calls EXCEPT ![c] = q]
        /\ IF cred \in {"none", "cluster"} THEN UNCHANGED <<tokens, tokenFile>> ELSE Verified(cred)
        /\ UNCHANGED <<expired, minted, letIn>>
    BY DEF Join
  <1>2. op \in Ops /\ q \in [op: Ops, node: Nodes, at: Places, cred: Credentials]
    BY DEF Ops, Places, Replies
  <1>3. CallsType'
    BY <1>1, <1>2 DEF CallsType
  <1>4. op = "join" /\ cred \in Tokens => minted[cred] > 0
    <2> SUFFICES ASSUME op = "join", cred \in Tokens PROVE minted[cred] > 0
      OBVIOUS
    <2>1. tokens[cred] > 0
      BY CredentialsAssumption DEF LiveToken
    <2>2. tokens[cred] + letIn[cred] = minted[cred]
      BY <2>1 DEF UsesHonest
    <2>3. tokens[cred] \in Nat /\ letIn[cred] \in Nat
      BY LimitAssumption
    <2> QED BY <2>1, <2>2, <2>3
  <1>5. JoinsVouched'
    <2> SUFFICES ASSUME NEW d \in Calls, calls'[d].op = "join", calls'[d].cred \in Tokens
                 PROVE  minted[calls'[d].cred] > 0
      BY <1>1 DEF JoinsVouched
    <2> HIDE DEF op
    <2>1. CASE d = c
      <3>1. calls'[d] = q
        BY <2>1, <1>1 DEF CallsType
      <3> QED BY <3>1, <1>4
    <2>2. CASE d # c
      <3>1. calls'[d] = calls[d]
        BY <2>2, <1>1 DEF CallsType
      <3> QED BY <3>1 DEF JoinsVouched
    <2> QED BY <2>1, <2>2
  <1>6. /\ tokens' \in [Tokens -> 0 .. MaxUses] /\ tokenFile' \in [Tokens -> 0 .. MaxUses]
        /\ \A t \in Tokens : tokens'[t] \in {0, tokens[t]}
        /\ \A t \in Tokens \ expired : tokenFile'[t] = tokens'[t]
    <2>1. CASE cred \in {"none", "cluster"}
      BY <1>1, <2>1, AgreesAt
    <2>2. CASE cred \notin {"none", "cluster"}
      <3>1. tokens' = Pruned(tokens) /\ tokenFile' = IF tokens' = tokens THEN tokenFile ELSE tokens'
        BY <1>1, <2>2 DEF Verified
      <3> QED BY <3>1, PrunedTyped, PrunedAt, AgreesAt
    <2> QED BY <2>1, <2>2
  <1> QED BY <1>1, <1>3, <1>5, <1>6, DroppingKeepsStore

(* Minting starts a token even: nobody got in with it before.              *)
LEMMA MintKeepsStore ==
    ASSUME StoreInv, NEW t \in Tokens, NEW uses \in 0 .. MaxUses, MintEnrollment(t, uses)
    PROVE  StoreInv'
  <1> USE DEF StoreInv, StoreType
  <1>1. /\ minted[t] = 0 /\ uses >= 1 /\ minted' = [minted EXCEPT ![t] = uses]
        /\ tokens' = [Pruned(tokens) EXCEPT ![t] = uses] /\ tokenFile' = tokens'
        /\ UNCHANGED <<calls, expired, letIn>>
    BY DEF MintEnrollment, books
  <1>2. tokens' \in [Tokens -> 0 .. MaxUses] /\ minted' \in [Tokens -> 0 .. MaxUses]
    BY <1>1, PrunedTyped
  <1>3. TokenFileAgrees'
    BY <1>1, AgreeAfter
  <1>4. UsesHonest'
    <2> SUFFICES ASSUME NEW s \in Tokens, tokens'[s] > 0 PROVE tokens'[s] + letIn[s] = minted'[s]
      BY <1>1 DEF UsesHonest
    <2>1. CASE s = t
      <3>1. letIn[t] = 0 /\ tokens'[t] = uses /\ minted'[t] = uses
        BY <1>1, PrunedTyped DEF NothingBeforeMint
      <3> QED BY <3>1, <2>1, LimitAssumption
    <2>2. CASE s # t
      <3>1. tokens'[s] = Pruned(tokens)[s] /\ minted'[s] = minted[s]
        BY <1>1, <2>2, PrunedTyped
      <3>2. tokens'[s] = tokens[s]
        BY <3>1, PrunedAt
      <3> QED BY <3>1, <3>2 DEF UsesHonest
    <2> QED BY <2>1, <2>2
  <1>5. NothingBeforeMint' /\ JoinsVouched'
    BY <1>1 DEF NothingBeforeMint, JoinsVouched
  <1> QED BY <1>1, <1>2, <1>3, <1>4, <1>5

(* A token lets somebody in: one use less, unless it is held no more.      *)
LEMMA AdmissionKeepsStore ==
    ASSUME StoreInv, NEW t \in Tokens, minted[t] > 0, Consumed(t),
           letIn' = [letIn EXCEPT ![t] = @ + 1], UNCHANGED <<expired, minted>>, JoinsVouched'
    PROVE  StoreInv'
  <1> USE LimitAssumption DEF StoreInv, StoreType
  <1>1. /\ tokens' = [tokens EXCEPT ![t] = IF @ = 0 THEN 0 ELSE @ - 1]
        /\ tokenFile' = IF tokens[t] = 0 THEN tokenFile ELSE tokens'
    BY DEF Consumed
  <1>2. /\ tokens' \in [Tokens -> 0 .. MaxUses] /\ letIn' \in [Tokens -> Nat]
        /\ tokenFile' \in [Tokens -> 0 .. MaxUses]
    BY <1>1
  <1>3. TokenFileAgrees'
    BY <1>1, AgreesAt, AgreeAfter
  <1>4. UsesHonest'
    BY <1>1 DEF UsesHonest
  <1>5. NothingBeforeMint'
    BY <1>1 DEF NothingBeforeMint
  <1> QED BY <1>2, <1>3, <1>4, <1>5

LEMMA StoreStep ==
    ASSUME CallsType, BooksInv, StoreInv, [RegistryNext]_registryVars
    PROVE  CallsType' /\ StoreInv'
  <1>t. tokens \in [Tokens -> 0 .. MaxUses] /\ tokenFile \in [Tokens -> 0 .. MaxUses] /\ expired \subseteq Tokens
    BY DEF StoreInv, StoreType
  <1>a. \A t \in Tokens \ expired : tokenFile[t] = tokens[t]
    BY AgreesAt DEF StoreInv
  <1>1. ASSUME UNCHANGED store, calls' = calls PROVE CallsType' /\ StoreInv'
    BY <1>1, UntouchedKeepsStore DEF CallsType, StoreInv, JoinsVouched, store
  <1>2. ASSUME UNCHANGED store, NEW c \in Calls,
               \/ \E r \in Replies : Answer(c, r)
               \/ \E q \in [op: Ops \ {"join"}, node: Nodes, at: Places, cred: Credentials] :
                     calls' = [calls EXCEPT ![c] = q]
        PROVE  CallsType' /\ StoreInv'
    <2>1. CallsType' /\ JoinsVouched'
      BY <1>2, CallVouched, IdleTyped DEF store
    <2> QED BY <1>2, <2>1, UntouchedKeepsStore
  <1>3. ASSUME NEW t \in Tokens, NEW uses \in 0 .. MaxUses, MintEnrollment(t, uses) PROVE CallsType' /\ StoreInv'
    BY <1>3, MintKeepsStore DEF MintEnrollment, CallsType
  <1>d. ASSUME calls' = calls, minted' = minted, letIn' = letIn, expired' \subseteq Tokens,
               tokens' \in [Tokens -> 0 .. MaxUses], tokenFile' \in [Tokens -> 0 .. MaxUses],
               \A t \in Tokens : tokens'[t] \in {0, tokens[t]},
               \A t \in Tokens \ expired' : tokenFile'[t] = tokens'[t]
        PROVE  CallsType' /\ StoreInv'
    <2>1. JoinsVouched'
      BY <1>d DEF StoreInv, JoinsVouched
    <2> QED BY <1>d, <2>1, DroppingKeepsStore DEF CallsType
  <1>4. ASSUME NEW t \in Tokens, RevokeEnrollment(t) PROVE CallsType' /\ StoreInv'
    BY <1>4, <1>t, <1>d, LimitAssumption DEF RevokeEnrollment
  <1>5. ASSUME NEW t \in Tokens, Expire(t) PROVE CallsType' /\ StoreInv'
    BY <1>5, <1>t, <1>a, <1>d DEF Expire
  <1>6. ASSUME ListEnrollments PROVE CallsType' /\ StoreInv'
    BY <1>6, <1>t, <1>d, PrunedTyped, PrunedAt DEF ListEnrollments
  <1>7. ASSUME NEW c \in Calls, NEW n \in Nodes, NEW place \in Urls, NEW cred \in Credentials, Join(c, n, place, cred)
        PROVE  CallsType' /\ StoreInv'
    BY <1>7, JoinKeepsStore
  <1>8. ASSUME NEW c \in Calls, NEW place \in Urls, AddNode(c, place) PROVE CallsType' /\ StoreInv'
    BY <1>8, <1>2, IdleTyped DEF AddNode
  <1>9. ASSUME NEW n \in Nodes, NEW l \in Labels \cup {NoLabel},
               Admit(n) \/ RemoveNode(n) \/ DismissCandidate(n) \/ SetNodeLabel(n, l) \/ ApplySample(n)
        PROVE  CallsType' /\ StoreInv'
    BY <1>9, <1>1 DEF Admit, RemoveNode, DismissCandidate, SetNodeLabel, ApplySample
  <1>10. ASSUME Restart PROVE CallsType' /\ StoreInv'
    <2>1. /\ tokens' = Pruned(tokenFile) /\ calls' = [c \in Calls |-> NoRequest]
          /\ UNCHANGED <<tokenFile, expired, minted, letIn>>
      BY <1>10 DEF Restart
    <2>2. CallsType'
      BY <2>1, NothingTyped DEF CallsType
    <2>3. JoinsVouched'
      BY <2>1 DEF JoinsVouched, NoRequest
    <2>4. \A t \in Tokens : tokens'[t] \in {0, tokens[t]}
      BY <2>1, <1>a, PrunedAt
    <2>5. \A t \in Tokens \ expired' : tokenFile'[t] = tokens'[t]
      BY <2>1, PrunedAt
    <2> QED BY <2>1, <2>2, <2>3, <2>4, <2>5, <1>t, PrunedTyped, DroppingKeepsStore
  <1>11. ASSUME NEW c \in Calls, JoinUnprobed(c) \/ Returned(c) \/ AddFailed(c) PROVE CallsType' /\ StoreInv'
    BY <1>11, <1>2, IdleTyped DEF JoinUnprobed, Returned, AddFailed, Replies
  <1>12. ASSUME NEW c \in Calls, NEW kind \in Profiles, JoinMember(c, kind) PROVE CallsType' /\ StoreInv'
    BY <1>12, <1>2 DEF JoinMember, Replies
  <1>13. ASSUME NEW c \in Calls, NEW kind \in Profiles, JoinNew(c, kind) PROVE CallsType' /\ StoreInv'
    <2>1. CASE calls[c].cred \in Tokens \ Supervised
      <3>1. /\ calls[c].op = "join" /\ Consumed(calls[c].cred) /\ Answer(c, "member+token")
            /\ letIn' = [letIn EXCEPT ![calls[c].cred] = @ + 1] /\ UNCHANGED <<expired, minted>>
        BY <1>13, <2>1 DEF JoinNew
      <3>2. minted[calls[c].cred] > 0
        BY <3>1, <2>1 DEF StoreInv, JoinsVouched
      <3>3. CallsType' /\ JoinsVouched'
        <4>1. "member+token" \in Ops \ {"join"}
          BY DEF Ops, Replies
        <4> QED BY <3>1, <4>1, CallVouched
      <3> QED BY <3>1, <3>2, <3>3, <2>1, AdmissionKeepsStore
    <2>2. CASE calls[c].cred \notin Tokens \ Supervised
      BY <1>13, <2>2, <1>2 DEF JoinNew, Replies
    <2> QED BY <2>1, <2>2
  <1>14. ASSUME NEW c \in Calls, NEW n \in Nodes, NEW kind \in Profiles,
                AddProbed(c, n, kind) \/ RefreshAnswered(c, n, kind)
         PROVE  CallsType' /\ StoreInv'
    BY <1>14, <1>2, IdleTyped DEF AddProbed, RefreshAnswered
  <1>15. ASSUME NEW c \in Calls, NEW n \in Nodes, Refresh(c, n) PROVE CallsType' /\ StoreInv'
    BY <1>15, <1>2, IdleTyped DEF Refresh
  <1>16. ASSUME NEW ok \in SUBSET Nodes, HealthRound \/ RecordHealth(ok) PROVE CallsType' /\ StoreInv'
    BY <1>16, <1>1 DEF HealthRound, RecordHealth
  <1>17. ASSUME UNCHANGED registryVars PROVE CallsType' /\ StoreInv'
    BY <1>17, <1>1 DEF registryVars
  <1>18. ASSUME RegistryRequest PROVE CallsType' /\ StoreInv'
    BY <1>3, <1>4, <1>5, <1>6, <1>7, <1>8, <1>9, <1>10, <1>18 DEF RegistryRequest
  <1>19. ASSUME RegistryProceed PROVE CallsType' /\ StoreInv'
    BY <1>9, <1>11, <1>12, <1>13, <1>14, <1>15, <1>16, <1>19 DEF RegistryProceed
  <1> QED BY <1>17, <1>18, <1>19 DEF RegistryNext

----------------------------------------------------------------------------
(* Who may move a member's traffic.                                        *)

Moves(n) == url'[n] # url[n] \/ (profile[n] # Unknown /\ profile'[n] = Unknown)
JoinShown(n) == \E c \in Calls : calls[c].op = "join" /\ calls[c].node = n
                             /\ calls[c].cred # "none" /\ calls'[c].op \in Replies

LEMMA MovesStep ==
    ASSUME CallsType, BooksInv, RegistryNext,
           NEW n \in Nodes \ {Local}, n \in members, n \in members', Moves(n)
    PROVE  JoinShown(n)
  <1> USE DEF Moves
  <1>t. url \in [Nodes -> Places] /\ profile \in [Nodes -> Profiles]
    BY DEF BooksInv, BooksType
  <1>1. ASSUME UNCHANGED <<url, profile>> PROVE FALSE
    BY <1>1
  <1>2. ASSUME NEW m \in Nodes, NEW entry, m \notin members, Admitted(m, entry) PROVE FALSE
    BY <1>2, <1>t DEF Admitted
  <1>3. CASE RegistryRequest
    <2>1. ASSUME NEW t \in Tokens, NEW uses \in 0 .. MaxUses,
                 MintEnrollment(t, uses) \/ RevokeEnrollment(t) \/ Expire(t)
          PROVE  FALSE
      BY <1>1, <2>1 DEF MintEnrollment, RevokeEnrollment, Expire, books
    <2>2. ASSUME ListEnrollments PROVE FALSE
      BY <1>1, <2>2 DEF ListEnrollments, books
    <2>3. ASSUME NEW c \in Calls, NEW m \in Nodes, NEW place \in Urls, NEW cred \in Credentials,
                 Join(c, m, place, cred) \/ AddNode(c, place)
          PROVE  FALSE
      BY <1>1, <2>3 DEF Join, AddNode, books
    <2>4. ASSUME NEW m \in Nodes, Admit(m) PROVE FALSE
      BY <1>2, <2>4 DEF Admit
    <2>5. ASSUME NEW m \in Nodes, RemoveNode(m) PROVE FALSE
      BY <2>5, <1>t DEF RemoveNode, Forgotten
    <2>6. ASSUME NEW m \in Nodes, NEW l \in Labels \cup {NoLabel}, DismissCandidate(m) \/ SetNodeLabel(m, l) PROVE FALSE
      BY <1>1, <2>6 DEF DismissCandidate, SetNodeLabel
    <2>7. ASSUME Restart PROVE FALSE
      BY <2>7, RestartKeepsBooks
    <2> QED BY <1>3, <2>1, <2>2, <2>3, <2>4, <2>5, <2>6, <2>7, LimitAssumption, NodesAssumption
            DEF RegistryRequest, Credentials
  <1>4. CASE RegistryProceed
    <2>1. ASSUME NEW c \in Calls, JoinUnprobed(c) \/ Returned(c) \/ AddFailed(c) PROVE FALSE
      BY <1>1, <2>1 DEF JoinUnprobed, Returned, AddFailed, books
    <2>2. ASSUME NEW c \in Calls, NEW kind \in Profiles, JoinMember(c, kind) PROVE JoinShown(n)
      <3>1. /\ calls[c].op = "join"
            /\ profile' = [profile EXCEPT ![calls[c].node] = IF calls[c].cred = "none" THEN @ ELSE kind]
            /\ url' = [url EXCEPT ![calls[c].node] = IF calls[c].cred = "none" THEN @ ELSE calls[c].at]
            /\ Answer(c, IF calls[c].cred \in Tokens THEN "member+token" ELSE "member")
        BY <2>2 DEF JoinMember, Rejoined
      <3>2. calls[c].node = n /\ calls[c].cred # "none"
        BY <3>1, <1>t
      <3>3. calls'[c].op \in Replies
        BY <3>1 DEF Answer, CallsType, Replies
      <3> QED BY <3>1, <3>2, <3>3 DEF JoinShown
    <2>3. ASSUME NEW c \in Calls, NEW kind \in Profiles, JoinNew(c, kind) PROVE FALSE
      <3>1. CASE calls[c].cred \in Tokens \ Supervised
        BY <3>1, <2>3, <1>2 DEF JoinNew, CallsType
      <3>2. CASE calls[c].cred \notin Tokens \ Supervised
        BY <3>2, <2>3, <1>1 DEF JoinNew
      <3> QED BY <3>1, <3>2
    <2>4. ASSUME NEW c \in Calls, NEW m \in Nodes, NEW kind \in Profiles, AddProbed(c, m, kind) PROVE FALSE
      BY <2>4, <1>1, <1>2 DEF AddProbed
    <2>5. ASSUME NEW c \in Calls, NEW m \in Nodes, NEW kind \in Profiles, RefreshAnswered(c, m, kind) PROVE FALSE
      <3>1. url' = url
        BY <2>5 DEF RefreshAnswered, books
      <3>2. CASE profile' = profile
        BY <1>1, <3>1, <3>2
      <3>3. CASE profile' # profile
        <4>1. /\ profile' = [profile EXCEPT ![calls[c].node] = kind]
              /\ kind # Unknown \/ profile[calls[c].node] = Unknown
          BY <2>5, <3>3 DEF RefreshAnswered, Supersedes, books
        <4> QED BY <4>1, <3>1, <1>t
      <3> QED BY <3>2, <3>3
    <2>6. ASSUME NEW c \in Calls, NEW m \in Nodes, Refresh(c, m) PROVE FALSE
      BY <1>1, <2>6 DEF Refresh, books
    <2>7. ASSUME NEW m \in Nodes, NEW ok \in SUBSET Nodes, ApplySample(m) \/ HealthRound \/ RecordHealth(ok) PROVE FALSE
      BY <1>1, <2>7 DEF ApplySample, HealthRound, RecordHealth, books
    <2> QED BY <1>4, <2>1, <2>2, <2>3, <2>4, <2>5, <2>6, <2>7, NodesAssumption DEF RegistryProceed
  <1> QED BY <1>3, <1>4 DEF RegistryNext

LEMMA InitRInv == RegistryInit => RInv
  <1> SUFFICES ASSUME RegistryInit PROVE RInv
    OBVIOUS
  <1> USE LimitAssumption, NodesAssumption, KindsAssumption DEF RegistryInit
  <1>1. CallsType
    BY NothingTyped DEF CallsType
  <1>2. /\ profile \in [Nodes -> Profiles] /\ url \in [Nodes -> Places]
        /\ healthy \in [Nodes -> BOOLEAN] /\ misses \in [Nodes -> 0 .. MissLimit]
        /\ candidates \in [Nodes -> [kind: Profiles, at: Places]]
        /\ label \in [Nodes -> Labels \cup {NoLabel}]
        /\ members \subseteq Nodes /\ sampled \subseteq Nodes /\ round \subseteq Nodes
    BY NothingTyped DEF Profiles, Places
  <1>3. roster \in [members: [Nodes -> Entry], ids: SUBSET Nodes,
                    candidates: [Nodes -> [kind: Profiles, at: Places]]]
    <2>1. roster = Persisted(members, profile, url, label, candidates)
      BY DEF RegistryInit
    <2> HIDE DEF RegistryInit
    <2>2. ASSUME NEW n \in Nodes
          PROVE  [kind |-> profile[n], at |-> url[n], label |-> label[n]] \in Entry
      BY <1>2 DEF Entry
    <2>3. [n \in Nodes |-> IF n \in members
                           THEN [kind |-> profile[n], at |-> url[n], label |-> label[n]]
                           ELSE NoEntry] \in [Nodes -> Entry]
      BY <2>2, NothingTyped
    <2> QED BY <2>1, <2>3, <1>2 DEF Persisted
  <1>4. BooksTogether /\ UnhealthyEarned
    BY DEF BooksTogether, UnhealthyEarned
  <1>5. RosterAgrees
    BY DEF RosterAgrees, Persisted
  <1>6. StoreType /\ NothingBeforeMint
    BY DEF StoreType, NothingBeforeMint
  <1>7. JoinsVouched /\ TokenFileAgrees
    BY DEF JoinsVouched, NoRequest, TokenFileAgrees
  <1>8. UsesHonest
    BY DEF UsesHonest
  <1> QED BY <1>1, <1>2, <1>3, <1>4, <1>5, <1>6, <1>7, <1>8 DEF RInv, BooksInv, BooksType, StoreInv

(* The registry keeps its promise: through every interleaving of joins,    *)
(* polls, removals and restarts of registry.py at its awaits the books     *)
(* stay one, the roster file agrees with them, health is earned, tokens    *)
(* are honest across restarts, and only a join that showed a credential    *)
(* moves a member's address or forgets what its hardware is.               *)
THEOREM RegistryKeepsItsPromise == RegistrySpec => RegistryPromise
  <1>1. RegistryInit => RInv
    BY InitRInv
  <1>2. RInv /\ [RegistryNext]_registryVars => RInv'
    BY BooksStep, StoreStep DEF RInv
  <1>3. RInv => RegistryTypeOK /\ BooksTogether /\ RosterAgrees /\ UnhealthyEarned /\ UsesHonest /\ TokenFileAgrees
    BY DEF RInv, BooksInv, BooksType, StoreInv, StoreType, CallsType, RegistryTypeOK
  <1>4. RInv /\ [RegistryNext]_registryVars
        => [\A n \in Nodes \ {Local} : n \in members \cap members' /\ Moves(n) => JoinShown(n)]_registryVars
    BY MovesStep DEF RInv
  <1> QED BY <1>1, <1>2, <1>3, <1>4, PTL DEF RegistrySpec, RegistryPromise, OnlyCredentialsMove, Moves, JoinShown

----------------------------------------------------------------------------
(* Kills.                                                                  *)

Stages == {"idle", "asked", "grace", "forced", "settling", "done"}
Answers == {None, "not_a_gpu_process", "process_is_managed", "protected_pid", "released", "still_held",
            "unconfirmed", "node_agent_unreachable"}
KillRecords == [stage : Stages, pid : Pids \cup {None}, victim : Processes \cup {None},
                spared : SUBSET Processes, sent : {None, "SIGTERM", "SIGKILL"},
                hit : SUBSET Processes, answer : Answers, exited : BOOLEAN]

(* The machine (a: at, h: what holds memory, s: what has been started): a  *)
(* process is under one pid, the one its memory is reported under, and     *)
(* what holds memory has been started.                                     *)
Machine(a, h, s) ==
    /\ a \in [Pids -> Processes \cup {None}] /\ h \in [Pids -> Processes \cup {None}]
    /\ s \subseteq Processes
    /\ \A p \in Pids : a[p] # None => h[p] = a[p]
    /\ \A p \in Pids : h[p] # None => h[p] \in s
    /\ \A p, q \in Pids : p # q /\ h[p] # None => h[p] # h[q]

(* A call before its signals: what holds the pid's memory is not among     *)
(* what it must spare, even if it is another process by now.               *)
Sparing(c, h, s) ==
    /\ c.spared \subseteq s
    /\ c.hit \cap c.spared = {}
    /\ c.pid \in Protected => c.hit = {}
    /\ c.stage \in {"asked", "grace"} => h[c.pid] \notin c.spared
    /\ c.stage = "grace" => c.pid \notin Protected

(* After the first signal: the victim is under no other pid, and never     *)
(* will be; and under this one no more, if it is said to have ended.       *)
Tracking(c, a, s) ==
    /\ c.stage \in {"grace", "forced", "settling"} =>
          c.victim \in s /\ \A p \in Pids \ {c.pid} : a[p] # c.victim
    /\ c.stage = "settling" /\ c.exited => a[c.pid] # c.victim

CallInv(c, a, h, s) ==
    /\ c \in KillRecords
    /\ c.stage # "idle" => c.pid \in Pids
    /\ c.stage = "done" <=> c.answer # None
    /\ Sparing(c, h, s) /\ Tracking(c, a, s)

KInv ==
    /\ Machine(at, context, spawned)
    /\ kills \in [KillCalls -> KillRecords]
    /\ \A k \in KillCalls : CallInv(kills[k], at, context, spawned)

(* What happens to the machine does a call's books no harm: a pid becomes  *)
(* free, or goes to a process that is new.                                 *)
Onward(a, s, b) == \A p \in Pids : b[p] \in {a[p], None} \/ b[p] \notin s

LEMMA CallStays ==
    ASSUME NEW a, NEW h, NEW s, Machine(a, h, s), NEW b, NEW i, NEW t, Machine(b, i, t),
           s \subseteq t, Onward(a, s, b), Onward(h, s, i), NEW c, CallInv(c, a, h, s)
    PROVE  CallInv(c, b, i, t)
  <1> USE ProcessesAssumption DEF CallInv
  <1>1. Sparing(c, i, t)
    BY DEF Sparing, KillRecords, Machine, Onward, Stages
  <1>2. Tracking(c, b, t)
    <2>1. c.victim \in s => \A p \in Pids : a[p] # c.victim => b[p] # c.victim
      BY DEF Machine, Onward
    <2> QED BY <2>1 DEF Tracking, KillRecords, Stages
  <1> QED BY <1>1, <1>2

(* A step of one call, and of the machine.                                 *)
LEMMA CallStep ==
    ASSUME KInv, NEW k \in KillCalls, NEW c, kills' = [kills EXCEPT ![k] = c],
           CallInv(c, at', context', spawned'), Machine(at', context', spawned'), spawned \subseteq spawned',
           Onward(at, spawned, at'), Onward(context, spawned, context')
    PROVE  KInv'
  <1>1. c \in KillRecords
    BY DEF CallInv
  <1>2. ASSUME NEW j \in KillCalls PROVE CallInv(kills'[j], at', context', spawned')
    <2>1. CASE j = k
      <3>1. kills'[j] = c
        BY <2>1 DEF KInv
      <3> QED BY <3>1
    <2>2. CASE j # k
      <3>1. kills'[j] = kills[j] /\ CallInv(kills[j], at, context, spawned) /\ Machine(at, context, spawned)
        BY <2>2 DEF KInv
      <3> QED BY <3>1, CallStays
    <2> QED BY <2>1, <2>2
  <1> QED BY <1>1, <1>2 DEF KInv

LEMMA WorldStep ==
    ASSUME KInv, kills' = kills, Machine(at', context', spawned'), spawned \subseteq spawned',
           Onward(at, spawned, at'), Onward(context, spawned, context')
    PROVE  KInv'
  <1>1. ASSUME NEW j \in KillCalls PROVE CallInv(kills'[j], at', context', spawned')
    <2>1. kills'[j] = kills[j] /\ CallInv(kills[j], at, context, spawned) /\ Machine(at, context, spawned)
      BY DEF KInv
    <2> QED BY <2>1, CallStays
  <1> QED BY <1>1 DEF KInv

LEMMA Stills ==
    ASSUME KInv, UNCHANGED <<at, context, spawned>>
    PROVE  /\ Machine(at', context', spawned') /\ spawned \subseteq spawned'
           /\ Onward(at, spawned, at') /\ Onward(context, spawned, context')
  BY DEF KInv, Onward

(* A call whose place in the world has not changed, from what it was.      *)
LEMMA KCallIs ==
    ASSUME KInv, NEW k \in KillCalls
    PROVE  /\ kills[k] \in KillRecords /\ CallInv(kills[k], at, context, spawned)
           /\ Machine(at, context, spawned) /\ kills \in [KillCalls -> KillRecords]
  BY DEF KInv

LEMMA WaitingIs == /\ Waiting \in KillRecords /\ Waiting.stage = "idle" /\ Waiting.hit = {} /\ Waiting.answer = None
                   /\ Waiting.spared = {} /\ Waiting.exited = FALSE /\ Waiting.pid = None /\ Waiting.victim = None
  BY DEF Waiting, KillRecords, Stages, Answers, None

LEMMA CheckKillKeeps ==
    ASSUME KInv, NEW k \in KillCalls, NEW pid \in Pids, NEW readable \in BOOLEAN, CheckKill(k, pid, readable)
    PROVE  KInv'
  <1> DEFINE sp == IF readable THEN {x \in spawned : OwnedBy[x] \in live} ELSE {}
             call == [Waiting EXCEPT !.pid = pid, !.stage = "asked", !.spared = sp]
             c == IF Reported(pid) = None THEN [call EXCEPT !.stage = "done", !.answer = "not_a_gpu_process"]
                  ELSE IF ~Killable(Reported(pid), readable)
                  THEN [call EXCEPT !.stage = "done", !.answer = "process_is_managed"]
                  ELSE call
  <1>1. kills' = [kills EXCEPT ![k] = c] /\ UNCHANGED <<at, context, spawned>>
    BY DEF CheckKill
  <1>2. Machine(at, context, spawned)
    BY DEF KInv
  <1>3. sp \subseteq spawned /\ sp \in SUBSET Processes
    BY <1>2 DEF Machine
  <1>4. /\ call \in KillRecords /\ call.pid = pid /\ call.stage = "asked" /\ call.spared = sp
        /\ call.hit = {} /\ call.answer = None /\ call.exited = FALSE
    <2> HIDE DEF sp
    <2> QED BY <1>3, WaitingIs DEF KillRecords, Stages
  <1>5. Killable(Reported(pid), readable) /\ Reported(pid) # None => context[pid] \notin sp
    BY DEF Killable, Reported
  <1> HIDE DEF sp, call
  <1>6. /\ c \in KillRecords /\ c.pid = pid /\ c.stage \in {"asked", "done"} /\ c.spared = sp /\ c.hit = {}
        /\ c.stage = "done" <=> c.answer # None
        /\ c.stage = "asked" => context[pid] \notin sp
    <2>1. CASE Reported(pid) = None
      <3>1. c = [call EXCEPT !.stage = "done", !.answer = "not_a_gpu_process"]
        BY <2>1
      <3> HIDE DEF c
      <3>2. c \in KillRecords /\ c.pid = pid /\ c.stage = "done" /\ c.spared = sp /\ c.hit = {} /\ c.answer = "not_a_gpu_process"
        BY <3>1, <1>4 DEF KillRecords, Stages, Answers
      <3> QED BY <3>2 DEF None
    <2>2. CASE Reported(pid) # None /\ ~Killable(Reported(pid), readable)
      <3>1. c = [call EXCEPT !.stage = "done", !.answer = "process_is_managed"]
        BY <2>2
      <3> HIDE DEF c
      <3>2. c \in KillRecords /\ c.pid = pid /\ c.stage = "done" /\ c.spared = sp /\ c.hit = {} /\ c.answer = "process_is_managed"
        BY <3>1, <1>4 DEF KillRecords, Stages, Answers
      <3> QED BY <3>2 DEF None
    <2>3. CASE Reported(pid) # None /\ Killable(Reported(pid), readable)
      BY <1>4, <1>5, <2>3
    <2> QED BY <2>1, <2>2, <2>3
  <1> HIDE DEF c
  <1>7. CallInv(c, at, context, spawned)
    BY <1>3, <1>6 DEF CallInv, Sparing, Tracking
  <1>8. CallInv(c, at', context', spawned')
    BY <1>1, <1>7
  <1> QED BY <1>1, <1>8, Stills, CallStep

LEMMA SendTermKeeps == ASSUME KInv, NEW k \in KillCalls, SendTerm(k) PROVE KInv'
  <1> DEFINE b == kills[k]
             pid == b.pid
             c == IF Reported(pid) = None THEN [b EXCEPT !.stage = "done", !.answer = "not_a_gpu_process"]
                  ELSE IF Guarded(pid) THEN [b EXCEPT !.stage = "done", !.answer = "protected_pid"]
                  ELSE [b EXCEPT !.stage = IF at[pid] = None THEN "settling" ELSE "grace", !.victim = Reported(pid),
                                 !.sent = "SIGTERM", !.hit = {at[pid]} \ {None}, !.exited = at[pid] = None]
  <1>1. kills' = [kills EXCEPT ![k] = c] /\ b.stage = "asked" /\ UNCHANGED <<at, context, spawned>>
    BY DEF SendTerm
  <1>2. b \in KillRecords /\ CallInv(b, at, context, spawned) /\ Machine(at, context, spawned)
    BY KCallIs
  <1> HIDE DEF b
  <1>3. pid \in Pids /\ context[pid] \notin b.spared /\ b.hit \cap b.spared = {} /\ b.answer = None
        /\ b.spared \subseteq spawned /\ (pid \in Protected => b.hit = {})
    BY <1>1, <1>2 DEF CallInv, Sparing
  <1>4. /\ at[pid] \in Processes \cup {None} /\ context[pid] \in Processes \cup {None}
        /\ at[pid] # None => context[pid] = at[pid]
        /\ context[pid] # None => context[pid] \in spawned
        /\ context[pid] # None => \A p \in Pids \ {pid} : at[p] # context[pid]
    BY <1>2, <1>3 DEF Machine
  <1>5. CASE Reported(pid) = None \/ Guarded(pid)
    <2> DEFINE a == IF Reported(pid) = None THEN "not_a_gpu_process" ELSE "protected_pid"
    <2>0. a \in Answers /\ a # None
      BY DEF Answers, None
    <2>1. c = [b EXCEPT !.stage = "done", !.answer = a]
      BY <1>5
    <2> HIDE DEF c, a
    <2>2. /\ c \in KillRecords /\ c.stage = "done" /\ c.answer = a /\ c.pid = pid
          /\ c.spared = b.spared /\ c.hit = b.hit
      BY <1>2, <2>0, <2>1 DEF KillRecords, Stages
    <2>3. CallInv(c, at, context, spawned)
      BY <1>3, <2>0, <2>2 DEF CallInv, Sparing, Tracking
    <2> QED BY <1>1, <2>3, Stills, CallStep
  <1>6. CASE Reported(pid) # None /\ ~Guarded(pid)
    <2> DEFINE g == IF at[pid] = None THEN "settling" ELSE "grace"
               w == {at[pid]} \ {None}
               e == (at[pid] = None)
    <2>1. c = [b EXCEPT !.stage = g, !.victim = context[pid], !.sent = "SIGTERM", !.hit = w, !.exited = e]
      BY <1>6 DEF Reported
    <2>2. /\ g \in {"settling", "grace"} /\ w \in SUBSET Processes /\ w \cap b.spared = {} /\ e \in BOOLEAN
          /\ context[pid] # None /\ pid \notin Protected /\ (e => at[pid] # context[pid])
      BY <1>3, <1>4, <1>6 DEF Reported, Guarded
    <2> HIDE DEF c, g, w, e
    <2>3. /\ c \in KillRecords /\ c.stage = g /\ c.answer = None /\ c.pid = pid /\ c.victim = context[pid]
          /\ c.spared = b.spared /\ c.hit = w /\ c.exited = e
      <3> HIDE DEF pid
      <3>1. b.pid = pid
        BY DEF pid
      <3> QED BY <1>2, <1>3, <1>4, <2>1, <2>2, <3>1 DEF KillRecords, Stages
    <2>4. Sparing(c, context, spawned)
      BY <1>3, <2>2, <2>3 DEF Sparing
    <2>5. Tracking(c, at, spawned)
      BY <1>4, <2>2, <2>3 DEF Tracking
    <2>6. CallInv(c, at, context, spawned)
      BY <1>3, <2>2, <2>3, <2>4, <2>5 DEF CallInv
    <2> QED BY <1>1, <2>6, Stills, CallStep
  <1> QED BY <1>5, <1>6

LEMMA GraceEndsKeeps == ASSUME KInv, NEW k \in KillCalls, GraceEnds(k) PROVE KInv'
  <1> DEFINE b == kills[k]
             pid == b.pid
  <1>1. b.stage = "grace" /\ UNCHANGED <<context, spawned>>
    BY DEF GraceEnds
  <1>2. b \in KillRecords /\ CallInv(b, at, context, spawned) /\ Machine(at, context, spawned)
        /\ kills \in [KillCalls -> KillRecords]
    BY KCallIs
  <1>3. /\ pid \in Pids /\ context[pid] \notin b.spared /\ b.hit \cap b.spared = {} /\ b.answer = None
        /\ b.spared \subseteq spawned /\ pid \notin Protected
        /\ b.victim \in spawned /\ \A p \in Pids \ {pid} : at[p] # b.victim
    <2> HIDE DEF b
    <2> QED BY <1>1, <1>2 DEF CallInv, Sparing, Tracking
  <1>4. /\ at[pid] \in Processes \cup {None} /\ (at[pid] # None => context[pid] = at[pid]) /\ b.victim # None
    BY <1>2, <1>3, ProcessesAssumption DEF Machine
  <1>5. CASE Released(pid)
    <2> DEFINE c == [b EXCEPT !.stage = "settling", !.exited = TRUE]
    <2>1. kills' = [kills EXCEPT ![k] = c] /\ UNCHANGED <<at, context, spawned>>
      BY <1>1, <1>2, <1>5 DEF GraceEnds
    <2> HIDE DEF b
    <2>2. /\ c \in KillRecords /\ c.stage = "settling" /\ c.answer = None /\ c.pid = pid /\ c.victim = b.victim
          /\ c.spared = b.spared /\ c.hit = b.hit
      BY <1>2, <1>3 DEF KillRecords, Stages
    <2> HIDE DEF c
    <2>3. CallInv(c, at, context, spawned)
      BY <1>3, <1>4, <1>5, <2>2 DEF CallInv, Sparing, Tracking, Released
    <2> QED BY <2>1, <2>3, Stills, CallStep
  <1>6. CASE ~Released(pid)
    <2> DEFINE w == b.hit \cup ({at[pid]} \ {None})
               c == [b EXCEPT !.stage = "forced", !.sent = "SIGKILL", !.hit = w]
    <2>1. kills' = [kills EXCEPT ![k] = c] /\ at' = [at EXCEPT ![pid] = None]
      BY <1>1, <1>2, <1>6 DEF GraceEnds
    <2> HIDE DEF b
    <2>2. w \in SUBSET Processes /\ w \cap b.spared = {}
      BY <1>2, <1>3, <1>4 DEF KillRecords
    <2> HIDE DEF w
    <2>3. /\ c \in KillRecords /\ c.stage = "forced" /\ c.answer = None /\ c.pid = pid /\ c.victim = b.victim
          /\ c.spared = b.spared /\ c.hit = w
      BY <1>2, <1>3, <2>2 DEF KillRecords, Stages
    <2> HIDE DEF c, pid
    <2>4. Machine(at', context', spawned') /\ Onward(at, spawned, at') /\ Onward(context, spawned, context')
      BY <1>1, <1>2, <1>3, <2>1 DEF Machine, Onward
    <2>5. CallInv(c, at', context', spawned')
      BY <1>1, <1>2, <1>3, <1>4, <2>1, <2>2, <2>3 DEF CallInv, Sparing, Tracking, Machine
    <2> QED BY <1>1, <2>1, <2>4, <2>5, CallStep
  <1> QED BY <1>5, <1>6

(* A call that waits for nothing more: what it struck and spared stays.    *)
LEMMA ForceEndsKeeps == ASSUME KInv, NEW k \in KillCalls, ForceEnds(k) PROVE KInv'
  <1> DEFINE b == kills[k]
             e == Released(b.pid)
             c == [b EXCEPT !.stage = "settling", !.exited = e]
  <1>1. /\ b \in KillRecords /\ CallInv(b, at, context, spawned) /\ Machine(at, context, spawned)
        /\ kills \in [KillCalls -> KillRecords]
    BY KCallIs
  <1>2. kills' = [kills EXCEPT ![k] = c] /\ b.stage = "forced" /\ UNCHANGED <<at, context, spawned>>
    BY <1>1 DEF ForceEnds
  <1> HIDE DEF b
  <1>3. e \in BOOLEAN /\ (e => at[b.pid] = None)
    BY DEF Released
  <1> HIDE DEF e
  <1>4. /\ c \in KillRecords /\ c.stage = "settling" /\ c.answer = b.answer /\ c.pid = b.pid
        /\ c.victim = b.victim /\ c.spared = b.spared /\ c.hit = b.hit /\ c.exited = e
    BY <1>1, <1>3 DEF KillRecords, Stages
  <1> HIDE DEF c
  <1>5. Sparing(c, context, spawned)
    BY <1>1, <1>2, <1>4 DEF CallInv, Sparing
  <1>6. Tracking(c, at, spawned)
    BY <1>1, <1>2, <1>3, <1>4, ProcessesAssumption DEF CallInv, Tracking, Machine
  <1>7. CallInv(c, at, context, spawned)
    BY <1>1, <1>2, <1>4, <1>5, <1>6 DEF CallInv
  <1> QED BY <1>2, <1>7, Stills, CallStep

LEMMA DoneStep ==
    ASSUME KInv, NEW k \in KillCalls, kills[k].stage # "idle", UNCHANGED <<at, context, spawned>>,
           NEW e \in BOOLEAN, NEW a \in Answers \ {None},
           kills' = [kills EXCEPT ![k] = [kills[k] EXCEPT !.stage = "done", !.exited = e, !.answer = a]]
    PROVE  KInv'
  <1> DEFINE b == kills[k]
             c == [b EXCEPT !.stage = "done", !.exited = e, !.answer = a]
  <1>1. b \in KillRecords /\ CallInv(b, at, context, spawned) /\ b.stage # "idle"
    BY KCallIs
  <1>2. kills' = [kills EXCEPT ![k] = c]
    OBVIOUS
  <1> HIDE DEF b
  <1>4. /\ c \in KillRecords /\ c.stage = "done" /\ c.answer = a /\ c.pid = b.pid
        /\ c.spared = b.spared /\ c.hit = b.hit
    BY <1>1 DEF KillRecords, Stages
  <1> HIDE DEF c
  <1>5. CallInv(c, at, context, spawned)
    BY <1>1, <1>4 DEF CallInv, Sparing, Tracking
  <1> QED BY <1>2, <1>5, Stills, CallStep

LEMMA SettleKeeps ==
    ASSUME KInv, NEW k \in KillCalls, NEW answers \in BOOLEAN, Settle(k, answers) PROVE KInv'
  <1> DEFINE still == answers /\ Reported(kills[k].pid) # None
             a == IF ~answers THEN "unconfirmed" ELSE IF still THEN "still_held" ELSE "released"
             e == kills[k].exited /\ ~still
  <1>1. kills[k] \in KillRecords /\ kills \in [KillCalls -> KillRecords]
    BY KCallIs
  <1>2. a \in Answers \ {None} /\ e \in BOOLEAN
    BY DEF Answers, None
  <1>3. kills' = [kills EXCEPT ![k].stage = "done", ![k].exited = e, ![k].answer = a]
    BY DEF Settle
  <1>4. kills[k].stage = "settling" /\ UNCHANGED <<at, context, spawned>>
    BY DEF Settle
  <1> HIDE DEF a, e
  <1>5. kills' = [kills EXCEPT ![k] = [kills[k] EXCEPT !.stage = "done", !.exited = e, !.answer = a]]
    BY <1>1, <1>3
  <1>6. kills[k].stage # "idle"
    BY <1>4
  <1> QED BY <1>2, <1>4, <1>5, <1>6, DoneStep

LEMMA UnansweredKeeps == ASSUME KInv, NEW k \in KillCalls, Unanswered(k) PROVE KInv'
  <1> DEFINE e == kills[k].exited
             a == "node_agent_unreachable"
  <1>1. kills[k] \in KillRecords /\ kills \in [KillCalls -> KillRecords]
    BY KCallIs
  <1>2. a \in Answers \ {None} /\ e \in BOOLEAN
    BY <1>1 DEF Answers, None, KillRecords
  <1>3. kills' = [kills EXCEPT ![k].stage = "done", ![k].answer = a] /\ UNCHANGED <<at, context, spawned>>
    BY DEF Unanswered
  <1>4. kills[k].stage # "idle"
    BY DEF Unanswered
  <1> HIDE DEF a
  <1>5. [kills[k] EXCEPT !.stage = "done", !.answer = a] = [kills[k] EXCEPT !.stage = "done", !.exited = e, !.answer = a]
    <2> DEFINE b == kills[k]
    <2>1. b \in KillRecords /\ e = b.exited
      BY <1>1
    <2> HIDE DEF b, e
    <2>2. [b EXCEPT !.stage = "done", !.answer = a] = [b EXCEPT !.stage = "done", !.exited = e, !.answer = a]
      BY <2>1 DEF KillRecords
    <2> QED BY <2>2 DEF b
  <1>6. kills' = [kills EXCEPT ![k] = [kills[k] EXCEPT !.stage = "done", !.answer = a]]
    BY <1>1, <1>3
  <1>7. kills' = [kills EXCEPT ![k] = [kills[k] EXCEPT !.stage = "done", !.exited = e, !.answer = a]]
    BY <1>5, <1>6
  <1> HIDE DEF e
  <1> QED BY <1>2, <1>3, <1>4, <1>7, DoneStep

LEMMA MachineKeeps ==
    ASSUME KInv, NEW pid \in Pids,
           \/ \E x \in Processes : Spawns(pid, x)
           \/ \E frees \in BOOLEAN : Exits(pid, frees)
           \/ DriverFrees(pid)
    PROVE  KInv'
  <1>1. Machine(at, context, spawned)
    BY DEF KInv
  <1>2. ASSUME NEW x \in Processes, Spawns(pid, x) PROVE KInv'
    <2>1. Machine(at', context', spawned')
      BY <1>1, <1>2, ProcessesAssumption DEF Spawns, Machine
    <2>2. Onward(at, spawned, at') /\ Onward(context, spawned, context') /\ spawned \subseteq spawned'
      BY <1>1, <1>2 DEF Spawns, Machine, Onward
    <2> QED BY <1>2, <2>1, <2>2, WorldStep DEF Spawns
  <1>3. ASSUME NEW frees \in BOOLEAN, Exits(pid, frees) PROVE KInv'
    <2>1. Machine(at', context', spawned')
      BY <1>1, <1>3 DEF Exits, Machine
    <2>2. Onward(at, spawned, at') /\ Onward(context, spawned, context') /\ spawned \subseteq spawned'
      BY <1>1, <1>3 DEF Exits, Machine, Onward
    <2> QED BY <1>3, <2>1, <2>2, WorldStep DEF Exits
  <1>4. CASE DriverFrees(pid)
    <2>1. Machine(at', context', spawned')
      BY <1>1, <1>4 DEF DriverFrees, Machine
    <2>2. Onward(at, spawned, at') /\ Onward(context, spawned, context') /\ spawned \subseteq spawned'
      BY <1>1, <1>4 DEF DriverFrees, Machine, Onward
    <2> QED BY <1>4, <2>1, <2>2, WorldStep DEF DriverFrees
  <1> QED BY <1>2, <1>3, <1>4

LEMMA KInit == KillsInit => KInv
  <1> SUFFICES ASSUME KillsInit PROVE KInv
    OBVIOUS
  <1>1. Machine(at, context, spawned)
    BY DEF KillsInit, Machine
  <1>2. CallInv(Waiting, at, context, spawned)
    BY WaitingIs DEF CallInv, Sparing, Tracking
  <1> QED BY <1>1, <1>2, WaitingIs DEF KInv, KillsInit

LEMMA KStep == KInv /\ [KillsNext]_killVars => KInv'
  <1> SUFFICES ASSUME KInv, [KillsNext]_killVars PROVE KInv'
    OBVIOUS
  <1>1. ASSUME NEW k \in KillCalls, NEW pid \in Pids, NEW readable \in BOOLEAN, CheckKill(k, pid, readable)
        PROVE  KInv'
    BY <1>1, CheckKillKeeps
  <1>2. ASSUME NEW k \in KillCalls, SendTerm(k) \/ GraceEnds(k) \/ ForceEnds(k) \/ Unanswered(k) PROVE KInv'
    BY <1>2, SendTermKeeps, GraceEndsKeeps, ForceEndsKeeps, UnansweredKeeps
  <1>3. ASSUME NEW k \in KillCalls, NEW answers \in BOOLEAN, Settle(k, answers) PROVE KInv'
    BY <1>3, SettleKeeps
  <1>4. ASSUME NEW pid \in Pids,
               \/ \E x \in Processes : Spawns(pid, x)
               \/ \E frees \in BOOLEAN : Exits(pid, frees)
               \/ DriverFrees(pid)
        PROVE  KInv'
    BY <1>4, MachineKeeps
  <1>5. ASSUME NEW d \in Deployments, DeploymentTurns(d) PROVE KInv'
    BY <1>5 DEF DeploymentTurns, KInv
  <1>6. CASE UNCHANGED killVars
    BY <1>6 DEF killVars, KInv
  <1> QED BY <1>1, <1>2, <1>3, <1>4, <1>5, <1>6 DEF KillsNext

Reclaims ==
    \A k \in KillCalls : kills[k].stage = "settling" /\ kills'[k].stage = "done" =>
         /\ kills'[k].exited => \A p \in Pids : at[p] # kills[k].victim
         /\ kills'[k].answer = "released" => context[kills[k].pid] = None

(* Only _settle() ends a call that was settling.                           *)
LEMMA ReclaimStep == KInv /\ [KillsNext]_killVars => [Reclaims]_killVars
  <1> SUFFICES ASSUME KInv, KillsNext, NEW k \in KillCalls, kills[k].stage = "settling", kills'[k].stage = "done"
               PROVE  /\ kills'[k].exited => \A p \in Pids : at[p] # kills[k].victim
                      /\ kills'[k].answer = "released" => context[kills[k].pid] = None
    BY DEF Reclaims
  <1>1. /\ kills[k] \in KillRecords /\ CallInv(kills[k], at, context, spawned)
        /\ kills \in [KillCalls -> KillRecords]
    BY KCallIs
  <1>2. PICK answers \in BOOLEAN : Settle(k, answers)
    <2>1. ASSUME NEW j \in KillCalls, kills[j].stage # "settling", NEW c, kills' = [kills EXCEPT ![j] = c]
          PROVE  FALSE
      BY <1>1, <2>1
    <2>2. ASSUME NEW j \in KillCalls, NEW pid \in Pids, NEW readable \in BOOLEAN, CheckKill(j, pid, readable)
          PROVE  FALSE
      BY <2>1, <2>2 DEF CheckKill
    <2>3. ASSUME NEW j \in KillCalls, SendTerm(j) PROVE FALSE
      BY <2>1, <2>3 DEF SendTerm
    <2>4. ASSUME NEW j \in KillCalls, GraceEnds(j) PROVE FALSE
      <3> DEFINE g == [kills[j] EXCEPT !.stage = "settling", !.exited = TRUE]
                 f == [kills[j] EXCEPT !.stage = "forced", !.sent = "SIGKILL",
                                       !.hit = kills[j].hit \cup ({at[kills[j].pid]} \ {None})]
      <3>1. kills' = [kills EXCEPT ![j] = g] \/ kills' = [kills EXCEPT ![j] = f]
        BY <1>1, <2>4 DEF GraceEnds
      <3> QED BY <2>1, <2>4, <3>1 DEF GraceEnds
    <2>5. ASSUME NEW j \in KillCalls, ForceEnds(j) PROVE FALSE
      <3> DEFINE f == [kills[j] EXCEPT !.stage = "settling", !.exited = Released(kills[j].pid)]
      <3>1. kills' = [kills EXCEPT ![j] = f]
        BY <1>1, <2>5 DEF ForceEnds
      <3> QED BY <2>1, <2>5, <3>1 DEF ForceEnds
    <2>6. ASSUME NEW j \in KillCalls, Unanswered(j) PROVE FALSE
      <3> DEFINE f == [kills[j] EXCEPT !.stage = "done", !.answer = "node_agent_unreachable"]
      <3>1. kills' = [kills EXCEPT ![j] = f]
        BY <1>1, <2>6 DEF Unanswered
      <3> QED BY <2>1, <2>6, <3>1 DEF Unanswered
    <2>7. ASSUME NEW j \in KillCalls, j # k, NEW answers \in BOOLEAN, Settle(j, answers) PROVE FALSE
      <3>1. kills'[k] = kills[k]
        BY <1>1, <2>7 DEF Settle
      <3> QED BY <3>1
    <2>8. ASSUME kills' = kills PROVE FALSE
      BY <2>8
    <2>9. ASSUME NEW pid \in Pids,
                 \/ \E x \in Processes : Spawns(pid, x)
                 \/ \E frees \in BOOLEAN : Exits(pid, frees)
                 \/ DriverFrees(pid)
          PROVE  FALSE
      BY <2>8, <2>9 DEF Spawns, Exits, DriverFrees
    <2>10. ASSUME NEW d \in Deployments, DeploymentTurns(d) PROVE FALSE
      BY <2>8, <2>10 DEF DeploymentTurns
    <2> QED BY <2>2, <2>3, <2>4, <2>5, <2>6, <2>7, <2>9, <2>10 DEF KillsNext
  <1> DEFINE still == answers /\ Reported(kills[k].pid) # None
             a == IF ~answers THEN "unconfirmed" ELSE IF still THEN "still_held" ELSE "released"
             e == kills[k].exited /\ ~still
  <1>3. kills' = [kills EXCEPT ![k].stage = "done", ![k].exited = e, ![k].answer = a]
    BY <1>2 DEF Settle
  <1>4. (a = "released" => context[kills[k].pid] = None) /\ (e => kills[k].exited)
    BY DEF Reported
  <1> HIDE DEF a, e
  <1>5. kills'[k].exited = e /\ kills'[k].answer = a
    BY <1>1, <1>3 DEF KillRecords
  <1>6. e => \A p \in Pids : at[p] # kills[k].victim
    BY <1>1, <1>4 DEF CallInv, Tracking
  <1> QED BY <1>4, <1>5, <1>6

(* DELETE /api/nodes/{id}/processes/{pid} (internal_api.py over            *)
(* procs.kill_gpu_process()), for any number of pids, processes and calls: *)
(* although processes exit and others take their pids between the list     *)
(* that is read and the signals that are sent, what was seen to serve a    *)
(* live deployment and the agent itself are never signalled, and a kill    *)
(* that is reported to have ended its target, or released its memory, has. *)
THEOREM KillsKeepTheirPromise == KillsSpec => KillsPromise
  <1>1. KInv => KillsTypeOK /\ ServingSpared /\ AgentSpared
    <2> SUFFICES ASSUME KInv PROVE KillsTypeOK /\ ServingSpared /\ AgentSpared
      OBVIOUS
    <2>1. \A k \in KillCalls : CallInv(kills[k], at, context, spawned)
      BY DEF KInv
    <2>2. ServingSpared /\ AgentSpared
      BY <2>1 DEF CallInv, Sparing, ServingSpared, AgentSpared
    <2>3. KillsTypeOK
      <3>1. Machine(at, context, spawned)
        BY DEF KInv
      <3>2. \A p, q \in Pids : p # q /\ at[p] # None => at[p] # at[q]
        BY <3>1 DEF Machine
      <3>3. \A p \in Pids : at[p] # None => context[p] = at[p]
        BY <3>1 DEF Machine
      <3>4. \A k \in KillCalls : kills[k].stage \in Stages /\ (kills[k].stage = "done" <=> kills[k].answer # None)
        BY <2>1 DEF CallInv, KillRecords
      <3> QED BY <3>2, <3>3, <3>4 DEF KillsTypeOK, Stages
    <2> QED BY <2>2, <2>3
  <1>2. [Reclaims]_killVars <=>
        [\A k \in KillCalls : kills[k].stage = "settling" /\ kills'[k].stage = "done" =>
             /\ kills'[k].exited => \A p \in Pids : at[p] # kills[k].victim
             /\ kills'[k].answer = "released" => context[kills[k].pid] = None]_killVars
    BY DEF Reclaims
  <1> QED BY <1>1, <1>2, KInit, KStep, ReclaimStep, PTL DEF KillsSpec, KillsPromise, ReclaimTrue
----------------------------------------------------------------------------
(* Pulls.                                                                  *)

AskStates == {"idle", "waiting", "refused", "sized", "failed", "present", "no_size"}
TaskStates == {"none", "streaming", "refreshing", "raised", "returned", "cancelled", "gone"}
GateStates == {"open", "refused", "sized", "failed", "present"}
PullRecords == [total : {UnknownSize} \cup 1 .. 100, completed : 0 .. 100, saw : BOOLEAN,
                finished : BOOLEAN, error : BOOLEAN, over : BOOLEAN]
SentRecords == [layer : 0 .. Len(LayerSizes), part : {0, 50, 100}]

(* One pull (a: the request, t: the runner, g: the gate, c: the record,    *)
(* on: it is on the rail, s: what was sent), of its types.                 *)
PullTyped(a, t, g, c, on, s) ==
    /\ a \in AskStates /\ t \in TaskStates /\ g \in GateStates
    /\ c \in PullRecords /\ s \in SentRecords /\ on \in BOOLEAN

(* What has come of a layer of a size.                                     *)
PartOf(n, part) == (n * part) \div 100

(* The record's figures are the last frame's until the end, and those of a *)
(* download shown as whole are of a layer that came whole.                 *)
Figures(c, on, s) ==
    /\ c.saw <=> c.total # UnknownSize
    /\ ~c.saw => c.completed = 0
    /\ c.saw => c.completed <= c.total /\ s.layer > 0
    /\ c.saw /\ ~c.finished => c.total = LayerSizes[s.layer] /\ c.completed = PartOf(c.total, s.part)
    /\ c.finished /\ ~c.error /\ on => s.part = 100

(* A download is on the rail from its first accepted size to its end.      *)
Railed(t, c, on, s) ==
    /\ on => c.saw /\ (HostBudget > 0 /\ ~c.over => LayerSizes[1] <= HostBudget)
    /\ c.saw /\ ~c.finished => on
    /\ t = "streaming" /\ s.layer > 0 => c.saw
    /\ c.finished <=> t = "gone"

(* The gate stays open only while nothing was sent; what closed it is what *)
(* the request answers, or else the runner was cancelled.                  *)
Gated(a, t, g, c, s) ==
    /\ g = "open" => s = Nothing /\ ~c.saw
    /\ g = "open" /\ a = "waiting" => t \in {"streaming", "refreshing"}
    /\ g = "failed" => t \in {"raised", "gone"}
    /\ g = "refused" => ~c.saw /\ t \in {"raised", "gone"}
    /\ g = "sized" => c.saw
    /\ g = "present" => s = Nothing /\ t \in {"returned", "gone"}
    /\ a = "idle" <=> t = "none"
    /\ a = "idle" => g = "open"
    /\ a = "no_size" => g = "open" /\ t \in {"cancelled", "gone"}
    /\ a \notin {"idle", "waiting", "no_size"} => a = g

PullInv(a, t, g, c, on, s) ==
    PullTyped(a, t, g, c, on, s) /\ Figures(c, on, s) /\ Railed(t, c, on, s) /\ Gated(a, t, g, c, s)

PInv ==
    /\ asks \in [PullIds -> AskStates] /\ tasks \in [PullIds -> TaskStates] /\ gate \in [PullIds -> GateStates]
    /\ record \in [PullIds -> PullRecords] /\ sent \in [PullIds -> SentRecords] /\ rail \subseteq PullIds
    /\ \A p \in PullIds : PullInv(asks[p], tasks[p], gate[p], record[p], p \in rail, sent[p])

LEMMA NothingIs ==
    /\ Nothing \in SentRecords /\ Nothing.layer = 0 /\ Nothing.part = 0
    /\ NoRecord \in PullRecords /\ NoRecord.total = UnknownSize /\ NoRecord.completed = 0
    /\ ~NoRecord.saw /\ ~NoRecord.finished /\ ~NoRecord.error /\ ~NoRecord.over
  BY SizesAssumption DEF Nothing, NoRecord, SentRecords, PullRecords, UnknownSize

(* A step of one pull.                                                     *)
LEMMA PullMoves ==
    ASSUME PInv, NEW p \in PullIds, NEW a, NEW t, NEW g, NEW c, NEW s, NEW on \in BOOLEAN,
           asks' = [asks EXCEPT ![p] = a], tasks' = [tasks EXCEPT ![p] = t], gate' = [gate EXCEPT ![p] = g],
           record' = [record EXCEPT ![p] = c], sent' = [sent EXCEPT ![p] = s],
           rail' = (IF on THEN rail \cup {p} ELSE rail \ {p}), PullInv(a, t, g, c, on, s)
    PROVE  PInv'
  <1>1. a \in AskStates /\ t \in TaskStates /\ g \in GateStates /\ c \in PullRecords /\ s \in SentRecords
    BY DEF PullInv, PullTyped
  <1>2. /\ asks' \in [PullIds -> AskStates] /\ tasks' \in [PullIds -> TaskStates] /\ gate' \in [PullIds -> GateStates]
        /\ record' \in [PullIds -> PullRecords] /\ sent' \in [PullIds -> SentRecords] /\ rail' \subseteq PullIds
    BY <1>1 DEF PInv
  <1>3. ASSUME NEW q \in PullIds
        PROVE  PullInv(asks'[q], tasks'[q], gate'[q], record'[q], q \in rail', sent'[q])
    <2>1. CASE q = p
      <3>1. /\ asks'[q] = a /\ tasks'[q] = t /\ gate'[q] = g /\ record'[q] = c /\ sent'[q] = s
            /\ (q \in rail') = on
        BY <2>1 DEF PInv
      <3> QED BY <3>1
    <2>2. CASE q # p
      <3>1. /\ asks'[q] = asks[q] /\ tasks'[q] = tasks[q] /\ gate'[q] = gate[q] /\ record'[q] = record[q]
            /\ sent'[q] = sent[q] /\ (q \in rail') = (q \in rail)
        BY <2>2 DEF PInv
      <3> QED BY <3>1 DEF PInv
    <2> QED BY <2>1, <2>2
  <1> QED BY <1>2, <1>3 DEF PInv

(* What a step of one pull leaves alone, in the form PullMoves wants.      *)
LEMMA PullStill ==
    ASSUME PInv, NEW p \in PullIds
    PROVE  /\ asks = [asks EXCEPT ![p] = asks[p]] /\ tasks = [tasks EXCEPT ![p] = tasks[p]]
           /\ gate = [gate EXCEPT ![p] = gate[p]] /\ record = [record EXCEPT ![p] = record[p]]
           /\ sent = [sent EXCEPT ![p] = sent[p]]
           /\ rail = (IF p \in rail THEN rail \cup {p} ELSE rail \ {p})
           /\ PullInv(asks[p], tasks[p], gate[p], record[p], p \in rail, sent[p])
           /\ (p \in rail) \in BOOLEAN
  BY DEF PInv

LEMMA AskPullKeeps ==
    ASSUME PInv, NEW p \in PullIds, NEW over \in BOOLEAN, AskPull(p, over)
    PROVE  PInv'
  <1> DEFINE c == [NoRecord EXCEPT !.over = over]
  <1>1. /\ asks' = [asks EXCEPT ![p] = "waiting"] /\ tasks' = [tasks EXCEPT ![p] = "streaming"]
        /\ gate' = [gate EXCEPT ![p] = "open"] /\ record' = [record EXCEPT ![p] = c]
        /\ sent' = [sent EXCEPT ![p] = Nothing]
    BY DEF AskPull
  <1>2. p \notin rail
    BY PullStill DEF AskPull, PullInv, Gated, Railed
  <1>3. rail' = (IF FALSE THEN rail \cup {p} ELSE rail \ {p})
    BY <1>2 DEF AskPull
  <1>4. c \in PullRecords /\ c.total = UnknownSize /\ c.completed = 0 /\ ~c.saw /\ ~c.finished /\ ~c.error
    BY NothingIs DEF PullRecords
  <1> HIDE DEF c
  <1>5. PullInv("waiting", "streaming", "open", c, FALSE, Nothing)
    BY <1>4, NothingIs DEF PullInv, PullTyped, Figures, Railed, Gated, AskStates, TaskStates, GateStates
  <1> QED BY <1>1, <1>3, <1>5, PullMoves

LEMMA UpstreamFailsKeeps ==
    ASSUME PInv, NEW p \in PullIds, UpstreamFails(p)
    PROVE  PInv'
  <1> DEFINE g == IF gate[p] = "open" THEN "failed" ELSE gate[p]
             on == p \in rail
  <1>1. /\ asks' = [asks EXCEPT ![p] = asks[p]] /\ tasks' = [tasks EXCEPT ![p] = "raised"]
        /\ record' = [record EXCEPT ![p] = record[p]] /\ sent' = [sent EXCEPT ![p] = sent[p]]
        /\ rail' = (IF on THEN rail \cup {p} ELSE rail \ {p})
    BY PullStill DEF UpstreamFails
  <1>2. gate' = [gate EXCEPT ![p] = g]
    BY DEF UpstreamFails, PullClose
  <1>3. PullInv(asks[p], "raised", g, record[p], on, sent[p])
    BY PullStill DEF UpstreamFails, PullInv, PullTyped, Figures, Railed, Gated, AskStates, TaskStates, GateStates
  <1>4. on \in BOOLEAN
    OBVIOUS
  <1> HIDE DEF g, on
  <1> QED BY <1>1, <1>2, <1>3, <1>4, PullMoves

LEMMA StreamEndsKeeps ==
    ASSUME PInv, NEW p \in PullIds, StreamEnds(p)
    PROVE  PInv'
  <1> DEFINE on == p \in rail
  <1>1. /\ asks' = [asks EXCEPT ![p] = asks[p]] /\ tasks' = [tasks EXCEPT ![p] = "refreshing"]
        /\ gate' = [gate EXCEPT ![p] = gate[p]]
        /\ record' = [record EXCEPT ![p] = record[p]] /\ sent' = [sent EXCEPT ![p] = sent[p]]
        /\ rail' = (IF on THEN rail \cup {p} ELSE rail \ {p})
    BY PullStill DEF StreamEnds
  <1>2. PullInv(asks[p], "refreshing", gate[p], record[p], on, sent[p])
    BY PullStill DEF StreamEnds, PullInv, PullTyped, Figures, Railed, Gated, AskStates, TaskStates, GateStates
  <1>4. on \in BOOLEAN
    OBVIOUS
  <1> HIDE DEF on
  <1> QED BY <1>1, <1>2, <1>4, PullMoves

LEMMA RefreshedKeeps ==
    ASSUME PInv, NEW p \in PullIds, Refreshed(p)
    PROVE  PInv'
  <1> DEFINE g == IF gate[p] = "open" THEN "present" ELSE gate[p]
             on == p \in rail
  <1>1. /\ asks' = [asks EXCEPT ![p] = asks[p]] /\ tasks' = [tasks EXCEPT ![p] = "returned"]
        /\ record' = [record EXCEPT ![p] = record[p]] /\ sent' = [sent EXCEPT ![p] = sent[p]]
        /\ rail' = (IF on THEN rail \cup {p} ELSE rail \ {p})
    BY PullStill DEF Refreshed
  <1>2. gate' = [gate EXCEPT ![p] = g]
    BY DEF Refreshed, PullClose
  <1>3. PullInv(asks[p], "returned", g, record[p], on, sent[p])
    BY PullStill DEF Refreshed, PullInv, PullTyped, Figures, Railed, Gated, AskStates, TaskStates, GateStates
  <1>4. on \in BOOLEAN
    OBVIOUS
  <1> HIDE DEF g, on
  <1> QED BY <1>1, <1>2, <1>3, <1>4, PullMoves

LEMMA AnswerPullKeeps ==
    ASSUME PInv, NEW p \in PullIds, AnswerPull(p)
    PROVE  PInv'
  <1> DEFINE on == p \in rail
  <1>1. /\ asks' = [asks EXCEPT ![p] = gate[p]] /\ tasks' = [tasks EXCEPT ![p] = tasks[p]]
        /\ gate' = [gate EXCEPT ![p] = gate[p]]
        /\ record' = [record EXCEPT ![p] = record[p]] /\ sent' = [sent EXCEPT ![p] = sent[p]]
        /\ rail' = (IF on THEN rail \cup {p} ELSE rail \ {p})
    BY PullStill DEF AnswerPull
  <1>2. PullInv(gate[p], tasks[p], gate[p], record[p], on, sent[p])
    BY PullStill DEF AnswerPull, PullInv, PullTyped, Figures, Railed, Gated, AskStates, TaskStates, GateStates
  <1>4. on \in BOOLEAN
    OBVIOUS
  <1> HIDE DEF on
  <1> QED BY <1>1, <1>2, <1>4, PullMoves

LEMMA GateTimeoutKeeps ==
    ASSUME PInv, NEW p \in PullIds, GateTimeout(p)
    PROVE  PInv'
  <1> DEFINE on == p \in rail
  <1>1. /\ asks' = [asks EXCEPT ![p] = "no_size"] /\ tasks' = [tasks EXCEPT ![p] = "cancelled"]
        /\ gate' = [gate EXCEPT ![p] = gate[p]]
        /\ record' = [record EXCEPT ![p] = record[p]] /\ sent' = [sent EXCEPT ![p] = sent[p]]
        /\ rail' = (IF on THEN rail \cup {p} ELSE rail \ {p})
    BY PullStill DEF GateTimeout
  <1>2. PullInv("no_size", "cancelled", gate[p], record[p], on, sent[p])
    BY PullStill, NothingIs
    DEF GateTimeout, PullInv, PullTyped, Figures, Railed, Gated, AskStates, TaskStates, GateStates
  <1>4. on \in BOOLEAN
    OBVIOUS
  <1> HIDE DEF on
  <1> QED BY <1>1, <1>2, <1>4, PullMoves

LEMMA SweepKeeps ==
    ASSUME PInv, NEW p \in PullIds, SweepDownload(p)
    PROVE  PInv'
  <1>1. /\ asks' = [asks EXCEPT ![p] = asks[p]] /\ tasks' = [tasks EXCEPT ![p] = tasks[p]]
        /\ gate' = [gate EXCEPT ![p] = gate[p]]
        /\ record' = [record EXCEPT ![p] = record[p]] /\ sent' = [sent EXCEPT ![p] = sent[p]]
        /\ rail' = (IF FALSE THEN rail \cup {p} ELSE rail \ {p})
    BY PullStill DEF SweepDownload
  <1>2. PullInv(asks[p], tasks[p], gate[p], record[p], FALSE, sent[p])
    BY PullStill DEF SweepDownload, PullInv, PullTyped, Figures, Railed, Gated
  <1> QED BY <1>1, <1>2, PullMoves

(* The size of a layer, and the part of it that has come.                  *)
LEMMA LayerIs ==
    ASSUME NEW layer \in DOMAIN LayerSizes
    PROVE  LayerSizes[layer] \in 1 .. 100 /\ layer \in 1 .. Len(LayerSizes) /\ Len(LayerSizes) \in Nat
  BY SizesAssumption

LEMMA Arrived ==
    ASSUME NEW n \in 1 .. 100, NEW part \in {0, 50, 100}
    PROVE  /\ PartOf(n, part) \in 0 .. 100 /\ PartOf(n, part) <= n
           /\ PartOf(n, part) * 100 >= n * 99 => part = 100
  <1> DEFINE m == PartOf(n, part)
  <1>1. CASE part = 0
    <2>1. m = (n * 0) \div 100
      BY <1>1 DEF PartOf
    <2> HIDE DEF m
    <2>2. m \in 0 .. 100 /\ m <= n /\ ~(m * 100 >= n * 99)
      BY <2>1
    <2> QED BY <2>2 DEF m
  <1>2. CASE part = 50
    <2>1. m = (n * 50) \div 100
      BY <1>2 DEF PartOf
    <2> HIDE DEF m
    <2>2. m \in 0 .. 100 /\ m <= n /\ ~(m * 100 >= n * 99)
      BY <2>1
    <2> QED BY <2>2 DEF m
  <1>3. CASE part = 100
    <2>1. m = (n * 100) \div 100
      BY <1>3 DEF PartOf
    <2> HIDE DEF m
    <2>2. m \in 0 .. 100 /\ m <= n
      BY <2>1
    <2> QED BY <1>3, <2>2 DEF m
  <1> QED BY <1>1, <1>2, <1>3

LEMMA FrameKeeps ==
    ASSUME PInv, NEW p \in PullIds, Frame(p)
    PROVE  PInv'
  <1>1. PICK layer, part :
        /\ layer \in {sent[p].layer, sent[p].layer + 1} \cap DOMAIN LayerSizes /\ part \in {0, 50, 100}
        /\ LET total == LayerSizes[layer] completed == (total * part) \div 100 IN
           /\ tasks[p] = "streaming"
           /\ IF layer = sent[p].layer THEN part > sent[p].part ELSE layer = 1 \/ sent[p].part = 100
           /\ sent' = [sent EXCEPT ![p] = [layer |-> layer, part |-> part]]
           /\ IF sent[p].layer = 0 /\ OverHost(p, total)
              THEN /\ PullClose(p, "refused")
                   /\ tasks' = [tasks EXCEPT ![p] = "raised"]
                   /\ UNCHANGED <<record, rail>>
              ELSE /\ IF sent[p].layer = 0 THEN PullClose(p, "sized") ELSE UNCHANGED gate
                   /\ rail' = rail \cup {p}
                   /\ record' = [record EXCEPT ![p] = Progressed(p, total, completed)]
                   /\ UNCHANGED tasks
           /\ UNCHANGED asks
    BY Zenon DEF Frame
  <1> DEFINE n == LayerSizes[layer]
             m == PartOf(n, part)
             s == [layer |-> layer, part |-> part]
             on == p \in rail
             c == [record[p] EXCEPT !.total = n, !.completed = m, !.saw = TRUE]
             r == IF gate[p] = "open" THEN "refused" ELSE gate[p]
             g == IF sent[p].layer = 0 /\ gate[p] = "open" THEN "sized" ELSE gate[p]
  <1>2. /\ tasks[p] = "streaming" /\ sent' = [sent EXCEPT ![p] = s]
        /\ asks' = [asks EXCEPT ![p] = asks[p]]
    BY <1>1, PullStill
  <1>3. PullInv(asks[p], tasks[p], gate[p], record[p], p \in rail, sent[p]) /\ on \in BOOLEAN
    BY PullStill
  <1>4. record[p] \in PullRecords /\ sent[p] \in SentRecords
    BY <1>3 DEF PullInv, PullTyped
  <1>5. s \in SentRecords /\ s.layer = layer /\ s.part = part /\ s.layer > 0
    <2>1. layer \in 0 .. Len(LayerSizes) /\ layer > 0 /\ part \in {0, 50, 100}
      BY <1>1, LayerIs
    <2> QED BY <2>1 DEF SentRecords
  <1>6. n \in 1 .. 100 /\ m \in 0 .. 100 /\ m <= n /\ n # UnknownSize
    <2>1. n \in 1 .. 100 /\ m \in 0 .. 100 /\ m <= n
      <3>1. n \in 1 .. 100 /\ part \in {0, 50, 100}
        BY <1>1, LayerIs
      <3> HIDE DEF n
      <3> QED BY <3>1, Arrived
    <2> QED BY <2>1 DEF UnknownSize
  <1>7. gate[p] = "open" <=> ~record[p].saw
    BY <1>2, <1>3 DEF PullInv, Gated, Railed, PullTyped, GateStates
  <1>8. sent[p].layer = 0 <=> ~record[p].saw
    BY <1>2, <1>3, <1>4 DEF PullInv, Figures, Railed, SentRecords
  <1>9. CASE sent[p].layer = 0 /\ OverHost(p, n)
    <2>1. /\ tasks' = [tasks EXCEPT ![p] = "raised"] /\ gate' = [gate EXCEPT ![p] = r]
          /\ record' = [record EXCEPT ![p] = record[p]] /\ rail' = (IF on THEN rail \cup {p} ELSE rail \ {p})
      BY <1>1, <1>9, PullStill DEF PullClose
    <2> HIDE DEF s, on, n
    <2>2. r = "refused" /\ ~record[p].saw /\ ~on /\ ~record[p].finished
      BY <1>2, <1>3, <1>7, <1>8, <1>9 DEF PullInv, Railed, on
    <2>3. PullInv(asks[p], "raised", r, record[p], on, s)
      BY <1>2, <1>3, <1>5, <2>2, <1>7
      DEF PullInv, PullTyped, Figures, Railed, Gated, AskStates, TaskStates, GateStates
    <2> HIDE DEF r
    <2> HIDE DEF c, m, g
    <2> QED BY <1>2, <1>3, <2>1, <2>3, PullMoves
  <1>10. CASE ~(sent[p].layer = 0 /\ OverHost(p, n))
    <2>1. gate' = [gate EXCEPT ![p] = g]
      BY <1>1, <1>10, PullStill DEF PullClose
    <2>2. /\ tasks' = [tasks EXCEPT ![p] = tasks[p]] /\ record' = [record EXCEPT ![p] = c]
          /\ rail' = (IF TRUE THEN rail \cup {p} ELSE rail \ {p})
      BY <1>1, <1>10, PullStill DEF Progressed, PartOf
    <2>3. layer = 1 \/ sent[p].layer > 0
      BY <1>1, <1>4, LayerIs DEF SentRecords
    <2>4. HostBudget > 0 /\ ~record[p].over => LayerSizes[1] <= HostBudget
      <3>1. CASE sent[p].layer = 0
        <4>1. layer = 1
          BY <2>3, <3>1
        <4>2. HostBudget \in Int
          BY SizesAssumption DEF HostBudget
        <4> HIDE DEF m, s, c, g, r
        <4> QED BY <1>6, <1>10, <3>1, <4>1, <4>2 DEF OverHost
      <3>2. CASE sent[p].layer # 0
        BY <1>3, <1>8, <3>2, <1>2 DEF PullInv, Railed
      <3> QED BY <3>1, <3>2
    <2>5. /\ c \in PullRecords /\ c.total = n /\ c.completed = m /\ c.saw = TRUE
          /\ c.finished = record[p].finished /\ c.over = record[p].over
      <3> HIDE DEF n, m
      <3> QED BY <1>4, <1>6 DEF PullRecords
    <2>6. ~record[p].finished
      BY <1>2, <1>3 DEF PullInv, Railed
    <2>7. c.total = LayerSizes[s.layer] /\ c.completed = PartOf(c.total, s.part)
      BY <1>5, <2>5
    <2> HIDE DEF c, s, n, m
    <2>8. Figures(c, TRUE, s)
      BY <1>5, <1>6, <2>5, <2>6, <2>7 DEF Figures
    <2>9. Railed(tasks[p], c, TRUE, s)
      BY <1>2, <2>4, <2>5, <2>6 DEF Railed
    <2>10. g = "sized" /\ g \in GateStates /\ (gate[p] # "open" => g = gate[p])
      BY <1>2, <1>3, <1>7, <1>8 DEF PullInv, PullTyped, Gated, GateStates
    <2> HIDE DEF g
    <2>11. Gated(asks[p], tasks[p], g, c, s)
      <3>1. asks[p] \in {"waiting", "sized"}
        BY <1>2, <1>3, <2>10 DEF PullInv, PullTyped, Gated, AskStates
      <3> QED BY <1>2, <2>5, <2>10, <3>1 DEF Gated
    <2>12. PullInv(asks[p], tasks[p], g, c, TRUE, s)
      BY <1>3, <1>5, <2>5, <2>8, <2>9, <2>10, <2>11 DEF PullInv, PullTyped
    <2> QED BY <1>2, <2>1, <2>2, <2>12, PullMoves
  <1> QED BY <1>9, <1>10

LEMMA FinishedKeeps ==
    ASSUME PInv, NEW p \in PullIds, Finished(p)
    PROVE  PInv'
  <1> DEFINE on == p \in rail
             q == record[p]
             e == [q EXCEPT !.finished = TRUE, !.error = TRUE]
             k == IF q.total = UnknownSize THEN q.completed ELSE q.total
             w == [q EXCEPT !.finished = TRUE, !.completed = k]
             c == IF tasks[p] # "returned" \/ StoppedShort(p) THEN e ELSE w
  <1>1. /\ asks' = [asks EXCEPT ![p] = asks[p]] /\ tasks' = [tasks EXCEPT ![p] = "gone"]
        /\ gate' = [gate EXCEPT ![p] = gate[p]] /\ sent' = [sent EXCEPT ![p] = sent[p]]
        /\ rail' = (IF on THEN rail \cup {p} ELSE rail \ {p})
    BY PullStill DEF Finished
  <1>2. record' = [record EXCEPT ![p] = c]
    BY PullStill DEF Finished
  <1>3. PullInv(asks[p], tasks[p], gate[p], q, on, sent[p]) /\ on \in BOOLEAN
    BY PullStill
  <1>4. q \in PullRecords /\ sent[p] \in SentRecords /\ tasks[p] \in {"raised", "returned", "cancelled"}
    BY <1>3 DEF PullInv, PullTyped, Finished
  <1>5. StoppedShort(p) <=> q.saw /\ q.total > 0 /\ q.completed * 100 < q.total * 99
    BY DEF StoppedShort
  <1> HIDE DEF q, on
  <1>6. /\ e \in PullRecords /\ e.total = q.total /\ e.completed = q.completed /\ e.saw = q.saw
        /\ e.finished = TRUE /\ e.error = TRUE /\ e.over = q.over
    BY <1>4 DEF PullRecords
  <1>7. /\ w \in PullRecords /\ w.total = q.total /\ w.saw = q.saw /\ w.finished = TRUE
        /\ w.error = q.error /\ w.over = q.over /\ w.completed = k
    <2>1. k \in 0 .. 100
      BY <1>4 DEF PullRecords, UnknownSize
    <2> HIDE DEF k
    <2> QED BY <1>4, <2>1 DEF PullRecords
  <1>8. q.finished = FALSE
    BY <1>3, <1>4 DEF PullInv, Railed, PullRecords
  <1>9. q.saw /\ ~StoppedShort(p) => sent[p].part = 100
    <2> SUFFICES ASSUME q.saw, ~StoppedShort(p) PROVE sent[p].part = 100
      OBVIOUS
    <2>1. /\ q.total = LayerSizes[sent[p].layer] /\ q.completed = PartOf(q.total, sent[p].part)
          /\ sent[p].layer > 0
      BY <1>3, <1>8 DEF PullInv, Figures
    <2>2. sent[p].layer \in DOMAIN LayerSizes /\ sent[p].part \in {0, 50, 100}
      BY <1>4, <2>1, SizesAssumption DEF SentRecords
    <2>3. q.total \in 1 .. 100 /\ q.completed \in 0 .. 100 /\ (q.completed * 100 >= q.total * 99 => sent[p].part = 100)
      <3>1. q.total \in 1 .. 100
        BY <2>1, <2>2, LayerIs
      <3>2. /\ PartOf(q.total, sent[p].part) \in 0 .. 100
            /\ PartOf(q.total, sent[p].part) * 100 >= q.total * 99 => sent[p].part = 100
        <4> DEFINE n == q.total
                   x == sent[p].part
        <4>1. n \in 1 .. 100 /\ x \in {0, 50, 100}
          BY <2>2, <3>1
        <4> HIDE DEF n, x
        <4>2. PartOf(n, x) \in 0 .. 100 /\ (PartOf(n, x) * 100 >= n * 99 => x = 100)
          BY <4>1, Arrived
        <4> QED BY <4>2 DEF n, x
      <3> QED BY <2>1, <3>1, <3>2
    <2>4. q.completed * 100 >= q.total * 99
      BY <1>5, <2>3
    <2> QED BY <2>3, <2>4
  <1> HIDE DEF e, w
  <1>10. Figures(c, on, sent[p])
    <2>1. CASE c = e
      BY <1>3, <1>6, <2>1 DEF PullInv, Figures
    <2>2. CASE c = w /\ ~StoppedShort(p)
      <3> HIDE DEF c
      <3> QED BY <1>3, <1>4, <1>7, <1>9, <2>2 DEF PullInv, Figures, Railed, PullRecords, UnknownSize
    <2> QED BY <2>1, <2>2
  <1>11. c \in PullRecords /\ c.saw = q.saw /\ c.finished = TRUE /\ c.over = q.over
    BY <1>6, <1>7
  <1> HIDE DEF c
  <1>12. Railed("gone", c, on, sent[p])
    BY <1>3, <1>11 DEF PullInv, Railed
  <1>13. Gated(asks[p], "gone", gate[p], c, sent[p])
    BY <1>3, <1>4, <1>11 DEF PullInv, Gated
  <1>14. PullInv(asks[p], "gone", gate[p], c, on, sent[p])
    BY <1>3, <1>10, <1>11, <1>12, <1>13 DEF PullInv, PullTyped, TaskStates
  <1> QED BY <1>1, <1>2, <1>3, <1>14, PullMoves

LEMMA PInit == PullsInit => PInv
  <1> SUFFICES ASSUME PullsInit PROVE PInv
    OBVIOUS
  <1>1. PullInv("idle", "none", "open", NoRecord, FALSE, Nothing)
    BY NothingIs DEF PullInv, PullTyped, Figures, Railed, Gated, AskStates, TaskStates, GateStates
  <1>2. ASSUME NEW p \in PullIds PROVE PullInv(asks[p], tasks[p], gate[p], record[p], p \in rail, sent[p])
    <2>1. /\ asks[p] = "idle" /\ tasks[p] = "none" /\ gate[p] = "open" /\ record[p] = NoRecord
          /\ (p \in rail) = FALSE /\ sent[p] = Nothing
      BY DEF PullsInit
    <2> QED BY <1>1, <2>1
  <1>3. /\ asks \in [PullIds -> AskStates] /\ tasks \in [PullIds -> TaskStates] /\ gate \in [PullIds -> GateStates]
        /\ record \in [PullIds -> PullRecords] /\ sent \in [PullIds -> SentRecords] /\ rail \subseteq PullIds
    <2> HIDE DEF NoRecord, Nothing
    <2> QED BY NothingIs DEF PullsInit, AskStates, TaskStates, GateStates
  <1> QED BY <1>2, <1>3 DEF PInv

LEMMA PStep == PInv /\ [PullsNext]_pullVars => PInv'
  <1> SUFFICES ASSUME PInv, [PullsNext]_pullVars PROVE PInv'
    OBVIOUS
  <1>1. ASSUME NEW p \in PullIds, PullStep(p) PROVE PInv'
    BY <1>1, FrameKeeps, UpstreamFailsKeeps, StreamEndsKeeps, RefreshedKeeps, FinishedKeeps,
       AnswerPullKeeps, GateTimeoutKeeps, SweepKeeps DEF PullStep
  <1>2. ASSUME NEW p \in PullIds, NEW over \in BOOLEAN, AskPull(p, over) PROVE PInv'
    BY <1>2, AskPullKeeps
  <1>3. CASE UNCHANGED pullVars
    BY <1>3 DEF pullVars, PInv
  <1> QED BY <1>1, <1>2, <1>3 DEF PullsNext

(* POST /api/providers/{id}/pull (internal_api.py) over                    *)
(* ProviderService.pull(), for any number of pulls and layers of any       *)
(* sizes: however the stream, the gate on its first size, the request's    *)
(* timeout and the sweep of the rail interleave, the caller is told what   *)
(* became of the download, a measured machine is not filled without leave, *)
(* and a download shown as whole had its last layer whole.                 *)
THEOREM PullsKeepTheirPromise == PullsSpec => []PullsPromise
  <1>1. PInv => PullsPromise
    <2> SUFFICES ASSUME PInv PROVE PullsPromise
      OBVIOUS
    <2>1. ASSUME NEW p \in PullIds
          PROVE  /\ record[p].completed \in 0 .. 100 /\ record[p].total \in {UnknownSize} \cup 1 .. 100
                 /\ record[p].total # UnknownSize => record[p].completed <= record[p].total
                 /\ p \in rail => tasks[p] # "none" /\ record[p].total # UnknownSize
      BY PullStill DEF PullInv, PullTyped, PullRecords, Figures, Railed, Gated
    <2>2. ASSUME NEW p \in PullIds
          PROVE  /\ asks[p] \in {"refused", "no_size"} => p \notin rail /\ tasks[p] \in {"raised", "cancelled", "gone"}
                 /\ asks[p] = "sized" /\ ~record[p].finished => p \in rail
                 /\ asks[p] = "present" => sent[p] = Nothing
      BY PullStill DEF PullInv, Railed, Gated
    <2>3. WithinHost
      BY PullStill DEF PInv, PullInv, Railed, WithinHost
    <2>4. WholeWhenDone
      BY PullStill DEF PInv, PullInv, Figures, WholeWhenDone
    <2> QED BY <2>1, <2>2, <2>3, <2>4 DEF PullsPromise, PullsTypeOK, AnswerMatches
  <1> QED BY <1>1, PInit, PStep, PTL DEF PullsSpec

----------------------------------------------------------------------------
(* Link measurements.                                                      *)

(* The figures of a probe.  Sums are recursive functions.                  *)
TotalIn(f, s) == f = [k \in 0 .. Len(s) |-> IF k = 0 THEN 0 ELSE f[k - 1] + s[k]]
TotalFcn(s) == CHOOSE f : TotalIn(f, s)

LEMMA TotalUnfolds == ASSUME NEW s PROVE Total(s) = TotalFcn(s)[Len(s)]
  BY DEF Total, TotalFcn, TotalIn

LEMMA TotalIs == ASSUME NEW s \in Seq(Nat) PROVE Total(s) \in Nat
  <1> DEFINE L == Len(s)
             G == [k \in 1 .. L |-> [v \in Nat |-> v + s[k]]]
             a == TotalFcn(s)
  <1>1. L \in Nat /\ \A k \in 1 .. L : s[k] \in Nat
    OBVIOUS
  <1>2. G \in [1 .. L -> [Nat -> Nat]]
    BY <1>1
  <1>3. PICK f : Follows(f, L, Nat, 0, G)
    <2> HIDE DEF L, G
    <2> QED BY <1>1, <1>2, RecursionHolds
  <1>4. \A k \in 1 .. L, v \in Nat : G[k][v] = v + s[k]
    OBVIOUS
  <1> HIDE DEF G
  <1>5. TotalIn(f, s)
    <2> HIDE DEF L
    <2>1. f \in [0 .. L -> Nat] /\ f[0] = 0 /\ \A k \in 1 .. L : f[k] = G[k][f[k - 1]]
      BY <1>3 DEF Follows
    <2>2. \A k \in 1 .. L : f[k - 1] \in Nat
      BY <1>1, <2>1
    <2>3. \A k \in 0 .. L : f[k] = IF k = 0 THEN 0 ELSE f[k - 1] + s[k]
      <3>1. \A k \in 0 .. L : k = 0 \/ (k # 0 /\ k \in 1 .. L)
        BY <1>1
      <3> QED BY <3>1, <1>4, <2>1, <2>2
    <2>4. f = [k \in 0 .. L |-> IF k = 0 THEN 0 ELSE f[k - 1] + s[k]]
      BY <2>1, <2>3
    <2> QED BY <2>4 DEF TotalIn, L
  <1>6. TotalIn(a, s)
    <2> HIDE DEF TotalIn
    <2> QED BY <1>5 DEF TotalFcn
  <1> HIDE DEF a
  <1>7. \A k \in 0 .. L : a[k] = IF k = 0 THEN 0 ELSE a[k - 1] + s[k]
    BY <1>6 DEF TotalIn
  <1> HIDE DEF L
  <1>8. a[0] \in Nat /\ \A k \in 1 .. L : a[k - 1] \in Nat => a[k] \in Nat
    <2>1. a[0] = 0
      BY <1>1, <1>7
    <2>2. \A k \in 1 .. L : a[k] = a[k - 1] + s[k]
      BY <1>1, <1>7
    <2> QED BY <1>1, <2>1, <2>2
  <1>9. a[L] \in Nat
    <2>1. \A k \in 0 .. L : a[k] \in Nat
      BY <1>1, <1>8, Along
    <2> QED BY <1>1, <2>1
  <1> QED BY <1>9, TotalUnfolds DEF a, L

LEMMA RowsAre ==
    ASSUME NEW rows \in Seq([size : Nat, bw : Nat, time : Nat \ {0}])
    PROVE  /\ DOMAIN rows = 1 .. Len(rows) /\ Len(rows) \in Nat
           /\ \A i \in DOMAIN rows : rows[i].size \in Nat /\ rows[i].bw \in Nat /\ rows[i].time \in Nat
  <1> DEFINE T == [size : Nat, bw : Nat, time : Nat \ {0}]
  <1>1. \A row \in T : row.size \in Nat /\ row.bw \in Nat /\ row.time \in Nat
    OBVIOUS
  <1>2. rows \in Seq(T)
    OBVIOUS
  <1> HIDE DEF T
  <1>3. DOMAIN rows = 1 .. Len(rows) /\ Len(rows) \in Nat /\ \A i \in DOMAIN rows : rows[i] \in T
    BY <1>2
  <1> QED BY <1>1, <1>3

LEMMA BandwidthIs == ASSUME NEW sweep, SweepOK(sweep) PROVE BandwidthGbps(sweep) \in Nat
  <1> DEFINE rows == sweep.rows
             big == {i \in DOMAIN rows : rows[i].size >= BwFloor}
             s == [i \in DOMAIN rows |-> IF i \in big THEN rows[i].bw ELSE 0]
  <1>1. sweep.average \in Nat /\ rows \in Seq([size : Nat, bw : Nat, time : Nat \ {0}])
    BY DEF SweepOK
  <1>2. BandwidthGbps(sweep) = IF big = {} THEN sweep.average ELSE Total(s) \div Cardinality(big)
    BY DEF BandwidthGbps
  <1> HIDE DEF rows
  <1>3. DOMAIN rows = 1 .. Len(rows) /\ Len(rows) \in Nat /\ \A i \in DOMAIN rows : rows[i].bw \in Nat
    BY <1>1, RowsAre
  <1>4. s \in Seq(Nat)
    <2>1. s \in [1 .. Len(rows) -> Nat]
      BY <1>3
    <2> HIDE DEF s
    <2> QED BY <2>1, <1>3
  <1>5. Total(s) \in Nat
    <2> HIDE DEF s
    <2> QED BY <1>4, TotalIs
  <1>6. big # {} => Cardinality(big) \in Nat \ {0}
    <2>a. Len(rows) \in Int /\ 1 \in Int
      BY <1>3
    <2>b. IsFiniteSet(1 .. Len(rows))
      BY ONLY <2>a, FS_Interval
    <2>c. big \subseteq 1 .. Len(rows)
      BY <1>3
    <2>1. IsFiniteSet(1 .. Len(rows)) /\ big \subseteq 1 .. Len(rows)
      BY <2>b, <2>c
    <2> HIDE DEF big
    <2>2. IsFiniteSet(big)
      BY <2>1, FS_Subset
    <2> QED BY <2>2, FS_CardinalityType, FS_EmptySet
  <1> DEFINE t == Total(s)  n == Cardinality(big)
  <1>7. big # {} => t \div n \in Nat
    <2> HIDE DEF t, n, big
    <2>1. t \in Nat
      BY <1>5 DEF t
    <2>2. big # {} => n \in Nat \ {0}
      BY <1>6 DEF n
    <2> QED BY <2>1, <2>2
  <1> HIDE DEF s, big
  <1> QED BY <1>1, <1>2, <1>7

LEMMA LatencyIs == ASSUME NEW sweep, SweepOK(sweep) PROVE LatencyUs(sweep) \in Nat
  <1> DEFINE rows == sweep.rows
             R == Range(rows)
             Sizes == {row.size : row \in R}
             Least(row) == \A other \in R : row.size <= other.size
  <1>1. rows \in Seq([size : Nat, bw : Nat, time : Nat \ {0}])
    BY DEF SweepOK
  <1>2. LatencyUs(sweep) = IF rows = <<>> THEN 0 ELSE (CHOOSE row \in R : Least(row)).time
    BY DEF LatencyUs
  <1> HIDE DEF rows
  <1>3. \A row \in R : row.size \in Nat /\ row.time \in Nat
    BY <1>1, RowsAre DEF Range
  <1>4. rows # <<>> => R # {}
    <2>1. rows # <<>> => 1 \in DOMAIN rows
      BY <1>1
    <2> QED BY <2>1 DEF Range
  <1> HIDE DEF R
  <1>5. ASSUME rows # <<>> PROVE \E row \in R : Least(row)
    <2>1. Sizes \subseteq Nat /\ Sizes # {}
      BY <1>3, <1>4, <1>5
    <2> DEFINE m == Min(Sizes)
    <2>2. m \in Sizes /\ \A y \in Sizes : m <= y
      <3> HIDE DEF Sizes
      <3> QED BY <2>1, LeastOfNaturals
    <2> HIDE DEF m
    <2>3. PICK row \in R : row.size = m
      BY <2>2
    <2>4. \A other \in R : row.size <= other.size
      BY <2>2, <2>3
    <2> QED BY <2>4
  <1> HIDE DEF Least
  <1>6. rows # <<>> => (CHOOSE row \in R : Least(row)) \in R
    BY <1>5
  <1> QED BY <1>2, <1>3, <1>6

LEMMA IbIs == ASSUME NEW o \in Outcomes PROVE ParseIbWriteBw(o.ib) \in Nat
  <1> DEFINE A == o.ib.averages  m == Max(A)
  <1>1. A \subseteq Nat /\ IsFiniteSet(A)
    BY OutcomesAssumption DEF OutcomeOK
  <1>2. A # {} => m \in Nat
    <2> HIDE DEF A
    <2>1. A # {} => Max(A) \in A
      BY <1>1, GreatestOfFinite
    <2> QED BY <1>1, <2>1
  <1>3. ASSUME NEW v \in Nat, NEW unit PROVE ToGbps(v, unit) \in Nat
    <2>1. (v * 1000) \div 8 \in Nat /\ (v * 1048576) \div 1000000 \in Nat /\ v * 1000 \in Nat
      OBVIOUS
    <2> QED BY <2>1 DEF ToGbps
  <1>4. ParseIbWriteBw(o.ib) = IF A = {} THEN 0 ELSE ToGbps(m, o.ib.unit)
    BY DEF ParseIbWriteBw
  <1> HIDE DEF m, A
  <1> QED BY <1>2, <1>3, <1>4

LEMMA RttIs == ASSUME NEW o \in Outcomes PROVE TcpRttUs(o.connects) \in Nat
  <1> DEFINE A == o.connects
  <1>1. A \subseteq Nat
    BY OutcomesAssumption DEF OutcomeOK
  <1> HIDE DEF A
  <1>2. A # {} => Min(A) \in A
    BY <1>1, LeastOfNaturals
  <1>3. TcpRttUs(A) \in Nat
    BY <1>1, <1>2 DEF TcpRttUs
  <1> QED BY <1>3 DEF A

LEMMA ThroughputIs == ASSUME NEW a, NEW o \in Outcomes PROVE TcpThroughput(a, o) \in Nat
  <1> DEFINE i == o.iperf  r == o.sink.received  e == o.sink.elapsed
  <1>1. i.received \in Nat /\ i.sent \in Nat /\ r \in Nat /\ e \in Nat
    BY OutcomesAssumption DEF OutcomeOK
  <1>2. ParseIperf3(i) \in Nat
    BY <1>1 DEF ParseIperf3
  <1>3. TcpThroughputGbps(o.sink) \in Nat
    <2> HIDE DEF r, e
    <2>1. e > 0 => r \div e \in Nat
      BY <1>1
    <2>2. TcpThroughputGbps(o.sink) = IF e <= 0 \/ r <= 0 THEN 0 ELSE r \div e
      BY DEF TcpThroughputGbps, r, e
    <2> QED BY <1>1, <2>1, <2>2
  <1> DEFINE p == ParseIperf3(i)  t == TcpThroughputGbps(o.sink)
  <1>4. TcpThroughput(a, o) \in {0, p, t}
    BY DEF TcpThroughput
  <1> HIDE DEF p, t
  <1> QED BY <1>2, <1>3, <1>4 DEF p, t

LEMMA IbLatencyIs == ASSUME NEW a, NEW o \in Outcomes PROVE IbLatency(a, o) \in Nat
  <1>1. o.ibLatency \in Nat
    BY OutcomesAssumption DEF OutcomeOK
  <1>2. TcpRttUs(o.connects) \in Nat
    BY RttIs
  <1>3. IbLatency(a, o) \in {0, o.ibLatency, TcpRttUs(o.connects)}
    BY DEF IbLatency
  <1> QED BY <1>1, <1>2, <1>3

(* What is known of a figure that a rung of the ladder reports.            *)
FigureOK(f) ==
    /\ DOMAIN f = DOMAIN Unmeasured
    /\ f.method \in {"nccl", "ib_write_bw", "tcp"}
    /\ f.gbps \in Nat \ {0} /\ f.latency \in Nat \ {0}
    /\ ~f.estimated => f.method = "nccl" /\ f.raw = 0

LEMMA FigureIs ==
    ASSUME NEW method, NEW a, NEW b, NEW o, NEW gbps, NEW sendrecv, NEW latency
    PROVE  LET f == Figure(method, a, b, o, gbps, sendrecv, latency)
           IN  /\ DOMAIN f = DOMAIN Unmeasured
               /\ f.method = method /\ f.gbps = gbps /\ f.latency = latency /\ f.raw = 0
  <1> DEFINE p == PortsFor(a, b, o)  s == SeenOn(a, b, o)
  <1> HIDE DEF p, s
  <1> QED BY DEF Figure, Unmeasured

LEMMA NcclIs ==
    ASSUME NEW a, NEW b, NEW o \in Outcomes, NcclMeasure(a, b, o) # Unmeasured
    PROVE  FigureOK(NcclMeasure(a, b, o))
  <1> DEFINE all == BandwidthGbps(o.allReduce)
             handoff == BandwidthGbps(o.sendRecv)
             l1 == LatencyUs(o.allReduce)
             l2 == LatencyUs(o.sendRecv)
             latency == IF l1 # 0 THEN l1 ELSE l2
             g == Figure("nccl", a, b, o, all, handoff, latency)
             f == [g EXCEPT !.gdr = DetectGdr(o.transport)]
  <1>1. SweepOK(o.allReduce) /\ SweepOK(o.sendRecv)
    BY OutcomesAssumption DEF OutcomeOK
  <1>2. all \in Nat /\ l1 \in Nat /\ l2 \in Nat
    BY <1>1, BandwidthIs, LatencyIs
  <1>3. 0 \notin {all, handoff, latency} /\ NcclMeasure(a, b, o) = f
    BY DEF NcclMeasure
  <1> HIDE DEF all, handoff, l1, l2
  <1>4. all \in Nat \ {0} /\ latency \in Nat \ {0}
    BY <1>2, <1>3
  <1> HIDE DEF latency
  <1>5. /\ DOMAIN g = DOMAIN Unmeasured
        /\ g.method = "nccl" /\ g.gbps = all /\ g.latency = latency /\ g.raw = 0
    BY FigureIs
  <1> HIDE DEF g
  <1>6. /\ DOMAIN f = DOMAIN Unmeasured
        /\ f.method = "nccl" /\ f.gbps = all /\ f.latency = latency /\ f.raw = 0
    BY <1>5 DEF Unmeasured
  <1> HIDE DEF f
  <1> QED BY <1>3, <1>4, <1>6 DEF FigureOK

(* The two rungs that estimate.                                            *)
Estimate(method, a, b, o, gbps, latency, raw) ==
    [Figure(method, a, b, o, gbps, gbps, latency) EXCEPT !.estimated = TRUE, !.raw = raw]

LEMMA EstimateIs ==
    ASSUME NEW method \in {"ib_write_bw", "tcp"}, NEW a, NEW b, NEW o, NEW gbps \in Nat \ {0},
           NEW latency \in Nat \ {0}, NEW raw
    PROVE  FigureOK(Estimate(method, a, b, o, gbps, latency, raw))
  <1> DEFINE g == Figure(method, a, b, o, gbps, gbps, latency)
             f == [g EXCEPT !.estimated = TRUE, !.raw = raw]
  <1>1. DOMAIN g = DOMAIN Unmeasured /\ g.method = method /\ g.gbps = gbps /\ g.latency = latency
    BY FigureIs
  <1> HIDE DEF g
  <1>2. /\ DOMAIN f = DOMAIN Unmeasured /\ f.method = method /\ f.gbps = gbps /\ f.latency = latency
        /\ f.estimated = TRUE
    BY <1>1 DEF Unmeasured
  <1> HIDE DEF f
  <1>3. FigureOK(f)
    BY <1>2 DEF FigureOK
  <1> QED BY <1>3 DEF f, g, Estimate

LEMMA IbMeasureIs ==
    ASSUME NEW a, NEW b, NEW o \in Outcomes, IbMeasure(a, b, o) # Unmeasured
    PROVE  FigureOK(IbMeasure(a, b, o))
  <1> DEFINE raw == ParseIbWriteBw(o.ib)  l == IbLatency(a, o)  s == Scaled(raw)
  <1>1. raw \in Nat /\ l \in Nat
    BY IbIs, IbLatencyIs
  <1>2. /\ raw # 0 /\ l # 0
        /\ IbMeasure(a, b, o) = Estimate("ib_write_bw", a, b, o, s, l, raw)
    BY DEF IbMeasure, Estimate
  <1>3. s \in Nat \ {0}
    <2> HIDE DEF raw
    <2> QED BY <1>1, <1>2 DEF Scaled
  <1> HIDE DEF raw, l, s
  <1>4. l \in Nat \ {0}
    BY <1>1, <1>2
  <1> QED BY <1>2, <1>3, <1>4, EstimateIs

LEMMA TcpMeasureIs ==
    ASSUME NEW a, NEW b, NEW o \in Outcomes, TcpMeasure(a, b, o) # Unmeasured
    PROVE  FigureOK(TcpMeasure(a, b, o))
  <1> DEFINE raw == TcpThroughput(a, o)
             l == IF a # LocalNode THEN 0 ELSE TcpRttUs(o.connects)
  <1>1. raw \in Nat /\ l \in Nat
    BY ThroughputIs, RttIs
  <1>2. /\ raw # 0 /\ l # 0
        /\ TcpMeasure(a, b, o) = Estimate("tcp", a, b, o, raw, l, raw)
    BY DEF TcpMeasure, Estimate
  <1> HIDE DEF raw, l
  <1>3. raw \in Nat \ {0} /\ l \in Nat \ {0}
    BY <1>1, <1>2
  <1> QED BY <1>2, <1>3, EstimateIs

LEMMA LadderIs ==
    ASSUME NEW a, NEW b, NEW o \in Outcomes, Ladder(a, b, o) # Unmeasured
    PROVE  FigureOK(Ladder(a, b, o))
  <1> DEFINE found == {i \in 1 .. 3 : RungMeasure(Rungs[i], a, b, o).method # "none"}
  <1>1. found # {} /\ Ladder(a, b, o) = RungMeasure(Rungs[Min(found)], a, b, o)
    BY DEF Ladder
  <1> DEFINE rung == Rungs[Min(found)]
  <1>2. RungMeasure(rung, a, b, o) # Unmeasured
    BY <1>1
  <1> HIDE DEF rung
  <1>3. RungMeasure(rung, a, b, o) \in {NcclMeasure(a, b, o), IbMeasure(a, b, o), TcpMeasure(a, b, o)}
    BY <1>2 DEF RungMeasure
  <1>4. FigureOK(RungMeasure(rung, a, b, o))
    <2> DEFINE x == NcclMeasure(a, b, o)  y == IbMeasure(a, b, o)  z == TcpMeasure(a, b, o)
               f == RungMeasure(rung, a, b, o)
    <2>1. f \in {x, y, z} /\ f # Unmeasured
      BY <1>2, <1>3
    <2>2. (x # Unmeasured => FigureOK(x)) /\ (y # Unmeasured => FigureOK(y)) /\ (z # Unmeasured => FigureOK(z))
      BY NcclIs, IbMeasureIs, TcpMeasureIs
    <2> HIDE DEF x, y, z, f
    <2>3. FigureOK(f)
      BY <2>1, <2>2
    <2> QED BY <2>3 DEF f
  <1> QED BY <1>1, <1>4 DEF rung

----------------------------------------------------------------------------
(* What measure_all() goes through: pairs of different nodes.              *)
Ends == {t \in LinkNodes \X LinkNodes : t[1] # t[2]}
Later(order, i) == [k \in 1 .. Len(order) - i |-> <<order[i], order[i + k]>>]
PairsIn(f, order) == f = [i \in 0 .. Len(order) |-> IF i = 0 THEN <<>> ELSE f[i - 1] \o Later(order, i)]
PairsFcn(order) == CHOOSE f : PairsIn(f, order)

LEMMA EveryPairUnfolds == ASSUME NEW order PROVE EveryPair(order) = PairsFcn(order)[Len(order)]
  BY DEF EveryPair, PairsFcn, PairsIn, Later

LEMMA EveryPairIs ==
    ASSUME NEW order \in Seq(LinkNodes), IsInjective(order)
    PROVE  EveryPair(order) \in Seq(Ends)
  <1> DEFINE L == Len(order)
             V == Seq(Ends)
             G == [i \in 1 .. L |-> [v \in V |-> v \o Later(order, i)]]
             a == PairsFcn(order)
  <1>1. L \in Nat /\ <<>> \in V
    OBVIOUS
  <1>2. ASSUME NEW i \in 1 .. L PROVE Later(order, i) \in V
    <2>1. L - i \in Nat
      OBVIOUS
    <2>2. ASSUME NEW k \in 1 .. L - i PROVE <<order[i], order[i + k]>> \in Ends
      <3>1. i \in DOMAIN order /\ i + k \in DOMAIN order /\ i # i + k
        OBVIOUS
      <3>2. order[i] \in LinkNodes /\ order[i + k] \in LinkNodes /\ order[i] # order[i + k]
        BY <3>1 DEF IsInjective
      <3> QED BY <3>2 DEF Ends
    <2>3. Later(order, i) \in [1 .. L - i -> Ends]
      BY <2>2 DEF Later
    <2> QED BY <2>1, <2>3
  <1>3. G \in [1 .. L -> [V -> V]]
    <2>1. \A i \in 1 .. L, v \in V : v \o Later(order, i) \in V
      BY <1>2
    <2> HIDE DEF V, L
    <2> QED BY <2>1
  <1>4. PICK f : Follows(f, L, V, <<>>, G)
    <2> HIDE DEF L, V, G
    <2> QED BY <1>1, <1>3, RecursionHolds
  <1>5. \A i \in 1 .. L, v \in V : G[i][v] = v \o Later(order, i)
    OBVIOUS
  <1> HIDE DEF G
  <1>6. PairsIn(f, order)
    <2> HIDE DEF L, V
    <2>1. f \in [0 .. L -> V] /\ f[0] = <<>> /\ \A k \in 1 .. L : f[k] = G[k][f[k - 1]]
      BY <1>4 DEF Follows
    <2>2. \A k \in 1 .. L : f[k - 1] \in V
      BY <1>1, <2>1
    <2>3. \A k \in 0 .. L : f[k] = IF k = 0 THEN <<>> ELSE f[k - 1] \o Later(order, k)
      <3>1. \A k \in 0 .. L : k = 0 \/ (k # 0 /\ k \in 1 .. L)
        BY <1>1
      <3> QED BY <3>1, <1>5, <2>1, <2>2
    <2>4. f = [k \in 0 .. L |-> IF k = 0 THEN <<>> ELSE f[k - 1] \o Later(order, k)]
      BY <2>1, <2>3
    <2> QED BY <2>4 DEF PairsIn, L
  <1>7. PairsIn(a, order)
    <2> HIDE DEF PairsIn
    <2> QED BY <1>6 DEF PairsFcn
  <1> HIDE DEF a
  <1>8. \A k \in 0 .. L : a[k] = IF k = 0 THEN <<>> ELSE a[k - 1] \o Later(order, k)
    BY <1>7 DEF PairsIn
  <1> HIDE DEF L
  <1>9. a[0] \in V /\ \A k \in 1 .. L : a[k - 1] \in V => a[k] \in V
    <2>1. a[0] = <<>>
      BY <1>1, <1>8
    <2>2. ASSUME NEW k \in 1 .. L, a[k - 1] \in V PROVE a[k] \in V
      <3>1. k \in 0 .. L /\ k # 0
        BY <1>1
      <3>2. a[k] = a[k - 1] \o Later(order, k)
        BY <1>8, <3>1
      <3>3. Later(order, k) \in V
        BY <1>2
      <3> QED BY <2>2, <3>2, <3>3
    <2> QED BY <1>1, <2>1, <2>2
  <1>10. a[L] \in V
    <2> HIDE DEF V
    <2>1. \A k \in 0 .. L : a[k] \in V
      BY <1>1, <1>9, Along
    <2> QED BY <1>1, <2>1
  <1> QED BY <1>10, EveryPairUnfolds DEF a, L

----------------------------------------------------------------------------
(* The inductive invariant of the link service: what is said of the links  *)
(* in memory is said of the file as well, since a restart reads it; a call *)
(* has only pairs of different nodes before it.                            *)

LinkOK(l) ==
    /\ l.method \in {"none", "nccl", "ib_write_bw", "tcp", "manual"}
    /\ l.alone = TRUE
    /\ l # Unmeasured => /\ l.gbps \in Nat \ {0} /\ l.latency \in Nat \ {0}
                         /\ ~l.estimated => l.method = "nccl" /\ l.raw = 0

Tabled(f) == f = [p \in Pairs |-> f[p]] /\ \A p \in Pairs : LinkOK(f[p])

ProbeOK(q) ==
    /\ DOMAIN q = DOMAIN Resting
    /\ q.stage \in {"idle", "asked", "queued", "probing"}
    /\ q.todo \in Seq(Ends) /\ q.alone = TRUE
    /\ q.stage \in {"queued", "probing"} => PairKey(q.from, q.to) \in Pairs

AtWork(q, p) == q.stage \in {"queued", "probing"} /\ PairKey(q.from, q.to) = p

LinkBooks == Tabled(links) /\ Tabled(linkFile) /\ unsaved \in BOOLEAN /\ (~unsaved => linkFile = links)
ProbeBooks ==
    /\ DOMAIN probes = LinkCallers /\ \A c \in LinkCallers : ProbeOK(probes[c])
    /\ inflight \subseteq Pairs
    /\ \A p \in inflight : \E c \in LinkCallers : AtWork(probes[c], p)

NInv == LinkBooks /\ ProbeBooks

LEMMA UnmeasuredIs == LinkOK(Unmeasured)
  BY DEF LinkOK, Unmeasured

LEMMA StoredKeeps ==
    ASSUME LinkBooks, NEW p \in Pairs, NEW link, LinkOK(link), NEW ok \in BOOLEAN, Stored(p, link, ok)
    PROVE  LinkBooks'
  <1>1. Tabled(links')
    <2>1. links' = [links EXCEPT ![p] = link] /\ Tabled(links)
      BY DEF Stored, LinkBooks
    <2>2. DOMAIN links = Pairs
      BY <2>1 DEF Tabled
    <2>3. links' = [q \in Pairs |-> IF q = p THEN link ELSE links[q]]
      BY <2>1, <2>2
    <2>4. \A q \in Pairs : LinkOK(links'[q])
      <3> HIDE DEF LinkOK
      <3> QED BY <2>1, <2>3 DEF Tabled
    <2>5. links' = [q \in Pairs |-> links'[q]]
      BY <2>3
    <2> QED BY <2>4, <2>5 DEF Tabled
  <1>2. Tabled(linkFile') /\ unsaved' = ~ok /\ (ok => linkFile' = links')
    <2> HIDE DEF Tabled
    <2> QED BY <1>1 DEF Stored, LinkBooks
  <1> HIDE DEF Tabled
  <1> QED BY <1>1, <1>2 DEF LinkBooks

(* A call moves and announces at most the pair it is at work on.           *)
LEMMA CallerMoves ==
    ASSUME ProbeBooks, NEW c \in LinkCallers, NEW q, ProbeOK(q), probes' = [probes EXCEPT ![c] = q],
           inflight' \subseteq Pairs,
           \A p \in inflight' : AtWork(q, p) \/ (p \in inflight /\ ~AtWork(probes[c], p))
    PROVE  ProbeBooks'
  <1>1. DOMAIN probes' = LinkCallers /\ \A d \in LinkCallers : probes'[d] = IF d = c THEN q ELSE probes[d]
    BY DEF ProbeBooks
  <1>2. \A d \in LinkCallers : ProbeOK(probes'[d])
    <2> HIDE DEF ProbeOK
    <2> QED BY <1>1 DEF ProbeBooks
  <1>3. ASSUME NEW p \in inflight' PROVE \E d \in LinkCallers : AtWork(probes'[d], p)
    <2> HIDE DEF AtWork
    <2>1. CASE AtWork(q, p)
      BY <1>1, <2>1
    <2>2. CASE p \in inflight /\ ~AtWork(probes[c], p)
      <3>1. PICK d \in LinkCallers : AtWork(probes[d], p)
        BY <2>2 DEF ProbeBooks
      <3> QED BY <1>1, <2>2, <3>1
    <2> QED BY <2>1, <2>2
  <1> HIDE DEF ProbeOK, AtWork
  <1> QED BY <1>1, <1>2, <1>3 DEF ProbeBooks

LEMMA RestingIs == ProbeOK(Resting) /\ \A p : ~AtWork(Resting, p)
  BY DEF ProbeOK, AtWork, Resting

LEMMA PutByHandKeeps ==
    ASSUME NInv, NEW p \in Pairs, NEW gbps \in HandFigures, NEW ok \in BOOLEAN, PutByHand(p, gbps, ok)
    PROVE  NInv'
  <1> DEFINE l == [Unmeasured EXCEPT !.method = "manual", !.gbps = gbps, !.sendrecv = gbps, !.latency = 1,
                                     !.estimated = TRUE]
  <1>1. Stored(p, l, ok) /\ UNCHANGED <<inflight, probes>>
    BY DEF PutByHand
  <1>2. gbps \in Nat \ {0}
    BY LinksAssumption
  <1>3. LinkOK(l)
    BY <1>2 DEF LinkOK, Unmeasured
  <1> HIDE DEF l, LinkOK
  <1>4. LinkBooks'
    BY <1>1, <1>3, StoredKeeps DEF NInv
  <1>5. ProbeBooks'
    BY <1>1 DEF NInv, ProbeBooks
  <1> QED BY <1>4, <1>5 DEF NInv

LEMMA LinkForgetKeeps ==
    ASSUME NInv, NEW p \in Pairs, NEW ok \in BOOLEAN, Forget(p, ok)
    PROVE  NInv'
  <1>1. Stored(p, Unmeasured, ok) /\ UNCHANGED <<inflight, probes>>
    BY DEF Forget
  <1>2. LinkBooks'
    BY <1>1, UnmeasuredIs, StoredKeeps DEF NInv
  <1>3. ProbeBooks'
    BY <1>1 DEF NInv, ProbeBooks
  <1> QED BY <1>2, <1>3 DEF NInv

LEMMA AskMeasureKeeps ==
    ASSUME NInv, NEW c \in LinkCallers, NEW list \in Seq(Ends), AskMeasure(c, list)
    PROVE  NInv'
  <1> DEFINE q == [Resting EXCEPT !.stage = "asked", !.todo = list]
  <1>1. /\ probes[c] = Resting /\ probes' = [probes EXCEPT ![c] = q]
        /\ UNCHANGED <<links, linkFile, unsaved, inflight>>
    BY DEF AskMeasure
  <1>2. ProbeOK(q)
    BY DEF ProbeOK, Resting
  <1> HIDE DEF q, ProbeOK
  <1>3. \A p \in inflight' : p \in inflight /\ ~AtWork(probes[c], p)
    BY <1>1, RestingIs
  <1>4. inflight' \subseteq Pairs
    BY <1>1 DEF NInv, ProbeBooks
  <1>5. ProbeBooks'
    <2> HIDE DEF AtWork
    <2> QED BY <1>1, <1>2, <1>3, <1>4, CallerMoves DEF NInv
  <1>6. LinkBooks'
    BY <1>1 DEF NInv, LinkBooks
  <1> QED BY <1>5, <1>6 DEF NInv

LEMMA AnnounceKeeps == ASSUME NInv, NEW c \in LinkCallers, Announce(c) PROVE NInv'
  <1> DEFINE todo == probes[c].todo
             next == Head(todo)
             pair == PairKey(next[1], next[2])
             q == [Resting EXCEPT !.stage = "queued", !.todo = Tail(todo), !.from = next[1], !.to = next[2]]
  <1>1. /\ probes[c].stage = "asked" /\ todo # <<>> /\ probes' = [probes EXCEPT ![c] = q]
        /\ inflight' = inflight \cup {pair} /\ UNCHANGED <<links, linkFile, unsaved>>
    BY DEF Announce
  <1>2. todo \in Seq(Ends)
    BY DEF NInv, ProbeBooks, ProbeOK
  <1> HIDE DEF todo
  <1>3. next \in Ends /\ Tail(todo) \in Seq(Ends)
    BY <1>1, <1>2
  <1>4. pair \in Pairs
    <2> HIDE DEF next
    <2> QED BY <1>3 DEF Ends, Pairs, PairKey
  <1> HIDE DEF next
  <1>5. q.stage = "queued" /\ q.from = next[1] /\ q.to = next[2] /\ q.todo = Tail(todo) /\ q.alone = TRUE
        /\ DOMAIN q = DOMAIN Resting
    BY DEF Resting
  <1> HIDE DEF q
  <1>6. ProbeOK(q) /\ AtWork(q, pair)
    BY <1>3, <1>4, <1>5 DEF ProbeOK, AtWork
  <1>7. \A p : ~AtWork(probes[c], p)
    BY <1>1 DEF AtWork
  <1>8. inflight' \subseteq Pairs
    BY <1>1, <1>4 DEF NInv, ProbeBooks
  <1>9. ProbeBooks'
    <2> HIDE DEF AtWork, ProbeOK, pair
    <2>1. \A p \in inflight' : AtWork(q, p) \/ (p \in inflight /\ ~AtWork(probes[c], p))
      BY <1>1, <1>6, <1>7
    <2> QED BY <1>1, <1>6, <1>8, <2>1, CallerMoves DEF NInv
  <1>10. LinkBooks'
    BY <1>1 DEF NInv, LinkBooks
  <1> QED BY <1>9, <1>10 DEF NInv

(* Nobody else holds the lock: the probe that begins is alone.             *)
LEMMA TakeLockKeeps == ASSUME NInv, NEW c \in LinkCallers, TakeLock(c) PROVE NInv'
  <1> DEFINE q == [probes[c] EXCEPT !.stage = "probing", !.alone = TRUE]
  <1>1. /\ probes[c].stage = "queued" /\ UNCHANGED <<links, linkFile, unsaved, inflight>>
        /\ probes' = [d \in LinkCallers |-> IF d = c THEN q ELSE probes[d]]
    BY DEF TakeLock
  <1>2. probes' = [probes EXCEPT ![c] = q]
    <2> HIDE DEF q
    <2> QED BY <1>1 DEF NInv, ProbeBooks
  <1>3. ProbeOK(probes[c])
    BY DEF NInv, ProbeBooks
  <1>4. /\ DOMAIN q = DOMAIN Resting /\ q.stage = "probing" /\ q.alone = TRUE
        /\ q.todo = probes[c].todo /\ q.from = probes[c].from /\ q.to = probes[c].to
    BY <1>3 DEF ProbeOK, Resting
  <1> HIDE DEF q
  <1>5. ProbeOK(q)
    BY <1>1, <1>3, <1>4 DEF ProbeOK
  <1>6. \A p : AtWork(probes[c], p) => AtWork(q, p)
    BY <1>4 DEF AtWork
  <1>7. ProbeBooks'
    <2> HIDE DEF AtWork, ProbeOK
    <2>1. inflight' \subseteq Pairs
      BY <1>1 DEF NInv, ProbeBooks
    <2>2. \A p \in inflight' : AtWork(q, p) \/ (p \in inflight /\ ~AtWork(probes[c], p))
      BY <1>1, <1>6
    <2> QED BY <1>2, <1>5, <2>1, <2>2, CallerMoves DEF NInv
  <1>8. LinkBooks'
    BY <1>1 DEF NInv, LinkBooks
  <1> QED BY <1>7, <1>8 DEF NInv

LEMMA ProbedKeeps ==
    ASSUME NInv, NEW c \in LinkCallers, NEW o \in Outcomes, NEW ok \in BOOLEAN, Probed(c, o, ok)
    PROVE  NInv'
  <1> DEFINE w == probes[c]
             p == PairKey(w.from, w.to)
             found == Ladder(w.from, w.to, o)
             l == [found EXCEPT !.alone = w.alone]
             q == IF w.todo = <<>> THEN Resting ELSE [Resting EXCEPT !.stage = "asked", !.todo = w.todo]
  <1>0. probes' = [probes EXCEPT ![c] = q]
    BY DEF Probed, NInv, ProbeBooks
  <1>1. /\ w.stage = "probing"
        /\ IF found = Unmeasured THEN UNCHANGED <<links, linkFile, unsaved>> ELSE Stored(p, l, ok)
        /\ inflight' = inflight \ {p}
    BY DEF Probed, Withdrawn
  <1>2. ProbeOK(w)
    BY DEF NInv, ProbeBooks
  <1> HIDE DEF w
  <1>3. p \in Pairs /\ w.alone = TRUE /\ w.todo \in Seq(Ends)
    BY <1>1, <1>2 DEF ProbeOK
  <1>4. LinkBooks'
    <2>1. CASE found = Unmeasured
      BY <1>1, <2>1 DEF NInv, LinkBooks
    <2>2. CASE found # Unmeasured
      <3>1. FigureOK(found)
        BY <2>2, LadderIs
      <3> HIDE DEF found
      <3>2. /\ l.method = found.method /\ l.gbps = found.gbps /\ l.latency = found.latency
            /\ l.estimated = found.estimated /\ l.raw = found.raw /\ l.alone = TRUE
        BY <1>3, <3>1 DEF FigureOK, Unmeasured
      <3> HIDE DEF l
      <3>3. LinkOK(l)
        BY <3>1, <3>2 DEF FigureOK, LinkOK
      <3> HIDE DEF LinkOK, p
      <3> QED BY <1>1, <1>3, <2>2, <3>3, StoredKeeps DEF NInv
    <2> QED BY <2>1, <2>2
  <1>5. ProbeBooks'
    <2>1. ProbeOK(q)
      BY <1>3 DEF ProbeOK, Resting
    <2>2. AtWork(w, p) /\ \A r : AtWork(w, r) => r = p
      BY <1>1 DEF AtWork
    <2> HIDE DEF q, AtWork, ProbeOK, p
    <2>3. \A r \in inflight' : r \in inflight /\ ~AtWork(w, r)
      BY <1>1, <2>2
    <2>4. inflight' \subseteq Pairs
      BY <1>1 DEF NInv, ProbeBooks
    <2>5. \A r \in inflight' : AtWork(q, r) \/ (r \in inflight /\ ~AtWork(probes[c], r))
      BY <2>3 DEF w
    <2> QED BY <1>0, <2>1, <2>4, <2>5, CallerMoves DEF NInv
  <1> QED BY <1>4, <1>5 DEF NInv

LEMMA RestartLinksKeeps == ASSUME NInv, NEW readable \in BOOLEAN, RestartLinks(readable) PROVE NInv'
  <1>1. ProbeBooks'
    <2>1. probes' = [c \in LinkCallers |-> Resting] /\ inflight' = {}
      BY DEF RestartLinks
    <2> HIDE DEF ProbeOK
    <2> QED BY <2>1, RestingIs DEF ProbeBooks
  <1>2. LinkBooks'
    <2>1. Tabled(linkFile) /\ linkFile' = linkFile /\ unsaved' = ~readable
      BY DEF NInv, LinkBooks, RestartLinks
    <2>2. CASE readable
      <3>1. links' = linkFile
        BY <2>1, <2>2 DEF RestartLinks, FromJson, Tabled
      <3> HIDE DEF Tabled
      <3> QED BY <2>1, <2>2, <3>1 DEF LinkBooks
    <2>3. CASE ~readable
      <3>1. links' = [p \in Pairs |-> Unmeasured]
        BY <2>3 DEF RestartLinks
      <3>2. Tabled(links')
        <4> HIDE DEF LinkOK
        <4> QED BY <3>1, UnmeasuredIs DEF Tabled
      <3> HIDE DEF Tabled
      <3> QED BY <2>1, <2>3, <3>2 DEF LinkBooks
    <2> QED BY <2>2, <2>3
  <1> QED BY <1>1, <1>2 DEF NInv

LEMMA NInit == LinksInit => NInv
  <1> SUFFICES ASSUME LinksInit PROVE NInv
    OBVIOUS
  <1>1. links = [p \in Pairs |-> Unmeasured] /\ linkFile = links /\ unsaved = FALSE
    BY DEF LinksInit
  <1>2. Tabled(links)
    <2> HIDE DEF LinkOK
    <2> QED BY <1>1, UnmeasuredIs DEF Tabled
  <1>3. probes = [c \in LinkCallers |-> Resting] /\ inflight = {}
    BY DEF LinksInit
  <1> HIDE DEF Tabled, ProbeOK
  <1>4. LinkBooks
    BY <1>1, <1>2 DEF LinkBooks
  <1>5. ProbeBooks
    BY <1>3, RestingIs DEF ProbeBooks
  <1> QED BY <1>4, <1>5 DEF NInv

LEMMA NStep == NInv /\ [LinksNext]_linkVars => NInv'
  <1> SUFFICES ASSUME NInv, [LinksNext]_linkVars PROVE NInv'
    OBVIOUS
  <1>1. CASE UNCHANGED linkVars
    BY <1>1 DEF NInv, LinkBooks, ProbeBooks, linkVars
  <1>2. CASE LinksAsk
    <2>1. ASSUME NEW c \in LinkCallers, NEW list \in LinkRequests, AskMeasure(c, list) PROVE NInv'
      <3>1. list \in Seq(Ends)
        <4>1. PICK a \in LinkNodes, b \in LinkNodes : list = <<<<a, b>>>>
          BY DEF LinkRequests
        <4>2. a # b
          BY <4>1 DEF LinkRequests
        <4>3. <<a, b>> \in Ends
          BY <4>2 DEF Ends
        <4> QED BY <4>1, <4>3
      <3> QED BY <2>1, <3>1, AskMeasureKeeps
    <2>2. ASSUME NEW c \in LinkCallers, NEW order \in MeasureOrders, AskMeasure(c, EveryPair(order)) PROVE NInv'
      <3>1. EveryPair(order) \in Seq(Ends)
        BY LinksAssumption, EveryPairIs
      <3> QED BY <2>2, <3>1, AskMeasureKeeps
    <2> QED BY <1>2, <2>1, <2>2, PutByHandKeeps, LinkForgetKeeps, RestartLinksKeeps DEF LinksAsk
  <1>3. CASE LinksProceed
    BY <1>3, AnnounceKeeps, TakeLockKeeps, ProbedKeeps DEF LinksProceed
  <1> QED BY <1>1, <1>2, <1>3 DEF LinksNext

(* The slowest pair of a group exists, and no pair of it is unmeasured.    *)
LEMMA WorstIs == LinkBooks => WorstSafe
  <1> SUFFICES ASSUME LinkBooks, NEW group \in SUBSET LinkNodes, WorstAllReduce(group) # Unmeasured,
                      NEW a \in group, NEW b \in group, a # b
               PROVE  /\ links[PairKey(a, b)] # Unmeasured
                      /\ WorstAllReduce(group).gbps <= links[PairKey(a, b)].gbps
    BY DEF WorstSafe
  <1> DEFINE mine == {q \in Pairs : q \subseteq group}
             known == {links[p] : p \in mine}
             Slowest(l) == \A other \in known : l.gbps <= other.gbps
             Speeds == {l.gbps : l \in known}
             ab == PairKey(a, b)
  <1>1. /\ known # {} /\ Unmeasured \notin known
        /\ WorstAllReduce(group) = CHOOSE l \in known : Slowest(l)
    BY DEF WorstAllReduce
  <1>2. ab \in mine
    BY DEF PairKey, Pairs
  <1>3. \A p \in mine : LinkOK(links[p])
    BY DEF LinkBooks, Tabled
  <1> HIDE DEF mine, ab
  <1>4. links[ab] \in known
    BY <1>2
  <1>5. \A l \in known : l.gbps \in Nat
    BY <1>1, <1>3 DEF LinkOK
  <1> HIDE DEF known
  <1>6. Speeds \subseteq Nat /\ Speeds # {}
    BY <1>1, <1>5
  <1> DEFINE m == Min(Speeds)
  <1>7. m \in Speeds /\ \A y \in Speeds : m <= y
    <2> HIDE DEF Speeds
    <2> QED BY <1>6, LeastOfNaturals
  <1> HIDE DEF m
  <1>8. PICK l \in known : l.gbps = m
    BY <1>7
  <1>9. Slowest(l)
    BY <1>7, <1>8
  <1>10. WorstAllReduce(group) \in known /\ Slowest(WorstAllReduce(group))
    <2> HIDE DEF Slowest
    <2> QED BY <1>1, <1>8, <1>9
  <1> QED BY <1>1, <1>4, <1>10 DEF ab

(* Two callers and an operator at once: an estimate is told from a         *)
(* measurement, no figure was taken beside another probe, a group is as    *)
(* slow as its slowest pair, the file holds what memory does, and no mark  *)
(* of a probe outlives it.                                                 *)
THEOREM LinksKeepTheirPromise == LinksSpec => []LinksPromise
  <1>1. NInv => LinksPromise
    <2> SUFFICES ASSUME NInv PROVE LinksPromise
      OBVIOUS
    <2>1. /\ DOMAIN links = Pairs /\ DOMAIN linkFile = Pairs
          /\ \A p \in Pairs : LinkOK(links[p])
      BY DEF NInv, LinkBooks, Tabled
    <2>2. EstimateTold /\ ProbedAlone
      BY <2>1 DEF LinkOK, EstimateTold, ProbedAlone
    <2>3. FileAgrees /\ WorstSafe
      BY WorstIs DEF NInv, LinkBooks, FileAgrees
    <2>4. MarkEnds
      BY DEF NInv, ProbeBooks, AtWork, MarkEnds
    <2>5. LinksTypeOK
      <3>1. \A p \in Pairs : /\ links[p].method \in {"none", "nccl", "ib_write_bw", "tcp", "manual"}
                             /\ links[p] # Unmeasured => links[p].gbps > 0 /\ links[p].latency > 0
        BY <2>1 DEF LinkOK
      <3>2. \A c \in LinkCallers : probes[c].stage \in {"idle", "asked", "queued", "probing"}
        BY DEF NInv, ProbeBooks, ProbeOK
      <3> QED BY <2>1, <3>1, <3>2 DEF NInv, LinkBooks, ProbeBooks, LinksTypeOK
    <2> QED BY <2>2, <2>3, <2>4, <2>5 DEF LinksPromise
  <1> QED BY <1>1, NInit, NStep, PTL DEF LinksSpec

----------------------------------------------------------------------------
(***************************************************************************)
(* The inventory.                                                          *)
(***************************************************************************)

Readings == UNION {[S -> (SUBSET Folders) \cup {Unread}] : S \in SUBSET Machines}

PollRecords == [at: {"idle", "measured", "stored"}, report: Readings \cup {<< >>}]

(* A request that has measured holds what it measured.                     *)
PollsOK ==
    /\ poll \in [Polls -> PollRecords]
    /\ \A q \in Polls : poll[q].at # "idle" => poll[q].report \in Readings
(* A file of revision 0 is empty.                                          *)
FirstIsEmpty ==
    revision = 0 => table = [m \in Models |-> {}] /\ held = [n \in Machines |-> {}]
(* What is being deleted is served nowhere.                                *)
NotServed ==
    deleting # NotDeleting => \A m \in Models : deployed[m] \in Live => FolderOf[m] # deleting.folder

InventoryInv == InventoryTypeOK /\ PollsOK /\ HealthyAnswered /\ FirstIsEmpty /\ NotServed

LEMMA NoPollIs == NoPoll \in PollRecords /\ NoPoll.at = "idle"
  BY DEF NoPoll, PollRecords

(* The parts of the promise that are about one step.                       *)
RevisionMoves == Shown' # Shown => revision' # revision
RowsStay ==
    \A n \in Machines : held'[n] # held[n] =>
        \/ revision' = 0
        \/ \E q \in Polls : /\ poll'[q] # poll[q]
                            /\ \/ n \in DOMAIN poll[q].report /\ poll[q].report[n] = held'[n]
                               \/ n \notin DOMAIN poll[q].report /\ poll[q].report # << >>
WeightsStay ==
    \A n \in Machines, m \in Models :
        deployed[m] \in Live /\ FolderOf[m] \in disks[n] => FolderOf[m] \in disks'[n]

StepFine == RevisionMoves /\ RowsStay /\ WeightsStay

LEMMA SameList == UNCHANGED <<table, held>> => RevisionMoves /\ RowsStay
  BY DEF RevisionMoves, RowsStay, Shown

LEMMA SameDisks == UNCHANGED disks => WeightsStay
  BY DEF WeightsStay

LEMMA RefreshFastFine ==
    ASSUME InventoryInv, NEW failed \in SUBSET Feeds, RefreshFast(failed)
    PROVE  InventoryInv' /\ StepFine
  <1>1. /\ revision \in 0 .. MaxRevision /\ revision < MaxRevision
        /\ answered' = [s \in Feeds |-> s \notin failed]
        /\ UNCHANGED <<deployed, published, peers, disks, held, scans, cacheDigest, poll, deleting>>
    BY DEF RefreshFast, world, InventoryInv, InventoryTypeOK
  <1>0. \/ UNCHANGED <<table, revision>>
        \/ revision' = revision + 1
    BY DEF RefreshFast, Bumped
  <1>2. /\ revision' \in 0 .. MaxRevision
        /\ revision' = revision \/ (revision' # revision /\ revision' # 0)
    BY <1>0, <1>1, InventoryAssumption
  <1>3. revision' = revision => table' = table
    BY <1>0, <1>1
  <1>4. table' \in Records /\ digest' \in Records \cup {<<>>}
    <2>1. Build \in Records
      BY DEF Build, Records
    <2> QED BY <2>1 DEF RefreshFast, InventoryInv, InventoryTypeOK
  <1>5. fine' \in [Feeds -> {"none", "ok", "failed"}] /\ \A s \in Feeds : fine'[s] = "ok" => answered'[s]
    <2>1. CASE failed # {} \/ digest = Build
      <3>1. fine' = NoteSources(failed, FALSE)
        BY <2>1 DEF RefreshFast
      <3> QED BY <1>1, <3>1 DEF NoteSources, InventoryInv, InventoryTypeOK
    <2>2. CASE ~(failed # {} \/ digest = Build)
      <3>1. fine' = NoteSources({}, TRUE) /\ failed = {}
        BY <2>2 DEF RefreshFast
      <3> QED BY <1>1, <3>1 DEF NoteSources, InventoryInv, InventoryTypeOK
    <2> QED BY <2>1, <2>2
  <1>6. RevisionMoves
    BY <1>1, <1>2, <1>3 DEF RevisionMoves, Shown
  <1>7. RowsStay /\ WeightsStay
    BY <1>1 DEF RowsStay, WeightsStay
  <1>8. InventoryTypeOK'
    BY <1>1, <1>2, <1>4, <1>5 DEF InventoryInv, InventoryTypeOK
  <1>9. FirstIsEmpty'
    BY <1>1, <1>2, <1>3 DEF InventoryInv, FirstIsEmpty
  <1> QED BY <1>1, <1>5, <1>6, <1>7, <1>8, <1>9 DEF InventoryInv, PollsOK, HealthyAnswered, NotServed, StepFine

LEMMA StoragePollFine ==
    ASSUME InventoryInv, NEW q \in Polls, NEW silent \in SUBSET peers, StoragePoll(q, silent)
    PROVE  InventoryInv' /\ StepFine
  <1> DEFINE r == [n \in peers |-> IF n \in silent THEN Unread ELSE disks[n]]
             p == [at |-> "measured", report |-> r]
  <1>1. /\ poll' = [poll EXCEPT ![q] = p]
        /\ UNCHANGED <<deployed, published, peers, disks, table, digest, fine, held, scans, cacheDigest, revision,
                       deleting, answered>>
    BY DEF StoragePoll, world
  <1>2. r \in Readings
    <2>1. peers \in SUBSET Machines /\ disks \in [Machines -> SUBSET Folders]
      BY DEF InventoryInv, InventoryTypeOK
    <2>2. r \in [peers -> (SUBSET Folders) \cup {Unread}]
      BY <2>1
    <2> HIDE DEF r
    <2> QED BY <2>1, <2>2 DEF Readings
  <1>3. p.report = r /\ p \in PollRecords
    BY <1>2 DEF PollRecords
  <1> HIDE DEF p, r
  <1>4. PollsOK'
    BY <1>1, <1>2, <1>3 DEF InventoryInv, PollsOK
  <1>5. InventoryTypeOK' /\ HealthyAnswered' /\ FirstIsEmpty' /\ NotServed'
    BY <1>1 DEF InventoryInv, InventoryTypeOK, HealthyAnswered, FirstIsEmpty, NotServed
  <1> QED BY <1>1, <1>4, <1>5, SameList, SameDisks DEF InventoryInv, StepFine

LEMMA RefreshCacheFine ==
    ASSUME InventoryInv, NEW q \in Polls, RefreshCache(q)
    PROVE  InventoryInv' /\ StepFine
  <1> DEFINE r == poll[q].report
  <1>1. /\ poll[q].at = "measured" /\ revision \in 0 .. MaxRevision /\ revision < MaxRevision
        /\ poll' = [poll EXCEPT ![q].at = "stored"]
        /\ UNCHANGED <<deployed, published, peers, disks, table, digest, fine, deleting, answered>>
        /\ r \in Readings
    BY DEF RefreshCache, world, InventoryInv, InventoryTypeOK, PollsOK
  <1>2. /\ poll' \in [Polls -> PollRecords]
        /\ poll'[q] # poll[q]
        /\ \A s \in Polls : poll'[s].at # "idle" => poll[s].at # "idle" /\ poll'[s].report = poll[s].report
    <2>1. poll \in [Polls -> PollRecords]
      BY DEF InventoryInv, PollsOK
    <2>2. /\ poll' \in [Polls -> PollRecords]
          /\ poll'[q] = [poll[q] EXCEPT !.at = "stored"] /\ \A s \in Polls \ {q} : poll'[s] = poll[s]
      BY <1>1, <2>1 DEF PollRecords
    <2>3. poll'[q].at = "stored" /\ poll'[q].report = poll[q].report
      <3>1. poll[q] \in PollRecords
        BY <2>1
      <3> QED BY <2>2, <3>1 DEF PollRecords
    <2> QED BY <1>1, <2>2, <2>3
  <1>3. PollsOK'
    BY <1>2 DEF InventoryInv, PollsOK
  <1>4. HealthyAnswered' /\ NotServed'
    BY <1>1 DEF InventoryInv, HealthyAnswered, NotServed
  <1>5. CASE cacheDigest = r
    <2>1. UNCHANGED <<held, scans, cacheDigest, revision>>
      BY <1>5 DEF RefreshCache
    <2>2. InventoryTypeOK' /\ FirstIsEmpty'
      BY <1>1, <2>1 DEF InventoryInv, InventoryTypeOK, FirstIsEmpty
    <2> QED BY <1>1, <1>3, <1>4, <2>1, <2>2, SameList, SameDisks DEF InventoryInv, StepFine
  <1>6. CASE cacheDigest # r
    <2>1. /\ held' = HeldAfter(r) /\ revision' = revision + 1
          /\ scans' = [n \in Machines |-> IF n \notin DOMAIN r THEN scans[n]
                                          ELSE IF r[n] = Unread THEN "unread" ELSE "read"]
      BY <1>6 DEF RefreshCache, Bumped
    <2>2. PICK S \in SUBSET Machines : r \in [S -> (SUBSET Folders) \cup {Unread}]
      BY <1>1 DEF Readings
    <2> HIDE DEF r
    <2>3. revision' \in 0 .. MaxRevision /\ revision' # 0 /\ revision' # revision
      BY <1>1, <2>1, InventoryAssumption
    <2>4. held' \in [Machines -> SUBSET Folders]
      <3>1. held \in [Machines -> SUBSET Folders] /\ DOMAIN r = S
        BY <2>2 DEF InventoryInv, InventoryTypeOK
      <3>2. \A n \in S : r[n] # Unread => r[n] \in SUBSET Folders
        BY <2>2
      <3> QED BY <2>1, <3>1, <3>2 DEF HeldAfter
    <2>5. scans' \in [Machines -> {"none", "read", "unread"}]
      BY <2>1 DEF InventoryInv, InventoryTypeOK
    <2>6. InventoryTypeOK'
      BY <1>1, <2>3, <2>4, <2>5 DEF InventoryInv, InventoryTypeOK
    <2>7. \A n \in Machines : held'[n] # held[n] => n \in DOMAIN r /\ r[n] = held'[n]
      BY <2>1 DEF HeldAfter
    <2>8. RowsStay
      BY <1>2, <2>7 DEF RowsStay, r
    <2> QED BY <1>1, <1>3, <1>4, <2>3, <2>6, <2>8, SameDisks DEF InventoryInv, FirstIsEmpty, StepFine, RevisionMoves
  <1> QED BY <1>5, <1>6

LEMMA DropNodesFine ==
    ASSUME InventoryInv, NEW q \in Polls, DropNodes(q)
    PROVE  InventoryInv' /\ StepFine
  <1> DEFINE r == poll[q].report
             gone == Dropped(DOMAIN r)
  <1>1. /\ poll[q].at = "stored" /\ revision \in 0 .. MaxRevision /\ revision < MaxRevision
        /\ held' = [n \in Machines |-> IF n \in gone THEN {} ELSE held[n]]
        /\ scans' = [n \in Machines |-> IF n \in gone THEN "none" ELSE scans[n]]
        /\ revision' = IF gone = {} THEN revision ELSE revision + 1
        /\ poll' = [poll EXCEPT ![q] = NoPoll]
        /\ UNCHANGED <<deployed, published, peers, disks, table, digest, fine, cacheDigest, deleting, answered>>
    BY DEF DropNodes, world, Bumped, InventoryInv, InventoryTypeOK
  <1>2. /\ poll' \in [Polls -> PollRecords]
        /\ poll'[q].at = "idle" /\ \A s \in Polls \ {q} : poll'[s] = poll[s]
    BY <1>1, NoPollIs DEF InventoryInv, PollsOK
  <1>3. PollsOK'
    BY <1>2 DEF InventoryInv, PollsOK
  <1>4. HealthyAnswered' /\ NotServed'
    BY <1>1 DEF InventoryInv, HealthyAnswered, NotServed
  <1>5. held' \in [Machines -> SUBSET Folders] /\ scans' \in [Machines -> {"none", "read", "unread"}]
    BY <1>1 DEF InventoryInv, InventoryTypeOK
  <1>6. /\ revision' \in 0 .. MaxRevision
        /\ revision' = revision => gone = {}
        /\ revision' = 0 => revision = 0 /\ gone = {}
    BY <1>1, InventoryAssumption
  <1>7. gone = {} => held' = held
    BY <1>1 DEF InventoryInv, InventoryTypeOK
  <1>8. InventoryTypeOK'
    BY <1>1, <1>5, <1>6 DEF InventoryInv, InventoryTypeOK
  <1>9. FirstIsEmpty'
    BY <1>1, <1>6, <1>7 DEF InventoryInv, FirstIsEmpty
  <1>10. RevisionMoves
    BY <1>1, <1>6, <1>7 DEF RevisionMoves, Shown
  <1>11. RowsStay
    <2>1. ASSUME NEW n \in Machines, held'[n] # held[n] PROVE n \notin DOMAIN r /\ r # << >>
      <3>1. n \in gone
        BY <1>1, <2>1
      <3>2. DOMAIN r # {} /\ n \notin DOMAIN r
        BY <3>1 DEF Dropped
      <3> QED BY <3>2
    <2>2. poll'[q] # poll[q]
      BY <1>1, <1>2
    <2> QED BY <2>1, <2>2 DEF RowsStay
  <1> QED BY <1>1, <1>3, <1>4, <1>8, <1>9, <1>10, <1>11, SameDisks DEF InventoryInv, StepFine

LEMMA ReopenFine ==
    ASSUME InventoryInv, NEW kept \in BOOLEAN, ReopenInventory(kept)
    PROVE  InventoryInv' /\ StepFine
  <1>1. /\ poll' = [q \in Polls |-> NoPoll] /\ deleting' = NotDeleting
        /\ UNCHANGED <<deployed, published, peers, disks, answered>>
    BY DEF ReopenInventory, world
  <1>2. PollsOK' /\ NotServed'
    BY <1>1, NoPollIs DEF PollsOK, NotServed
  <1>3. CASE kept
    <2>1. UNCHANGED <<table, digest, fine, held, scans, cacheDigest, revision>>
      BY <1>3 DEF ReopenInventory
    <2>2. InventoryTypeOK' /\ HealthyAnswered' /\ FirstIsEmpty'
      BY <1>1, <2>1 DEF InventoryInv, InventoryTypeOK, HealthyAnswered, FirstIsEmpty
    <2> QED BY <1>1, <1>2, <2>1, <2>2, SameList, SameDisks DEF InventoryInv, StepFine
  <1>4. CASE ~kept
    <2>1. /\ table' = [m \in Models |-> {}] /\ digest' = << >> /\ fine' = [s \in Feeds |-> "none"]
          /\ held' = [n \in Machines |-> {}] /\ scans' = [n \in Machines |-> "none"] /\ revision' = 0
      BY <1>4 DEF ReopenInventory
    <2>2. 0 \in 0 .. MaxRevision
      BY InventoryAssumption
    <2>3. table' \in Records /\ held' \in [Machines -> SUBSET Folders]
      BY <2>1 DEF Records
    <2>4. InventoryTypeOK'
      BY <1>1, <2>1, <2>2, <2>3 DEF InventoryInv, InventoryTypeOK
    <2>5. HealthyAnswered' /\ FirstIsEmpty'
      BY <2>1 DEF HealthyAnswered, FirstIsEmpty
    <2>6. RevisionMoves
      <3>1. CASE revision = 0
        <4>1. table' = table /\ held' = held
          BY <2>1, <3>1 DEF InventoryInv, FirstIsEmpty
        <4> QED BY <4>1, SameList
      <3>2. CASE revision # 0
        BY <2>1, <3>2 DEF RevisionMoves
      <3> QED BY <3>1, <3>2
    <2>7. RowsStay
      BY <2>1 DEF RowsStay
    <2> QED BY <1>1, <1>2, <2>4, <2>5, <2>6, <2>7, SameDisks DEF InventoryInv, StepFine
  <1> QED BY <1>3, <1>4

LEMMA DeletesFine ==
    ASSUME InventoryInv,
           \/ \E n \in Machines, f \in Folders : CheckDelete(n, f)
           \/ \E done \in BOOLEAN : AgentDeletes(done)
    PROVE  InventoryInv' /\ StepFine
  <1>1. ASSUME NEW n \in Machines, NEW f \in Folders, CheckDelete(n, f) PROVE InventoryInv' /\ StepFine
    <2>1. /\ deleting' = [node |-> n, folder |-> f] /\ ~InUse(f)
          /\ UNCHANGED <<deployed, published, peers, disks, table, digest, fine, held, scans, cacheDigest, revision,
                         poll, answered>>
      BY <1>1 DEF CheckDelete, world
    <2>2. NotServed'
      BY <2>1 DEF NotServed, InUse
    <2>3. InventoryTypeOK' /\ PollsOK' /\ HealthyAnswered' /\ FirstIsEmpty'
      BY <2>1 DEF InventoryInv, InventoryTypeOK, PollsOK, HealthyAnswered, FirstIsEmpty
    <2> QED BY <2>1, <2>2, <2>3, SameList, SameDisks DEF InventoryInv, StepFine
  <1>2. ASSUME NEW done \in BOOLEAN, AgentDeletes(done) PROVE InventoryInv' /\ StepFine
    <2>1. /\ deleting # NotDeleting /\ deleting' = NotDeleting
          /\ disks' = IF done THEN [disks EXCEPT ![deleting.node] = disks[deleting.node] \ {deleting.folder}] ELSE disks
          /\ UNCHANGED <<deployed, published, peers, table, digest, fine, held, scans, cacheDigest, revision, poll, answered>>
      BY <1>2 DEF AgentDeletes
    <2>2. disks \in [Machines -> SUBSET Folders] /\ NotServed
      BY DEF InventoryInv, InventoryTypeOK
    <2>3. disks' \in [Machines -> SUBSET Folders]
      BY <2>1, <2>2
    <2>4. WeightsStay
      BY <2>1, <2>2 DEF WeightsStay, NotServed
    <2>5. NotServed' /\ InventoryTypeOK' /\ PollsOK' /\ HealthyAnswered' /\ FirstIsEmpty'
      BY <2>1, <2>3 DEF NotServed, InventoryInv, InventoryTypeOK, PollsOK, HealthyAnswered, FirstIsEmpty
    <2> QED BY <2>1, <2>4, <2>5, SameList DEF InventoryInv, StepFine
  <1> QED BY <1>1, <1>2

LEMMA WorldFine == ASSUME InventoryInv, InventoryWorld PROVE InventoryInv' /\ StepFine
  <1>1. ASSUME NEW m \in Models, NEW state \in {"none", "launching", "ready", "stopped"}, Deploy(m, state)
        PROVE  InventoryInv' /\ StepFine
    <2>1. /\ deployed' = [deployed EXCEPT ![m] = state]
          /\ disks' = IF state # "launching" THEN disks
                      ELSE [n \in Machines |-> IF n \in peers THEN disks[n] \cup {FolderOf[m]} ELSE disks[n]]
          /\ UNCHANGED <<published, peers, table, digest, fine, held, scans, cacheDigest, revision,
                         poll, deleting, answered>>
      BY <1>1 DEF Deploy
    <2>2. state \in Live => deployed[m] \in Live \/ FolderOf[m] # deleting.folder
      BY <1>1 DEF Deploy, Live
    <2>3. deployed \in [Models -> Live \cup {"none", "stopped"}] /\ disks \in [Machines -> SUBSET Folders]
      BY DEF InventoryInv, InventoryTypeOK
    <2>4. deployed' \in [Models -> Live \cup {"none", "stopped"}]
      BY <2>1, <2>3 DEF Live
    <2>5. disks' \in [Machines -> SUBSET Folders] /\ WeightsStay
      BY <2>1, <2>3, InventoryAssumption DEF WeightsStay
    <2>6. NotServed'
      <3>1. ASSUME deleting # NotDeleting, NEW k \in Models, deployed'[k] \in Live PROVE FolderOf[k] # deleting.folder
        <4>1. CASE k = m
          BY <2>1, <2>2, <2>3, <3>1, <4>1 DEF InventoryInv, NotServed
        <4>2. CASE k # m
          BY <2>1, <2>3, <3>1, <4>2 DEF InventoryInv, NotServed
        <4> QED BY <4>1, <4>2
      <3> QED BY <2>1, <3>1 DEF NotServed
    <2>7. InventoryTypeOK' /\ PollsOK' /\ HealthyAnswered' /\ FirstIsEmpty'
      BY <2>1, <2>4, <2>5 DEF InventoryInv, InventoryTypeOK, PollsOK, HealthyAnswered, FirstIsEmpty
    <2> QED BY <2>1, <2>5, <2>6, <2>7, SameList DEF InventoryInv, StepFine
  <1>2. ASSUME NEW m \in Models, NEW how \in {"no", "offered", "served"}, Publish(m, how)
        PROVE  InventoryInv' /\ StepFine
    <2>1. /\ published' = [published EXCEPT ![m] = how]
          /\ UNCHANGED <<deployed, peers, disks, table, digest, fine, held, scans, cacheDigest, revision,
                         poll, deleting, answered>>
      BY <1>2 DEF Publish
    <2>2. published' \in [Models -> {"no", "offered", "served"}]
      BY <2>1 DEF InventoryInv, InventoryTypeOK
    <2>3. InventoryTypeOK' /\ PollsOK' /\ HealthyAnswered' /\ FirstIsEmpty' /\ NotServed'
      BY <2>1, <2>2 DEF InventoryInv, InventoryTypeOK, PollsOK, HealthyAnswered, FirstIsEmpty, NotServed
    <2> QED BY <2>1, <2>3, SameList, SameDisks DEF InventoryInv, StepFine
  <1>3. ASSUME NEW n \in Machines, ChangeRoster(n) PROVE InventoryInv' /\ StepFine
    <2>1. /\ peers' = IF n \in peers THEN peers \ {n} ELSE peers \cup {n}
          /\ UNCHANGED <<deployed, published, disks, table, digest, fine, held, scans, cacheDigest, revision,
                         poll, deleting, answered>>
      BY <1>3 DEF ChangeRoster
    <2>2. InventoryTypeOK' /\ PollsOK' /\ HealthyAnswered' /\ FirstIsEmpty' /\ NotServed'
      BY <2>1 DEF InventoryInv, InventoryTypeOK, PollsOK, HealthyAnswered, FirstIsEmpty, NotServed
    <2> QED BY <2>1, <2>2, SameList, SameDisks DEF InventoryInv, StepFine
  <1> QED BY <1>1, <1>2, <1>3 DEF InventoryWorld

LEMMA StepInventoryInv ==
    ASSUME InventoryInv, [InventoryWorld \/ InventoryStep]_inventoryVars
    PROVE  InventoryInv' /\ StepFine
  <1>1. CASE InventoryStep
    BY <1>1, RefreshFastFine, StoragePollFine, RefreshCacheFine, DropNodesFine, ReopenFine, DeletesFine DEF InventoryStep
  <1>2. CASE UNCHANGED inventoryVars
    <2>1. InventoryInv'
      BY <1>2 DEF inventoryVars, InventoryInv, InventoryTypeOK, PollsOK, HealthyAnswered, FirstIsEmpty, NotServed
    <2>2. StepFine
      BY <1>2, SameList, SameDisks DEF inventoryVars, StepFine
    <2> QED BY <2>1, <2>2
  <1> QED BY <1>1, <1>2, WorldFine

(* One reading of the disks goes on at a time.                             *)
OnePoll == \A q, s \in Polls : q = s

(* Between the two transactions of a reading the digest is that reading's. *)
DigestTold ==
    /\ \A q \in Polls : poll[q].at = "stored" => cacheDigest = poll[q].report
    /\ \A n \in DOMAIN cacheDigest : cacheDigest[n] # Unread => n \in Machines /\ held[n] = cacheDigest[n]

LEMMA ReadOneFine ==
    ASSUME OnePoll, InventoryInv, DigestTold, NEW q \in Polls, RefreshCache(q)
    PROVE  DigestTold'
  <1> DEFINE r == poll[q].report
  <1>1. /\ poll[q].at = "measured" /\ poll' = [poll EXCEPT ![q].at = "stored"] /\ r \in Readings
        /\ poll \in [Polls -> PollRecords]
    BY DEF RefreshCache, InventoryInv, PollsOK
  <1>2. poll'[q].report = r /\ \A s \in Polls : s = q
    BY <1>1 DEF OnePoll, PollRecords
  <1>3. cacheDigest' = r
    BY DEF RefreshCache
  <1>4. CASE cacheDigest = r
    <2>1. UNCHANGED <<held, cacheDigest>>
      BY <1>4 DEF RefreshCache
    <2> QED BY <1>2, <1>3, <2>1 DEF DigestTold
  <1>5. CASE cacheDigest # r
    <2>1. held' = HeldAfter(r)
      BY <1>5 DEF RefreshCache
    <2>2. PICK S \in SUBSET Machines : r \in [S -> (SUBSET Folders) \cup {Unread}]
      BY <1>1 DEF Readings
    <2> HIDE DEF r
    <2>3. \A n \in DOMAIN r : r[n] # Unread => n \in Machines /\ held'[n] = r[n]
      BY <2>1, <2>2 DEF HeldAfter
    <2> QED BY <1>2, <1>3, <2>3 DEF DigestTold, r
  <1> QED BY <1>4, <1>5

LEMMA DropOneFine ==
    ASSUME OnePoll, InventoryInv, DigestTold, NEW q \in Polls, DropNodes(q)
    PROVE  DigestTold'
  <1> DEFINE r == poll[q].report
             gone == Dropped(DOMAIN r)
  <1>1. /\ poll[q].at = "stored" /\ poll' = [poll EXCEPT ![q] = NoPoll] /\ cacheDigest' = cacheDigest
        /\ held' = [n \in Machines |-> IF n \in gone THEN {} ELSE held[n]]
        /\ poll \in [Polls -> PollRecords]
    BY DEF DropNodes, InventoryInv, PollsOK
  <1>2. poll'[q].at = "idle" /\ \A s \in Polls : s = q
    BY <1>1, NoPollIs DEF OnePoll
  <1>3. cacheDigest = r
    BY <1>1 DEF DigestTold
  <1>4. \A n \in gone : n \notin DOMAIN r
    BY DEF Dropped
  <1> HIDE DEF r, gone
  <1>5. \A n \in DOMAIN cacheDigest : cacheDigest[n] # Unread => n \in Machines /\ held'[n] = cacheDigest[n]
    BY <1>1, <1>3, <1>4 DEF DigestTold
  <1> QED BY <1>1, <1>2, <1>5 DEF DigestTold

LEMMA StepDigestTold ==
    ASSUME OnePoll, InventoryInv, DigestTold, [InventoryWorld \/ InventoryStep]_inventoryVars
    PROVE  DigestTold'
  <1>1. CASE UNCHANGED <<poll, held, cacheDigest>>
    BY <1>1 DEF DigestTold
  <1>2. ASSUME NEW failed \in SUBSET Feeds, RefreshFast(failed) PROVE UNCHANGED <<poll, held, cacheDigest>>
    BY <1>2 DEF RefreshFast
  <1>3. ASSUME NEW q \in Polls, NEW silent \in SUBSET peers, StoragePoll(q, silent) PROVE DigestTold'
    <2>1. /\ poll' = [poll EXCEPT ![q] = [at |-> "measured", report |->
                        [n \in peers |-> IF n \in silent THEN Unread ELSE disks[n]]]]
          /\ UNCHANGED <<held, cacheDigest>> /\ poll \in [Polls -> PollRecords]
      BY <1>3 DEF StoragePoll, InventoryInv, PollsOK
    <2>2. poll'[q].at = "measured" /\ \A s \in Polls : s = q
      BY <2>1 DEF OnePoll
    <2> QED BY <2>1, <2>2 DEF DigestTold
  <1>4. ASSUME NEW kept \in BOOLEAN, ReopenInventory(kept) PROVE DigestTold'
    <2>1. \A q \in Polls : poll'[q].at = "idle"
      BY <1>4, NoPollIs DEF ReopenInventory
    <2>2. CASE kept
      BY <1>4, <2>1, <2>2 DEF ReopenInventory, DigestTold
    <2>3. CASE ~kept
      <3>1. cacheDigest' = NoDigest
        BY <1>4, <2>3 DEF ReopenInventory
      <3>2. \A n \in DOMAIN cacheDigest' : cacheDigest'[n] = Unread
        BY <3>1 DEF NoDigest
      <3> QED BY <2>1, <3>2 DEF DigestTold
    <2> QED BY <2>2, <2>3
  <1>5. ASSUME \/ \E n \in Machines, f \in Folders : CheckDelete(n, f)
               \/ \E done \in BOOLEAN : AgentDeletes(done)
        PROVE  UNCHANGED <<poll, held, cacheDigest>>
    BY <1>5 DEF CheckDelete, AgentDeletes
  <1>6. CASE InventoryWorld
    <2>1. UNCHANGED <<poll, held, cacheDigest>>
      BY <1>6 DEF InventoryWorld, Deploy, Publish, ChangeRoster
    <2> QED BY <1>1, <2>1
  <1>7. CASE InventoryStep
    BY <1>1, <1>2, <1>3, <1>4, <1>5, <1>7, ReadOneFine, DropOneFine DEF InventoryStep
  <1>8. CASE UNCHANGED inventoryVars
    BY <1>1, <1>8 DEF inventoryVars
  <1> QED BY <1>6, <1>7, <1>8

LEMMA InitInventoryInv == InventoryInit => InventoryInv /\ DigestTold
  <1> SUFFICES ASSUME InventoryInit PROVE InventoryInv /\ DigestTold
    OBVIOUS
  <1>1. /\ deployed = [m \in Models |-> "none"] /\ published = [m \in Models |-> "no"]
        /\ peers \subseteq Machines /\ disks = [n \in Machines |-> {}]
        /\ table = [m \in Models |-> {}] /\ digest = << >>
        /\ fine = [s \in Feeds |-> "none"] /\ answered = [s \in Feeds |-> TRUE]
        /\ held = [n \in Machines |-> {}] /\ scans = [n \in Machines |-> "none"]
        /\ cacheDigest = NoDigest /\ revision = 0
        /\ poll = [q \in Polls |-> NoPoll] /\ deleting = NotDeleting
    BY DEF InventoryInit
  <1>2. InventoryTypeOK
    <2>1. 0 \in 0 .. MaxRevision
      BY InventoryAssumption
    <2>2. table \in Records /\ held \in [Machines -> SUBSET Folders] /\ disks \in [Machines -> SUBSET Folders]
      BY <1>1 DEF Records
    <2> QED BY <1>1, <2>1, <2>2 DEF InventoryTypeOK
  <1>3. PollsOK /\ \A q \in Polls : poll[q].at = "idle"
    BY <1>1, NoPollIs DEF PollsOK
  <1>4. HealthyAnswered /\ FirstIsEmpty /\ NotServed
    BY <1>1 DEF HealthyAnswered, FirstIsEmpty, NotServed
  <1>5. DigestTold
    BY <1>1, <1>3 DEF DigestTold, NoDigest
  <1> QED BY <1>2, <1>3, <1>4, <1>5 DEF InventoryInv

(* What the inventory promises however many readings of the disks go on at *)
(* a time: a feed shown healthy has answered, the revision moves whenever  *)
(* the list does, a silent node keeps its rows, and no weights go that are *)
(* being served (inventory/service.py, delete_cached_model()).             *)
THEOREM TablesHold ==
    InventorySpec => [](InventoryTypeOK /\ HealthyAnswered) /\ RevisionHonest /\ RowsKept /\ WeightsInUse
  <1>1. InventoryInv => InventoryTypeOK /\ HealthyAnswered
    BY DEF InventoryInv
  <1>2. InventoryInv /\ [InventoryWorld \/ InventoryStep]_inventoryVars => InventoryInv'
    BY StepInventoryInv
  <1>3. InventoryInv /\ [InventoryWorld \/ InventoryStep]_inventoryVars => [Shown' # Shown => revision' # revision]_inventoryVars
    BY StepInventoryInv DEF StepFine, RevisionMoves
  <1>4. InventoryInv /\ [InventoryWorld \/ InventoryStep]_inventoryVars
            => [\A n \in Machines : held'[n] # held[n] =>
                 \/ revision' = 0
                 \/ \E q \in Polls : /\ poll'[q] # poll[q]
                                     /\ \/ n \in DOMAIN poll[q].report /\ poll[q].report[n] = held'[n]
                                        \/ n \notin DOMAIN poll[q].report /\ poll[q].report # << >>]_inventoryVars
    BY StepInventoryInv DEF StepFine, RowsStay
  <1>5. InventoryInv /\ [InventoryWorld \/ InventoryStep]_inventoryVars
            => [\A n \in Machines, m \in Models :
                  deployed[m] \in Live /\ FolderOf[m] \in disks[n] => FolderOf[m] \in disks'[n]]_inventoryVars
    BY StepInventoryInv DEF StepFine, WeightsStay
  <1> QED BY <1>1, <1>2, <1>3, <1>4, <1>5, InitInventoryInv, PTL
          DEF InventorySpec, RevisionHonest, RowsKept, WeightsInUse

(* With one reading at a time, a reading is skipped only when the rows say *)
(* the same (refresh_cache()), and the promise is whole.  The steps of two *)
(* readings interleave otherwise: one stores the rows of a node that the   *)
(* other, which measured before that node joined, then drops.              *)
THEOREM InventoryKeepsItsPromise == ASSUME OnePoll PROVE InventorySpec => InventoryPromise
  <1>1. InventoryInv /\ DigestTold /\ [InventoryWorld \/ InventoryStep]_inventoryVars => InventoryInv' /\ DigestTold'
    BY StepInventoryInv, StepDigestTold
  <1>2. DigestTold => SkippedIsStored
    BY DEF DigestTold, SkippedIsStored
  <1> QED BY <1>1, <1>2, InitInventoryInv, TablesHold, PTL DEF InventorySpec, InventoryPromise

----------------------------------------------------------------------------
(* The cache of resolutions.                                               *)
Revisions == {q.rev : q \in ResolveRequests} \cup Commits
Keys == Repos \X Revisions \X Overrides
Resolutions ==
    [kind: {"hub", "gguf", "dir"}, of: Commits, record: Commits \cup {"none"}, override: Overrides,
     asked: SUBSET Engines, at: 0 .. LastTick]
Fetches == [at: {"fetching"}, key: Keys, config: Commits \cup {"unread"}, record: Commits \cup {"unread", "none"}]
CallReplies == [at: {"answered"}, key: Keys, res: Resolutions \cup {NoHit}, cached: BOOLEAN, when: 0 .. LastTick]

CacheTyped ==
    /\ upstream \in [Repos -> Commits] /\ ticks \in 0 .. LastTick
    /\ leftAt \in [Repos -> [Commits -> Int]]
    /\ probedImages \subseteq Engines
    /\ DOMAIN files \subseteq Keys /\ \A k \in DOMAIN files : files[k] \in Resolutions
    /\ refused \in BOOLEAN /\ offline \in BOOLEAN

(* v was what r held at t or has been since.                               *)
HeldSince(r, v, t) == v = upstream[r] \/ leftAt[r][v] >= t

(* What is kept under a floating ref was the head when it was read.        *)
Sound(k, res) ==
    /\ res.at <= ticks
    /\ k[2] \notin Commits => HeldSince(k[1], res.of, res.at)
    /\ res.override = k[3] /\ res.kind = RepoKind[k[1]]

(* The file is as recent as the memory unless one could not be written.    *)
Backed(k, res) == ~refused => k \in DOMAIN files /\ files[k].at >= res.at

OneEach(mem) == \A i, j \in DOMAIN mem : mem[i][1] = mem[j][1] => i = j

Shelved(mem) ==
    /\ mem \in Seq(Keys \X Resolutions) /\ Len(mem) <= MemoryEntries /\ OneEach(mem)
    /\ \A e \in ToSet(mem) : Sound(e[1], e[2]) /\ Backed(e[1], e[2])

FilesSound == \A k \in DOMAIN files : Sound(k, files[k])

LEMMA RemoveAtFacts ==
    ASSUME NEW E, NEW s \in Seq(E), NEW i \in 1 .. Len(s)
    PROVE  /\ RemoveAt(s, i) \in Seq(E) /\ Len(RemoveAt(s, i)) = Len(s) - 1
           /\ \A j \in 1 .. Len(s) - 1 : RemoveAt(s, i)[j] = IF j < i THEN s[j] ELSE s[j + 1]
  <1> DEFINE a == SubSeq(s, 1, i - 1)
             b == SubSeq(s, i + 1, Len(s))
             all == a \o b
  <1>1. a \in Seq(E) /\ Len(a) = i - 1 /\ \A j \in 1 .. i - 1 : a[j] = s[j]
    OBVIOUS
  <1>2. b \in Seq(E) /\ Len(b) = Len(s) - i /\ \A j \in 1 .. Len(s) - i : b[j] = s[i + j]
    OBVIOUS
  <1>3. RemoveAt(s, i) = all
    BY DEF RemoveAt
  <1> HIDE DEF a, b
  <1>4. /\ all \in Seq(E) /\ Len(all) = Len(a) + Len(b)
        /\ \A j \in 1 .. Len(a) + Len(b) : all[j] = IF j <= Len(a) THEN a[j] ELSE b[j - Len(a)]
    BY <1>1, <1>2, ConcatProperties
  <1> HIDE DEF a, b
  <1>5. ASSUME NEW j \in 1 .. Len(s) - 1 PROVE all[j] = IF j < i THEN s[j] ELSE s[j + 1]
    <2>1. CASE j < i
      BY <2>1, <1>1, <1>2, <1>4
    <2>2. CASE ~(j < i)
      <3>1. j - (i - 1) \in 1 .. Len(s) - i /\ i + (j - (i - 1)) = j + 1
        BY <2>2
      <3>2. all[j] = b[j - (i - 1)]
        BY <3>1, <2>2, <1>1, <1>2, <1>4
      <3> QED BY <3>1, <3>2, <2>2, <1>2
    <2> QED BY <2>1, <2>2
  <1>6. Len(all) = Len(s) - 1 /\ all \in Seq(E)
    BY <1>1, <1>2, <1>4
  <1> HIDE DEF all
  <1> QED BY <1>3, <1>5, <1>6

LEMMA WithoutFacts ==
    ASSUME NEW E, NEW mem \in Seq(E), OneEach(mem), NEW k
    PROVE  /\ Without(mem, k) \in Seq(E) /\ Len(Without(mem, k)) <= Len(mem) /\ OneEach(Without(mem, k))
           /\ ToSet(Without(mem, k)) \subseteq ToSet(mem)
           /\ \A i \in DOMAIN Without(mem, k) : Without(mem, k)[i][1] # k
  <1> DEFINE those == {i \in DOMAIN mem : mem[i][1] = k}
             i == CHOOSE x \in those : TRUE
             out == RemoveAt(mem, i)
  <1>1. CASE those = {}
    <2>1. Without(mem, k) = mem
      BY <1>1 DEF Without
    <2>2. \A x \in DOMAIN mem : mem[x][1] # k
      BY <1>1
    <2> QED BY <2>1, <2>2
  <1>2. CASE those # {}
    <2>1. Without(mem, k) = out
      BY <1>2 DEF Without
    <2>2. i \in those
      BY <1>2
    <2>3. i \in 1 .. Len(mem) /\ mem[i][1] = k
      BY <2>2
    <2> HIDE DEF those, i
    <2>4. /\ out \in Seq(E) /\ Len(out) = Len(mem) - 1
          /\ \A j \in 1 .. Len(mem) - 1 : out[j] = IF j < i THEN mem[j] ELSE mem[j + 1]
      BY <2>3, RemoveAtFacts
    <2> HIDE DEF out
    <2>5. DOMAIN out = 1 .. Len(mem) - 1 /\ DOMAIN mem = 1 .. Len(mem) /\ Len(mem) \in Nat
      BY <2>4
    <2>6. ASSUME NEW j \in DOMAIN out
          PROVE  \E x \in 1 .. Len(mem) : x # i /\ x = (IF j < i THEN j ELSE j + 1) /\ out[j] = mem[x]
      BY <2>3, <2>4, <2>5
    <2>7. ASSUME NEW a \in DOMAIN out, NEW b \in DOMAIN out, out[a][1] = out[b][1] PROVE a = b
      <3>1. PICK x \in 1 .. Len(mem) : x # i /\ x = (IF a < i THEN a ELSE a + 1) /\ out[a] = mem[x]
        BY <2>6
      <3>2. PICK y \in 1 .. Len(mem) : y # i /\ y = (IF b < i THEN b ELSE b + 1) /\ out[b] = mem[y]
        BY <2>6
      <3>3. x = y
        BY <3>1, <3>2, <2>5, <2>7 DEF OneEach
      <3> QED BY <3>1, <3>2, <3>3, <2>3, <2>5
    <2>8. \A j \in DOMAIN out : out[j][1] # k
      <3> SUFFICES ASSUME NEW j \in DOMAIN out, out[j][1] = k PROVE FALSE
        OBVIOUS
      <3>1. PICK x \in 1 .. Len(mem) : x # i /\ out[j] = mem[x]
        BY <2>6
      <3> QED BY <3>1, <2>3, <2>5 DEF OneEach
    <2>9. ToSet(out) \subseteq ToSet(mem)
      BY <2>5, <2>6 DEF ToSet
    <2> QED BY <2>1, <2>4, <2>5, <2>7, <2>8, <2>9 DEF OneEach
  <1> QED BY <1>1, <1>2

(* _remember() keeps what was there, or less, and what it was given.       *)
LEMMA RememberFacts ==
    ASSUME NEW E, NEW mem \in Seq(E), OneEach(mem), Len(mem) <= MemoryEntries, NEW k, NEW res, <<k, res>> \in E
    PROVE  /\ Remember(mem, k, res) \in Seq(E) /\ Len(Remember(mem, k, res)) <= MemoryEntries
           /\ OneEach(Remember(mem, k, res))
           /\ ToSet(Remember(mem, k, res)) \subseteq ToSet(mem) \cup {<<k, res>>}
  <1> DEFINE w == Without(mem, k)
             grown == Append(w, <<k, res>>)
             out == Remember(mem, k, res)
  <1>1. /\ w \in Seq(E) /\ Len(w) <= Len(mem) /\ OneEach(w) /\ ToSet(w) \subseteq ToSet(mem)
        /\ \A i \in DOMAIN w : w[i][1] # k
    BY WithoutFacts
  <1>2. out = IF Len(grown) > MemoryEntries THEN Tail(grown) ELSE grown
    BY DEF Remember
  <1> HIDE DEF w, out
  <1>3. grown \in Seq(E) /\ Len(grown) = Len(w) + 1
    BY <1>1
  <1>4. \A i \in DOMAIN grown : grown[i] = IF i = Len(w) + 1 THEN <<k, res>> ELSE w[i]
    BY <1>1
  <1>5. OneEach(grown)
    <2> SUFFICES ASSUME NEW a \in DOMAIN grown, NEW b \in DOMAIN grown, grown[a][1] = grown[b][1] PROVE a = b
      BY DEF OneEach
    <2>1. DOMAIN grown = 1 .. Len(w) + 1 /\ DOMAIN w = 1 .. Len(w) /\ Len(w) \in Nat
      BY <1>1, <1>3
    <2>2. CASE a = Len(w) + 1 /\ b # Len(w) + 1
      BY <2>1, <2>2, <1>1, <1>4
    <2>3. CASE b = Len(w) + 1 /\ a # Len(w) + 1
      BY <2>1, <2>3, <1>1, <1>4
    <2>4. CASE b # Len(w) + 1 /\ a # Len(w) + 1
      <3>1. a \in DOMAIN w /\ b \in DOMAIN w
        BY <2>1, <2>4
      <3>2. grown[a] = w[a] /\ grown[b] = w[b]
        BY <2>4, <1>4
      <3> QED BY <3>1, <3>2, <1>1 DEF OneEach
    <2> QED BY <2>2, <2>3, <2>4
  <1>6. ToSet(grown) \subseteq ToSet(mem) \cup {<<k, res>>}
    <2>1. \A i \in DOMAIN grown : i # Len(w) + 1 => i \in DOMAIN w
      BY <1>1, <1>3
    <2>2. \A i \in DOMAIN w : w[i] \in ToSet(mem)
      BY <1>1 DEF ToSet
    <2>3. ASSUME NEW i \in DOMAIN grown PROVE grown[i] \in ToSet(mem) \cup {<<k, res>>}
      BY <2>1, <2>2, <1>4
    <2> QED BY <2>3 DEF ToSet
  <1> HIDE DEF grown
  <1>7. CASE Len(grown) > MemoryEntries
    <2>1. out = Tail(grown)
      BY <1>2, <1>7
    <2>2. Len(w) \in Nat /\ Len(mem) \in Nat /\ grown # << >> /\ MemoryEntries \in Nat
      BY <1>1, <1>3, ResolverAssumption
    <2>3. out \in Seq(E) /\ Len(out) = Len(w) /\ \A i \in 1 .. Len(w) : out[i] = grown[i + 1]
      BY <2>1, <2>2, <1>3
    <2>4. DOMAIN out = 1 .. Len(w) /\ DOMAIN grown = 1 .. Len(w) + 1
      BY <2>3, <1>3
    <2>5. OneEach(out)
      <3> SUFFICES ASSUME NEW a \in DOMAIN out, NEW b \in DOMAIN out, out[a][1] = out[b][1] PROVE a = b
        BY DEF OneEach
      <3>1. a + 1 \in DOMAIN grown /\ b + 1 \in DOMAIN grown /\ a \in Int /\ b \in Int
        BY <2>2, <2>4
      <3>2. grown[a + 1][1] = grown[b + 1][1]
        BY <2>3, <2>4
      <3> QED BY <3>1, <3>2, <1>5 DEF OneEach
    <2>6. ToSet(out) \subseteq ToSet(grown)
      BY <2>2, <2>3, <2>4 DEF ToSet
    <2> QED BY <2>2, <2>3, <2>5, <2>6, <1>1, <1>6 DEF out
  <1>8. CASE ~(Len(grown) > MemoryEntries)
    <2>1. out = grown
      BY <1>2, <1>8
    <2>2. Len(grown) \in Nat /\ MemoryEntries \in Nat
      BY <1>1, <1>3, ResolverAssumption
    <2> QED BY <2>1, <2>2, <1>3, <1>5, <1>6, <1>8 DEF out
  <1> QED BY <1>7, <1>8

(* What a lookup leaves on the shelf and what it returns are as sound as   *)
(* what was there, and a file that is recent enough is found.              *)
LEMMA GetFacts ==
    ASSUME CacheTyped, FilesSound, NEW mem, Shelved(mem), NEW k
    PROVE  /\ Shelved(Get(mem, k).memory)
           /\ Get(mem, k).hit # NoHit =>
                 /\ Get(mem, k).hit \in Resolutions /\ ~Expired(Get(mem, k).hit, k[2])
                 /\ Sound(k, Get(mem, k).hit) /\ Backed(k, Get(mem, k).hit)
           /\ k \in DOMAIN files /\ ~Expired(files[k], k[2]) => Get(mem, k).hit # NoHit
  <1> DEFINE those == {e[2] : e \in {x \in ToSet(mem) : x[1] = k}}
             fresh == {res \in those : ~Expired(res, k[2])}
             onFile == IF k \in DOMAIN files /\ ~Expired(files[k], k[2]) THEN {files[k]} ELSE {}
             found == IF fresh # {} THEN fresh ELSE onFile
             hit == CHOOSE x \in found : TRUE
  <1>1. Get(mem, k) = IF found = {} THEN [memory |-> Without(mem, k), hit |-> NoHit]
                      ELSE [memory |-> Remember(mem, k, hit), hit |-> hit]
    BY DEF Get
  <1>2. mem \in Seq(Keys \X Resolutions) /\ OneEach(mem) /\ Len(mem) <= MemoryEntries
    BY DEF Shelved
  <1>3. \A e \in ToSet(mem) : e \in Keys \X Resolutions
    BY <1>2 DEF ToSet
  <1>4. ASSUME k \in Keys, NEW res \in Resolutions, Sound(k, res), Backed(k, res) PROVE Shelved(Remember(mem, k, res))
    <2>1. <<k, res>> \in Keys \X Resolutions
      BY <1>4
    <2> DEFINE out == Remember(mem, k, res)
    <2>2. /\ out \in Seq(Keys \X Resolutions) /\ Len(out) <= MemoryEntries /\ OneEach(out)
          /\ ToSet(out) \subseteq ToSet(mem) \cup {<<k, res>>}
      BY <1>2, <2>1, RememberFacts
    <2> HIDE DEF out
    <2>3. ASSUME NEW e \in ToSet(out) PROVE Sound(e[1], e[2]) /\ Backed(e[1], e[2])
      <3>1. CASE e \in ToSet(mem)
        BY <3>1 DEF Shelved
      <3>2. CASE e = <<k, res>>
        BY <3>2, <1>4
      <3> QED BY <3>1, <3>2, <2>2
    <2> QED BY <2>2, <2>3 DEF Shelved, out
  <1>5. NoHit \notin Resolutions
    BY DEF NoHit, Resolutions
  <1>6. ASSUME NEW res \in found
        PROVE  k \in Keys /\ res \in Resolutions /\ ~Expired(res, k[2]) /\ Sound(k, res) /\ Backed(k, res)
    <2>1. CASE res \in fresh
      <3>1. ~Expired(res, k[2])
        BY <2>1
      <3>2. PICK e \in ToSet(mem) : e[1] = k /\ e[2] = res
        BY <2>1
      <3>3. k \in Keys /\ res \in Resolutions
        BY <3>2, <1>3
      <3>4. Sound(k, res) /\ Backed(k, res)
        BY <3>2 DEF Shelved
      <3> QED BY <3>1, <3>3, <3>4
    <2>2. CASE res \in onFile
      <3>1. k \in DOMAIN files /\ ~Expired(files[k], k[2]) /\ res = files[k]
        BY <2>2
      <3> HIDE DEF fresh, onFile
      <3>2. k \in Keys /\ res \in Resolutions /\ ~Expired(res, k[2]) /\ Sound(k, res)
        BY <3>1 DEF CacheTyped, FilesSound
      <3>3. Backed(k, res)
        BY <3>1, <3>2 DEF Backed, Resolutions
      <3> QED BY <3>2, <3>3
    <2> QED BY <2>1, <2>2
  <1>7. CASE found # {}
    <2>1. hit \in found
      BY <1>7
    <2> HIDE DEF found, hit
    <2>2. Get(mem, k).memory = Remember(mem, k, hit) /\ Get(mem, k).hit = hit
      BY <1>1, <1>7
    <2>3. k \in Keys /\ hit \in Resolutions /\ ~Expired(hit, k[2]) /\ Sound(k, hit) /\ Backed(k, hit)
      BY <2>1, <1>6
    <2>4. Shelved(Remember(mem, k, hit))
      BY <2>3, <1>4
    <2> QED BY <2>2, <2>3, <2>4, <1>5
  <1>8. CASE found = {}
    <2>1. ~(k \in DOMAIN files /\ ~Expired(files[k], k[2]))
      BY <1>8
    <2> DEFINE out == Without(mem, k)
    <2>2. /\ out \in Seq(Keys \X Resolutions) /\ Len(out) <= Len(mem) /\ OneEach(out)
          /\ ToSet(out) \subseteq ToSet(mem)
      BY <1>2, WithoutFacts
    <2> HIDE DEF found, hit
    <2>3. Get(mem, k).memory = out /\ Get(mem, k).hit = NoHit
      BY <1>1, <1>8
    <2> HIDE DEF out
    <2>4. Len(out) <= MemoryEntries
      BY <2>2, <1>2, ResolverAssumption
    <2>5. Shelved(out)
      BY <2>2, <2>4 DEF Shelved
    <2> QED BY <2>1, <2>3, <2>5
  <1> QED BY <1>7, <1>8

----------------------------------------------------------------------------
(* The callers.                                                            *)

CallsTyped ==
    /\ resolving = [c \in ResolveCalls |-> resolving[c]]
    /\ \A c \in ResolveCalls :
          \/ resolving[c] = NotAsking
          \/ resolving[c] \in Fetches
          \/ resolving[c] \in CallReplies
          \/ resolving[c].at = "checked" /\ resolving[c].key \in Keys /\ resolving[c].when \in 0 .. LastTick

(* What a fetch has read is the head still, or was until now: the clock    *)
(* waits for it.                                                           *)
FetchOK(c) ==
    resolving[c].at = "fetching" =>
        (resolving[c].key[2] \notin Commits /\ resolving[c].config # "unread"
            => HeldSince(resolving[c].key[1], resolving[c].config, ticks))

(* An answer is sound, and one of this moment is fresh.                    *)
Fresh(r, v) == v = upstream[r] \/ (leftAt[r][v] >= ticks - Ttl /\ Ttl > 0) \/ leftAt[r][v] >= ticks
AnswerOK(c) ==
    c \in Replied =>
        /\ resolving[c].res.override = resolving[c].key[3]
        /\ resolving[c].res.kind = RepoKind[resolving[c].key[1]]
        /\ resolving[c].when <= ticks
        /\ resolving[c].key[2] \notin Commits /\ resolving[c].when = ticks
              => Fresh(resolving[c].key[1], resolving[c].res.of)

CacheInv ==
    /\ CacheTyped /\ FilesSound /\ Shelved(shelf) /\ CallsTyped
    /\ \A c \in ResolveCalls : FetchOK(c) /\ AnswerOK(c)

(* Whatever happens outside, what was held since t still was.              *)
LEMMA HeldStays ==
    ASSUME CacheTyped, NEW r \in Repos, NEW v \in Commits, NEW t \in Int, t <= ticks, HeldSince(r, v, t),
           (UNCHANGED <<upstream, leftAt>>) \/ (\E x \in Repos, y \in Commits : Push(x, y))
    PROVE  HeldSince(r, v, t)'
  <1>1. CASE UNCHANGED <<upstream, leftAt>>
    BY <1>1 DEF HeldSince
  <1>2. CASE \E x \in Repos, y \in Commits : Push(x, y)
    <2>1. PICK x \in Repos, y \in Commits : Push(x, y)
      BY <1>2
    <2>2. upstream' = [upstream EXCEPT ![x] = y] /\ leftAt' = [leftAt EXCEPT ![x][upstream[x]] = ticks]
      BY <2>1 DEF Push
    <2>3. upstream[r] # v => leftAt[r][v] >= t
      BY DEF HeldSince
    <2>4. upstream \in [Repos -> Commits] /\ leftAt \in [Repos -> [Commits -> Int]] /\ ticks \in Int
      BY DEF CacheTyped
    <2>5. leftAt'[r][v] = IF x = r /\ upstream[x] = v THEN ticks ELSE leftAt[r][v]
      BY <2>2, <2>4
    <2>6. upstream'[r] = IF x = r THEN y ELSE upstream[r]
      BY <2>2, <2>4
    <2> QED BY <2>3, <2>4, <2>5, <2>6 DEF HeldSince
  <1> QED BY <1>1, <1>2

(* A step that is not the clock's or the world's, and is of one caller.    *)
Aside == UNCHANGED <<upstream, ticks, leftAt, probedImages, offline>>
Filed == UNCHANGED <<files, refused>>

LEMMA StepTyped == ASSUME CacheInv, Aside, Filed PROVE CacheTyped' /\ FilesSound'
  BY DEF CacheInv, CacheTyped, FilesSound, Sound, HeldSince, Aside, Filed

LEMMA StepShelved ==
    ASSUME Aside, Filed, NEW mem, Shelved(mem), shelf' = mem PROVE Shelved(shelf)'
  BY DEF Shelved, Sound, Backed, HeldSince, Aside, Filed

(* A caller whose record does not change is as good as it was.             *)
LEMMA OthersStay ==
    ASSUME CacheInv, Aside, NEW c \in ResolveCalls, resolving'[c] = resolving[c]
    PROVE  FetchOK(c)' /\ AnswerOK(c)'
  <1>1. FetchOK(c) /\ AnswerOK(c)
    BY DEF CacheInv
  <1>2. FetchOK(c)'
    BY <1>1 DEF FetchOK, HeldSince, Aside
  <1>3. AnswerOK(c)'
    BY <1>1 DEF AnswerOK, Fresh, Replied, Aside
  <1> QED BY <1>2, <1>3

LEMMA ResolveCallStep ==
    ASSUME CacheInv, Aside, NEW c \in ResolveCalls, NEW call, resolving' = [resolving EXCEPT ![c] = call],
           \/ call = NotAsking
           \/ call \in Fetches
           \/ call \in CallReplies
           \/ call.at = "checked" /\ call.key \in Keys /\ call.when \in 0 .. LastTick,
           call \in Fetches /\ call.key[2] \notin Commits /\ call.config # "unread"
               => HeldSince(call.key[1], call.config, ticks),
           call \in CallReplies /\ call.res # NoHit =>
               /\ call.res.override = call.key[3] /\ call.res.kind = RepoKind[call.key[1]] /\ call.when = ticks
               /\ call.key[2] \notin Commits => Fresh(call.key[1], call.res.of)
    PROVE  CallsTyped' /\ \A x \in ResolveCalls : FetchOK(x)' /\ AnswerOK(x)'
  <1>1. resolving = [x \in ResolveCalls |-> resolving[x]]
    BY DEF CacheInv, CallsTyped
  <1>2. /\ resolving' = [x \in ResolveCalls |-> resolving'[x]]
        /\ \A x \in ResolveCalls : resolving'[x] = IF x = c THEN call ELSE resolving[x]
    BY <1>1
  <1>3. CallsTyped'
    BY <1>2 DEF CacheInv, CallsTyped
  <1>4. ASSUME NEW x \in ResolveCalls, x # c PROVE FetchOK(x)' /\ AnswerOK(x)'
    BY <1>2, <1>4, OthersStay
  <1>5. FetchOK(c)'
    <2> SUFFICES ASSUME call.at = "fetching", call.key[2] \notin Commits, call.config # "unread"
                 PROVE  HeldSince(call.key[1], call.config, ticks)'
      BY <1>2 DEF FetchOK
    <2>1. call \in Fetches
      BY DEF NotAsking, CallReplies
    <2> QED BY <2>1 DEF HeldSince, Aside
  <1>6. AnswerOK(c)'
    <2> SUFFICES ASSUME call.at = "answered", call.res # NoHit
                 PROVE  /\ call.res.override = call.key[3] /\ call.res.kind = RepoKind[call.key[1]]
                        /\ call.when <= ticks'
                        /\ call.key[2] \notin Commits /\ call.when = ticks' => Fresh(call.key[1], call.res.of)'
      BY <1>2 DEF AnswerOK, Replied, NoHit
    <2>1. call \in CallReplies
      BY DEF NotAsking, Fetches
    <2>2. ticks' = ticks /\ ticks \in Int
      BY DEF Aside, CacheInv, CacheTyped
    <2> QED BY <2>1, <2>2 DEF Fresh, Aside
  <1> QED BY <1>3, <1>4, <1>5, <1>6

(* The lookup of k is sound enough to answer with.                         *)
LEMMA HitIsFresh ==
    ASSUME CacheInv, NEW k \in Keys, NEW res \in Resolutions, Sound(k, res), ~Expired(res, k[2]), k[2] \notin Commits
    PROVE  Fresh(k[1], res.of)
  <1>1. Ttl > 0 /\ ticks - res.at <= Ttl
    BY ResolverAssumption DEF Expired, Resolutions, CacheInv, CacheTyped
  <1>2. res.of = upstream[k[1]] \/ leftAt[k[1]][res.of] >= res.at
    BY DEF Sound, HeldSince
  <1>3. leftAt[k[1]][res.of] \in Int /\ res.at \in Int /\ ticks \in Int /\ Ttl \in Int
    BY ResolverAssumption DEF CacheInv, CacheTyped, Keys, Resolutions
  <1> QED BY <1>1, <1>2, <1>3 DEF Fresh

LEMMA AskedTyped ==
    ASSUME NEW q \in ResolveRequests
    PROVE  /\ Key(q.repo, q.rev, q.override) \in Keys /\ q.repo \in Repos /\ q.refresh \in BOOLEAN
           /\ Key(q.repo, q.rev, q.override)[1] = q.repo /\ Key(q.repo, q.rev, q.override)[2] = q.rev
           /\ Key(q.repo, q.rev, q.override)[3] = q.override
  BY ResolverAssumption DEF Key, Keys, Revisions

LEMMA MadeTyped ==
    ASSUME CacheTyped, NEW k \in Keys, NEW of \in Commits, NEW rec \in Commits \cup {"none"}
    PROVE  /\ Made(k, of, rec) \in Resolutions /\ Made(k, of, rec).of = of /\ Made(k, of, rec).at = ticks
           /\ Made(k, of, rec).override = k[3] /\ Made(k, of, rec).kind = RepoKind[k[1]]
           /\ Made(k, of, rec) # NoHit
  BY ResolverAssumption DEF Made, Resolutions, Keys, CacheTyped, NoHit

LEMMA ResolveFullKeeps ==
    ASSUME CacheInv, NEW c \in ResolveCalls, NEW q \in ResolveRequests,
           ResolveFull(c, q.repo, q.rev, q.override, q.refresh)
    PROVE  CacheInv'
  <1> DEFINE k == Key(q.repo, q.rev, q.override)
             got == IF q.refresh THEN [memory |-> shelf, hit |-> NoHit] ELSE Get(shelf, k)
  <1>1. /\ k \in Keys /\ q.repo \in Repos /\ q.refresh \in BOOLEAN
        /\ k[1] = q.repo /\ k[2] = q.rev /\ k[3] = q.override
    BY AskedTyped
  <1>2. Aside /\ Filed
    BY DEF ResolveFull, Aside, Filed
  <1>3. CacheTyped' /\ FilesSound'
    BY <1>2, StepTyped
  <1>4. CacheTyped /\ FilesSound /\ Shelved(shelf)
    BY DEF CacheInv
  <1>5. CASE RepoKind[q.repo] = "dir"
    <2> DEFINE made == Made(k, upstream[q.repo], "none")
               call == ResolveAnswer(k, made, FALSE)
    <2>1. resolving' = [resolving EXCEPT ![c] = call] /\ shelf' = shelf
      BY <1>5 DEF ResolveFull
    <2>2. upstream[q.repo] \in Commits
      BY <1>1, <1>4 DEF CacheTyped
    <2>3. /\ made \in Resolutions /\ made.of = upstream[q.repo] /\ made.override = k[3]
          /\ made.kind = RepoKind[k[1]] /\ made # NoHit
      BY <1>1, <1>4, <2>2, MadeTyped
    <2> HIDE DEF made, k
    <2>4. call \in CallReplies /\ call.key = k /\ call.res = made /\ call.when = ticks
      BY <1>1, <1>4, <2>3 DEF ResolveAnswer, CallReplies, CacheTyped
    <2>5. Fresh(call.key[1], call.res.of)
      BY <1>1, <2>3, <2>4 DEF Fresh
    <2>6. call \notin Fetches
      BY <2>4 DEF Fetches, CallReplies
    <2> HIDE DEF call
    <2>7. CallsTyped' /\ \A x \in ResolveCalls : FetchOK(x)' /\ AnswerOK(x)'
      BY <1>2, <2>1, <2>3, <2>4, <2>5, <2>6, ResolveCallStep
    <2>8. Shelved(shelf)'
      BY <1>2, <1>4, <2>1, StepShelved
    <2> QED BY <1>3, <2>7, <2>8 DEF CacheInv
  <1>6. CASE RepoKind[q.repo] # "dir"
    <2> DEFINE call == IF got.hit # NoHit THEN ResolveAnswer(k, got.hit, TRUE)
                       ELSE IF offline THEN Refusal(k) ELSE Asking(q.repo, q.rev, q.override)
    <2>1. resolving' = [resolving EXCEPT ![c] = call] /\ shelf' = got.memory
      BY <1>6 DEF ResolveFull
    <2>2. /\ Shelved(got.memory)
          /\ got.hit # NoHit => got.hit \in Resolutions /\ ~Expired(got.hit, k[2]) /\ Sound(k, got.hit)
      <3>1. CASE q.refresh
        BY <3>1, <1>4
      <3>2. CASE ~q.refresh
        <4>1. got = Get(shelf, k)
          BY <3>2
        <4> HIDE DEF got, k
        <4> QED BY <4>1, <1>1, <1>4, GetFacts
      <3> QED BY <3>1, <3>2, <1>1
    <2> HIDE DEF got
    <2>3. CASE got.hit # NoHit
      <3>1. call = ResolveAnswer(k, got.hit, TRUE)
        BY <2>3
      <3> HIDE DEF call, k
      <3>2. call \in CallReplies /\ call.key = k /\ call.res = got.hit /\ call.when = ticks
        BY <3>1, <1>1, <1>4, <2>2, <2>3 DEF ResolveAnswer, CallReplies, CacheTyped
      <3>3. call.key[2] \notin Commits => Fresh(call.key[1], call.res.of)
        BY <3>2, <2>2, <2>3, <1>1, HitIsFresh
      <3>4. call \notin Fetches
        BY <3>2 DEF Fetches, CallReplies
      <3>5. got.hit.override = k[3] /\ got.hit.kind = RepoKind[k[1]]
        BY <2>2, <2>3 DEF Sound
      <3>6. CallsTyped' /\ \A x \in ResolveCalls : FetchOK(x)' /\ AnswerOK(x)'
        BY <1>2, <2>1, <3>2, <3>3, <3>4, <3>5, ResolveCallStep
      <3>7. Shelved(shelf)'
        BY <1>2, <2>1, <2>2, StepShelved
      <3> QED BY <1>3, <3>6, <3>7 DEF CacheInv
    <2>4. CASE got.hit = NoHit /\ offline
      <3>1. call = Refusal(k)
        BY <2>4
      <3> HIDE DEF call, k
      <3>2. call \in CallReplies /\ call.res = NoHit
        BY <3>1, <1>1, <1>4 DEF Refusal, ResolveAnswer, CallReplies, CacheTyped
      <3>3. call \notin Fetches
        BY <3>2 DEF Fetches, CallReplies
      <3>6. CallsTyped' /\ \A x \in ResolveCalls : FetchOK(x)' /\ AnswerOK(x)'
        BY <1>2, <2>1, <3>2, <3>3, ResolveCallStep
      <3>7. Shelved(shelf)'
        BY <1>2, <2>1, <2>2, StepShelved
      <3> QED BY <1>3, <3>6, <3>7 DEF CacheInv
    <2>5. CASE got.hit = NoHit /\ ~offline
      <3>1. call = Asking(q.repo, q.rev, q.override)
        BY <2>5
      <3> HIDE DEF call
      <3>2. call \in Fetches /\ call.config = "unread"
        BY <3>1, <1>1 DEF Asking, Fetches
      <3> HIDE DEF k
      <3>3. call \notin CallReplies
        BY <3>2 DEF Fetches, CallReplies
      <3>6. CallsTyped' /\ \A x \in ResolveCalls : FetchOK(x)' /\ AnswerOK(x)'
        BY <1>2, <2>1, <3>2, <3>3, ResolveCallStep
      <3>7. Shelved(shelf)'
        BY <1>2, <2>1, <2>2, StepShelved
      <3> QED BY <1>3, <3>6, <3>7 DEF CacheInv
    <2> QED BY <2>3, <2>4, <2>5
  <1> QED BY <1>5, <1>6

LEMMA ReadKeeps ==
    ASSUME CacheInv, NEW c \in ResolveCalls, NEW found \in BOOLEAN, ReadConfig(c, found) \/ ReadModelInfo(c, found)
    PROVE  CacheInv'
  <1> DEFINE old == resolving[c]
             now == AtRevision(old.key)
  <1>1. Aside /\ Filed /\ shelf' = shelf
    BY DEF ReadConfig, ReadModelInfo, Aside, Filed
  <1>2. CacheTyped' /\ FilesSound' /\ Shelved(shelf)'
    BY <1>1, StepTyped, StepShelved DEF CacheInv
  <1>3. old \in Fetches
    BY DEF ReadConfig, ReadModelInfo, CacheInv, CallsTyped, NotAsking, CallReplies
  <1>4. now \in Commits /\ (old.key[2] \notin Commits => now = upstream[old.key[1]])
    <2>1. old.key \in Keys
      BY <1>3 DEF Fetches
    <2> HIDE DEF old
    <2> QED BY <2>1 DEF AtRevision, CacheInv, CacheTyped, Keys
  <1>5. old.key[2] \notin Commits /\ old.config # "unread" => HeldSince(old.key[1], old.config, ticks)
    BY <1>3 DEF CacheInv, FetchOK, Fetches
  <1> DEFINE done(call) ==
        \/ call \in Fetches /\ (call.key[2] \notin Commits /\ call.config # "unread"
                                 => HeldSince(call.key[1], call.config, ticks))
        \/ call \in CallReplies /\ call.res = NoHit
  <1>6. \E call : resolving' = [resolving EXCEPT ![c] = call] /\ done(call)
    <2>1. CASE ReadConfig(c, found) /\ found
      <3> DEFINE call == [old EXCEPT !.config = now]
      <3>1. resolving' = [resolving EXCEPT ![c] = call]
        BY <2>1 DEF ReadConfig, CacheInv, CallsTyped
      <3> HIDE DEF old, now
      <3>2. call \in Fetches /\ call.key = old.key /\ call.config = now
        BY <1>3, <1>4 DEF Fetches
      <3>3. HeldSince(call.key[1], call.config, ticks) \/ call.key[2] \in Commits
        BY <3>2, <1>4 DEF HeldSince
      <3> QED BY <3>1, <3>2, <3>3
    <2>2. CASE ReadConfig(c, found) /\ ~found
      <3> DEFINE call == Refusal(old.key)
      <3>1. resolving' = [resolving EXCEPT ![c] = call]
        BY <2>2 DEF ReadConfig, CacheInv, CallsTyped
      <3> HIDE DEF old
      <3>2. call \in CallReplies /\ call.res = NoHit
        BY <1>3 DEF Fetches, CallReplies, Refusal, ResolveAnswer, CacheInv, CacheTyped
      <3> QED BY <3>1, <3>2
    <2>3. CASE ReadModelInfo(c, found)
      <3> DEFINE call == [old EXCEPT !.record = IF found THEN now ELSE "none"]
      <3>1. resolving' = [resolving EXCEPT ![c] = call]
        BY <2>3 DEF ReadModelInfo, CacheInv, CallsTyped
      <3> HIDE DEF old, now
      <3>2. call \in Fetches /\ call.key = old.key /\ call.config = old.config
        BY <1>3, <1>4 DEF Fetches
      <3> QED BY <3>1, <3>2, <1>5
    <2> QED BY <2>1, <2>2, <2>3
  <1>7. PICK call : resolving' = [resolving EXCEPT ![c] = call] /\ done(call)
    BY <1>6
  <1>8. Fetches \cap CallReplies = {}
    BY DEF Fetches, CallReplies
  <1>9. CallsTyped' /\ \A x \in ResolveCalls : FetchOK(x)' /\ AnswerOK(x)'
    BY <1>1, <1>7, <1>8, ResolveCallStep
  <1> QED BY <1>2, <1>9 DEF CacheInv

(* supported_by() changes no more than the order of the shelf.             *)
LEMMA SupportedKeeps ==
    ASSUME CacheInv, NEW c \in ResolveCalls, NEW e \in Engines, SupportedBy(c, e)
    PROVE  CacheInv'
  <1> DEFINE call == resolving[c]
             one == Get(shelf, Key(call.key[1], "main", "none"))
             two == Get(one.memory, Key(call.key[1], "main", Contents(call.res).dtype))
  <1>1. Aside /\ Filed
    BY DEF SupportedBy, Aside, Filed
  <1>2. CacheTyped' /\ FilesSound'
    BY <1>1, StepTyped
  <1>3. shelf' = one.memory \/ shelf' = two.memory
    BY DEF SupportedBy
  <1>4. Shelved(one.memory)
    BY GetFacts DEF CacheInv
  <1>5. Shelved(two.memory)
    <2> HIDE DEF one
    <2> QED BY <1>4, GetFacts DEF CacheInv
  <1>6. Shelved(shelf)'
    <2> HIDE DEF one, two
    <2> QED BY <1>1, <1>3, <1>4, <1>5, StepShelved
  <1>7. call \in CallReplies
    <2>1. call.at = "answered"
      BY DEF SupportedBy, Replied
    <2> QED BY <2>1 DEF CacheInv, CallsTyped, NotAsking, Fetches
  <1>8. \E level, known :
           resolving' = [resolving EXCEPT ![c] = [at |-> "checked", key |-> call.key, when |-> call.when,
                                                  level |-> level, known |-> known]]
    BY DEF SupportedBy
  <1>9. PICK level, known :
           resolving' = [resolving EXCEPT ![c] = [at |-> "checked", key |-> call.key, when |-> call.when,
                                                  level |-> level, known |-> known]]
    BY <1>8
  <1> DEFINE new == [at |-> "checked", key |-> call.key, when |-> call.when, level |-> level, known |-> known]
  <1>10. new.at = "checked" /\ new.key \in Keys /\ new.when \in 0 .. LastTick
    BY <1>7 DEF CallReplies
  <1>11. new \notin Fetches /\ new \notin CallReplies
    BY <1>10 DEF Fetches, CallReplies
  <1>12. resolving' = [resolving EXCEPT ![c] = new]
    BY <1>9
  <1> HIDE DEF new, call, one, two
  <1>13. CallsTyped' /\ \A x \in ResolveCalls : FetchOK(x)' /\ AnswerOK(x)'
    BY <1>1, <1>10, <1>11, <1>12, ResolveCallStep
  <1> QED BY <1>2, <1>6, <1>13 DEF CacheInv

LEMMA ReturnKeeps ==
    ASSUME CacheInv, NEW c \in ResolveCalls, ResolveReturns(c)
    PROVE  CacheInv'
  <1>1. Aside /\ Filed /\ shelf' = shelf /\ resolving' = [resolving EXCEPT ![c] = NotAsking]
    BY DEF ResolveReturns, Aside, Filed
  <1>2. CacheTyped' /\ FilesSound' /\ Shelved(shelf)'
    BY <1>1, StepTyped, StepShelved DEF CacheInv
  <1>3. NotAsking \notin Fetches /\ NotAsking \notin CallReplies
    BY DEF NotAsking, Fetches, CallReplies
  <1>4. CallsTyped' /\ \A x \in ResolveCalls : FetchOK(x)' /\ AnswerOK(x)'
    BY <1>1, <1>3, ResolveCallStep
  <1> QED BY <1>2, <1>4 DEF CacheInv

(* put(): in memory twice at most, on disk if it can be written.           *)
LEMMA BuildKeeps ==
    ASSUME CacheInv, NEW c \in ResolveCalls, NEW writes \in BOOLEAN, BuildAndPut(c, writes)
    PROVE  CacheInv'
  <1> DEFINE call == resolving[c]
             k == call.key
             res == Made(k, call.config, call.record)
             pinned == Key(k[1], call.record, k[3])
             also == call.record # "none" /\ call.record # k[2]
             first == Remember(shelf, k, res)
             answer == ResolveAnswer(k, res, FALSE)
             put == {k} \cup (IF also THEN {pinned} ELSE {})
  <1>1. Aside
    BY DEF BuildAndPut, Aside
  <1>2. /\ call.at = "fetching" /\ call.config # "unread" /\ call.record # "unread"
        /\ shelf' = IF also THEN Remember(first, pinned, res) ELSE first
        /\ files' = IF writes THEN [x \in DOMAIN files \cup {k} \cup (IF also THEN {pinned} ELSE {}) |->
                                      IF x \in {k} \/ (also /\ x = pinned) THEN res ELSE files[x]]
                    ELSE files
        /\ refused' = (refused \/ ~writes)
        /\ resolving' = [resolving EXCEPT ![c] = answer]
    BY DEF BuildAndPut
  <1>3. call \in Fetches
    BY <1>2 DEF CacheInv, CallsTyped, NotAsking, CallReplies
  <1>4. k \in Keys /\ call.config \in Commits /\ call.record \in Commits \cup {"none"}
    BY <1>2, <1>3 DEF Fetches
  <1>5. also => pinned \in Keys /\ pinned[1] = k[1] /\ pinned[2] \in Commits /\ pinned[3] = k[3]
    <2> HIDE DEF call
    <2> QED BY <1>4 DEF Key, Keys, Revisions
  <1>6. k[2] \notin Commits => HeldSince(k[1], call.config, ticks)
    BY <1>2 DEF CacheInv, FetchOK
  <1> HIDE DEF call
  <1>7. /\ res \in Resolutions /\ res.of = call.config /\ res.at = ticks /\ res.override = k[3]
        /\ res.kind = RepoKind[k[1]] /\ res # NoHit
    BY <1>4, MadeTyped DEF CacheInv
  <1> HIDE DEF res, k, pinned, also
  <1>8. CacheTyped /\ FilesSound /\ Shelved(shelf) /\ ticks \in Int /\ ticks <= LastTick
    BY ResolverAssumption DEF CacheInv, CacheTyped
  <1>9. \A x \in put : x \in Keys /\ Sound(x, res)
    BY <1>4, <1>5, <1>6, <1>7, <1>8 DEF Sound
  <1>10. /\ DOMAIN files' = DOMAIN files \cup (IF writes THEN put ELSE {})
         /\ \A x \in DOMAIN files' : files'[x] = IF writes /\ x \in put THEN res ELSE files[x]
    <2>1. CASE writes
      BY <2>1, <1>2
    <2>2. CASE ~writes
      BY <2>2, <1>2
    <2> QED BY <2>1, <2>2
  <1>11. CacheTyped'
    <2>1. DOMAIN files' \subseteq Keys /\ \A x \in DOMAIN files' : files'[x] \in Resolutions
      BY <1>7, <1>8, <1>9, <1>10 DEF CacheTyped
    <2>2. refused' \in BOOLEAN
      BY <1>2, <1>8 DEF CacheTyped
    <2> QED BY <2>1, <2>2, <1>1, <1>8 DEF CacheTyped, Aside
  <1>12. ASSUME NEW x, NEW r, Sound(x, r) PROVE Sound(x, r)'
    BY <1>12, <1>1 DEF Sound, HeldSince, Aside
  <1>13. FilesSound'
    <2>1. ASSUME NEW x \in DOMAIN files', NEW v, v = files'[x] PROVE Sound(x, v)'
      <3>1. Sound(x, v)
        <4> HIDE DEF put
        <4> QED BY <2>1, <1>8, <1>9, <1>10 DEF FilesSound
      <3> QED BY <3>1, <1>12
    <2> QED BY <2>1 DEF FilesSound, Sound, HeldSince
  <1> DEFINE E == Keys \X Resolutions
  <1>14. shelf \in Seq(E) /\ OneEach(shelf) /\ Len(shelf) <= MemoryEntries
    BY <1>8 DEF Shelved
  <1>15. \A x \in put : <<x, res>> \in E
    BY <1>7, <1>9
  <1>16. /\ first \in Seq(E) /\ OneEach(first) /\ Len(first) <= MemoryEntries
         /\ ToSet(first) \subseteq ToSet(shelf) \cup {<<k, res>>}
    BY <1>14, <1>15, RememberFacts
  <1> HIDE DEF first
  <1>17. /\ shelf' \in Seq(E) /\ OneEach(shelf') /\ Len(shelf') <= MemoryEntries
         /\ ToSet(shelf') \subseteq ToSet(shelf) \cup {<<x, res>> : x \in put}
    <2>1. CASE also
      <3>1. shelf' = Remember(first, pinned, res) /\ pinned \in put /\ k \in put
        BY <2>1, <1>2
      <3>2. /\ shelf' \in Seq(E) /\ OneEach(shelf') /\ Len(shelf') <= MemoryEntries
            /\ ToSet(shelf') \subseteq ToSet(first) \cup {<<pinned, res>>}
        BY <3>1, <1>15, <1>16, RememberFacts
      <3> HIDE DEF put
      <3> QED BY <3>1, <3>2, <1>16
    <2>2. CASE ~also
      <3>1. shelf' = first /\ k \in put
        BY <2>2, <1>2
      <3> HIDE DEF put
      <3> QED BY <3>1, <1>16
    <2> QED BY <2>1, <2>2
  <1>18. ASSUME NEW e \in ToSet(shelf') PROVE Sound(e[1], e[2])' /\ Backed(e[1], e[2])'
    <2>1. CASE e \in ToSet(shelf)
      <3>1. Sound(e[1], e[2]) /\ Backed(e[1], e[2]) /\ e \in E
        BY <2>1, <1>8, <1>14 DEF Shelved, ToSet
      <3>2. ASSUME ~refused' PROVE e[1] \in DOMAIN files' /\ files'[e[1]].at >= e[2].at
        <4>1. writes /\ e[1] \in DOMAIN files /\ files[e[1]].at >= e[2].at /\ e[2].at <= ticks
          BY <3>1, <3>2, <1>2 DEF Backed, Sound
        <4> HIDE DEF put
        <4>2. e[1] \in DOMAIN files'
          BY <4>1, <1>10
        <4>3. files'[e[1]] = res \/ files'[e[1]] = files[e[1]]
          BY <4>1, <4>2, <1>10
        <4>4. e[2].at \in Int
          BY <3>1 DEF Resolutions
        <4> QED BY <4>1, <4>2, <4>3, <4>4, <1>7, <1>8
      <3> QED BY <3>1, <3>2, <1>12 DEF Backed
    <2>2. CASE e \in {<<x, res>> : x \in put}
      <3> HIDE DEF put
      <3>1. e[1] \in put /\ e[2] = res
        BY <2>2
      <3>2. Sound(e[1], e[2])'
        BY <3>1, <1>9, <1>12
      <3>3. ASSUME ~refused' PROVE e[1] \in DOMAIN files' /\ files'[e[1]].at >= e[2].at
        <4>1. writes
          BY <3>3, <1>2
        <4>2. e[1] \in DOMAIN files' /\ files'[e[1]] = res
          BY <3>1, <4>1, <1>10
        <4> QED BY <4>2, <3>1, <1>7, <1>8
      <3> QED BY <3>2, <3>3 DEF Backed
    <2> HIDE DEF put
    <2> QED BY <2>1, <2>2, <1>17
  <1>19. Shelved(shelf)'
    BY <1>17, <1>18 DEF Shelved
  <1>20. answer \in CallReplies /\ answer.key = k /\ answer.res = res /\ answer.when = ticks
    BY <1>4, <1>7, <1>8 DEF ResolveAnswer, CallReplies, CacheTyped
  <1>21. answer \notin Fetches
    BY <1>20 DEF Fetches, CallReplies
  <1>22. k[2] \notin Commits => Fresh(k[1], res.of)
    BY <1>6, <1>7 DEF HeldSince, Fresh
  <1> HIDE DEF answer
  <1>23. CallsTyped' /\ \A x \in ResolveCalls : FetchOK(x)' /\ AnswerOK(x)'
    BY <1>1, <1>2, <1>7, <1>20, <1>21, <1>22, ResolveCallStep
  <1> QED BY <1>11, <1>13, <1>19, <1>23 DEF CacheInv

(* The hub, the clock, an image or another part: none of the resolver's    *)
(* own records changes.                                                    *)
Unmoved == UNCHANGED <<shelf, files, refused, offline, resolving>>

LEMMA WorldKeeps ==
    ASSUME CacheInv, Unmoved, CacheTyped', ticks <= ticks',
           ticks' = ticks \/ \A c \in ResolveCalls : resolving[c].at # "fetching",
           \/ UNCHANGED <<upstream, leftAt>>
           \/ ticks' = ticks /\ \E r \in Repos, v \in Commits : Push(r, v)
    PROVE  CacheInv'
  <1>1. /\ CacheTyped /\ FilesSound /\ Shelved(shelf) /\ CallsTyped
        /\ \A c \in ResolveCalls : FetchOK(c) /\ AnswerOK(c)
    BY DEF CacheInv
  <1>2. ticks \in Int /\ ticks' \in Int
    BY <1>1, ResolverAssumption DEF CacheTyped
  <1>3. ASSUME NEW r \in Repos, NEW v \in Commits, NEW t \in Int, t <= ticks, HeldSince(r, v, t)
        PROVE  HeldSince(r, v, t)'
    BY <1>1, <1>3, HeldStays
  <1>4. ASSUME NEW k \in Keys, NEW res \in Resolutions, Sound(k, res) PROVE Sound(k, res)'
    <2>1. res.at \in Int /\ res.of \in Commits /\ k[1] \in Repos /\ res.at <= ticks
      BY <1>4 DEF Sound, Resolutions, Keys
    <2>2. k[2] \notin Commits => HeldSince(k[1], res.of, res.at)'
      BY <2>1, <1>3, <1>4 DEF Sound
    <2>3. res.at <= ticks'
      BY <2>1, <1>2
    <2> QED BY <2>2, <2>3, <1>4 DEF Sound
  <1>5. FilesSound'
    <2>1. ASSUME NEW k \in DOMAIN files, NEW v, v = files[k] PROVE Sound(k, v)'
      <3>1. k \in Keys /\ v \in Resolutions /\ Sound(k, v)
        BY <2>1, <1>1 DEF CacheTyped, FilesSound
      <3> QED BY <3>1, <1>4
    <2> QED BY <2>1 DEF FilesSound, Unmoved, Sound, HeldSince
  <1>6. Shelved(shelf)'
    <2>1. ASSUME NEW e \in ToSet(shelf) PROVE Sound(e[1], e[2])' /\ Backed(e[1], e[2])'
      <3>1. e \in Keys \X Resolutions /\ Sound(e[1], e[2]) /\ Backed(e[1], e[2])
        BY <1>1 DEF Shelved, ToSet
      <3>2. e[1] \in Keys /\ e[2] \in Resolutions
        BY <3>1
      <3>3. Sound(e[1], e[2])'
        BY <3>1, <3>2, <1>4
      <3> QED BY <3>1, <3>3 DEF Backed, Unmoved
    <2> QED BY <1>1, <2>1 DEF Shelved, Unmoved, Sound, Backed, HeldSince, OneEach
  <1>7. CallsTyped'
    BY <1>1 DEF CallsTyped, Unmoved
  <1>8. ASSUME NEW c \in ResolveCalls PROVE FetchOK(c)'
    <2> SUFFICES ASSUME resolving[c].at = "fetching", resolving[c].key[2] \notin Commits,
                        resolving[c].config # "unread"
                 PROVE  HeldSince(resolving[c].key[1], resolving[c].config, ticks)'
      BY DEF FetchOK, Unmoved
    <2>1. resolving[c] \in Fetches
      BY <1>1 DEF CallsTyped, NotAsking, CallReplies
    <2>2. resolving[c].key[1] \in Repos /\ resolving[c].config \in Commits
      BY <2>1 DEF Fetches, Keys
    <2>3. HeldSince(resolving[c].key[1], resolving[c].config, ticks) /\ ticks' = ticks
      BY <1>1 DEF FetchOK
    <2>4. PICK r \in Repos, v \in Commits, t \in Int :
             r = resolving[c].key[1] /\ v = resolving[c].config /\ t = ticks
      BY <2>2, <1>2
    <2>5. HeldSince(r, v, t)'
      <3>1. HeldSince(r, v, t)
        BY <2>3, <2>4
      <3> QED BY <3>1, <2>4, <1>2, <1>3
    <2> QED BY <2>3, <2>4, <2>5 DEF HeldSince, Unmoved
  <1>9. ASSUME NEW c \in ResolveCalls PROVE AnswerOK(c)'
    <2> SUFFICES ASSUME resolving[c].at = "answered", resolving[c].res # NoHit
                 PROVE  AnswerOK(c)'
      BY DEF AnswerOK, Replied, Unmoved, NoHit
    <2>1. resolving[c] \in CallReplies /\ c \in Replied
      BY <1>1 DEF CallsTyped, NotAsking, Fetches, Replied
    <2> DEFINE r == resolving[c].key[1]  v == resolving[c].res.of  w == resolving[c].when
    <2>2. r \in Repos /\ v \in Commits /\ w \in Int /\ w <= ticks
      BY <2>1, <1>1 DEF CallReplies, Keys, Resolutions, AnswerOK
    <2>3. ASSUME resolving[c].key[2] \notin Commits, w = ticks' PROVE Fresh(r, v)'
      <3>1. ticks' = ticks /\ w = ticks
        BY <2>2, <2>3, <1>2
      <3>2. Fresh(r, v)
        BY <3>1, <2>1, <2>3, <1>1 DEF AnswerOK
      <3>3. CASE UNCHANGED <<upstream, leftAt>>
        BY <3>1, <3>2, <3>3 DEF Fresh, Unmoved
      <3>4. CASE \E x \in Repos, y \in Commits : Push(x, y)
        <4>1. PICK x \in Repos, y \in Commits : Push(x, y)
          BY <3>4
        <4> HIDE DEF r, v
        <4>2. upstream \in [Repos -> Commits] /\ leftAt \in [Repos -> [Commits -> Int]]
          BY <1>1 DEF CacheTyped
        <4>3. leftAt'[r][v] = IF x = r /\ upstream[x] = v THEN ticks ELSE leftAt[r][v]
          BY <4>1, <4>2, <2>2 DEF Push
        <4>4. upstream'[r] = IF x = r THEN y ELSE upstream[r]
          BY <4>1, <4>2, <2>2 DEF Push
        <4>5. v = upstream'[r] \/ (leftAt'[r][v] >= ticks' - Ttl /\ Ttl > 0) \/ leftAt'[r][v] >= ticks'
          BY <3>1, <3>2, <4>3, <4>4, <1>2 DEF Fresh
        <4> QED BY <4>5 DEF Fresh, r, v, Unmoved
      <3> QED BY <3>3, <3>4
    <2>4. w <= ticks'
      BY <2>2, <1>2
    <2> QED BY <2>1, <2>3, <2>4, <1>1 DEF AnswerOK, Unmoved, Fresh
  <1> QED BY <1>5, <1>6, <1>7, <1>8, <1>9 DEF CacheInv

LEMMA RestartKeeps ==
    ASSUME CacheInv, NEW alone \in BOOLEAN, RestartResolver(alone)
    PROVE  CacheInv'
  <1>1. UNCHANGED <<upstream, ticks, leftAt, files, refused>> /\ shelf' = << >> /\ probedImages' = {}
        /\ offline' = alone /\ resolving' = [c \in ResolveCalls |-> NotAsking]
    BY DEF RestartResolver
  <1>2. CacheTyped' /\ FilesSound'
    BY <1>1 DEF CacheInv, CacheTyped, FilesSound, Sound, HeldSince
  <1>3. Shelved(shelf)'
    <2>1. << >> \in Seq(Keys \X Resolutions) /\ Len(<< >>) = 0 /\ DOMAIN << >> = {}
      OBVIOUS
    <2>2. shelf' \in Seq(Keys \X Resolutions) /\ Len(shelf') <= MemoryEntries /\ DOMAIN shelf' = {}
      BY <1>1, <2>1, ResolverAssumption
    <2> QED BY <2>2 DEF Shelved, OneEach, ToSet
  <1>4. CallsTyped' /\ \A c \in ResolveCalls : FetchOK(c)' /\ AnswerOK(c)'
    BY <1>1 DEF CallsTyped, FetchOK, AnswerOK, Replied, NotAsking
  <1> QED BY <1>2, <1>3, <1>4 DEF CacheInv

LEMMA CacheStarts == ResolverInit => CacheInv
  <1> SUFFICES ASSUME ResolverInit PROVE CacheInv
    OBVIOUS
  <1>1. CacheTyped /\ FilesSound
    <2>1. DOMAIN files = {}
      BY DEF ResolverInit
    <2>2. -LastTick \in Int
      BY ResolverAssumption
    <2>3. leftAt \in [Repos -> [Commits -> Int]]
      BY <2>2 DEF ResolverInit
    <2>4. /\ upstream \in [Repos -> Commits] /\ ticks \in 0 .. LastTick /\ probedImages \subseteq Engines
          /\ refused \in BOOLEAN /\ offline \in BOOLEAN
      <3>1. ticks \in 0 .. LastTick
        BY ResolverAssumption DEF ResolverInit
      <3>2. refused \in BOOLEAN /\ offline \in BOOLEAN
        BY Zenon DEF ResolverInit
      <3> QED BY <3>1, <3>2 DEF ResolverInit
    <2> QED BY <2>1, <2>3, <2>4 DEF CacheTyped, FilesSound
  <1>2. Shelved(shelf)
    <2>1. << >> \in Seq(Keys \X Resolutions) /\ Len(<< >>) = 0 /\ DOMAIN << >> = {}
      OBVIOUS
    <2>2. shelf \in Seq(Keys \X Resolutions) /\ Len(shelf) <= MemoryEntries /\ DOMAIN shelf = {}
      BY <2>1, ResolverAssumption DEF ResolverInit
    <2> QED BY <2>2 DEF Shelved, OneEach, ToSet
  <1>3. CallsTyped /\ \A c \in ResolveCalls : FetchOK(c) /\ AnswerOK(c)
    BY DEF ResolverInit, CallsTyped, FetchOK, AnswerOK, Replied, NotAsking
  <1> QED BY <1>1, <1>2, <1>3 DEF CacheInv

LEMMA CacheStep == CacheInv /\ [ResolverNext]_resolverVars => CacheInv'
  <1> SUFFICES ASSUME CacheInv, [ResolverNext]_resolverVars PROVE CacheInv'
    OBVIOUS
  <1>0. CacheTyped /\ ticks \in Int
    BY ResolverAssumption DEF CacheInv, CacheTyped
  <1>1. ASSUME NEW c \in ResolveCalls, NEW q \in ResolveRequests,
               ResolveFull(c, q.repo, q.rev, q.override, q.refresh)
        PROVE  CacheInv'
    BY <1>1, ResolveFullKeeps
  <1>2. ASSUME NEW r \in Repos, NEW v \in Commits, Push(r, v) PROVE CacheInv'
    <2>1. Unmoved /\ ticks' = ticks /\ probedImages' = probedImages
      BY <1>2 DEF Push, Unmoved
    <2>2. upstream' \in [Repos -> Commits] /\ leftAt' \in [Repos -> [Commits -> Int]]
      BY <1>0, <1>2 DEF CacheTyped, Push
    <2>3. CacheTyped'
      BY <1>0, <2>1, <2>2 DEF CacheTyped, Unmoved
    <2>4. ticks <= ticks'
      BY <1>0, <2>1
    <2> QED BY <1>2, <2>1, <2>3, <2>4, WorldKeeps
  <1>3. ASSUME NEW alone \in BOOLEAN, RestartResolver(alone) PROVE CacheInv'
    BY <1>3, RestartKeeps
  <1>4. ASSUME UNCHANGED <<upstream, ticks, shelf, files, refused, offline, resolving, leftAt>>,
               probedImages' \subseteq Engines
        PROVE  CacheInv'
    <2>1. Unmoved /\ CacheTyped' /\ ticks <= ticks'
      BY <1>0, <1>4 DEF Unmoved, CacheTyped
    <2> QED BY <1>4, <2>1, WorldKeeps
  <1>5. ASSUME ResolverTicks PROVE CacheInv'
    <2>1. Unmoved /\ CacheTyped' /\ ticks <= ticks'
      BY <1>0, <1>5, ResolverAssumption DEF ResolverTicks, Unmoved, CacheTyped
    <2>2. UNCHANGED <<upstream, leftAt>> /\ \A c \in ResolveCalls : resolving[c].at # "fetching"
      BY <1>5 DEF ResolverTicks
    <2> QED BY <2>1, <2>2, WorldKeeps
  <1>6. ASSUME NEW c \in ResolveCalls, NEW found \in BOOLEAN, ReadConfig(c, found) \/ ReadModelInfo(c, found)
        PROVE  CacheInv'
    BY <1>6, ReadKeeps
  <1>7. ASSUME NEW c \in ResolveCalls, NEW writes \in BOOLEAN, BuildAndPut(c, writes) PROVE CacheInv'
    BY <1>7, BuildKeeps
  <1>8. ASSUME NEW c \in ResolveCalls, NEW e \in Engines, SupportedBy(c, e) PROVE CacheInv'
    BY <1>8, SupportedKeeps
  <1>9. ASSUME NEW c \in ResolveCalls, ResolveReturns(c) PROVE CacheInv'
    BY <1>9, ReturnKeeps
  <1>10. ASSUME NEW e \in Engines, ProbeImage(e) PROVE CacheInv'
    <2>1. UNCHANGED <<upstream, ticks, shelf, files, refused, offline, resolving, leftAt>>
          /\ probedImages' \subseteq Engines
      BY <1>0, <1>10 DEF ProbeImage, CacheTyped
    <2> QED BY <2>1, <1>4
  <1>11. ASSUME ResolverReads PROVE CacheInv'
    <2>1. UNCHANGED <<upstream, ticks, shelf, files, refused, offline, resolving, leftAt, probedImages>>
      BY <1>11 DEF ResolverReads, ReadOne, ListVariants
    <2> QED BY <2>1, <1>0, <1>4 DEF CacheTyped
  <1>12. ASSUME UNCHANGED resolverVars PROVE CacheInv'
    <2>1. UNCHANGED <<upstream, ticks, shelf, files, refused, offline, resolving, leftAt, probedImages>>
      BY <1>12 DEF resolverVars
    <2> QED BY <2>1, <1>0, <1>4 DEF CacheTyped
  <1>13. ASSUME ResolverAsk PROVE CacheInv'
    BY <1>13, <1>1, <1>2, <1>3 DEF ResolverAsk
  <1>14. ASSUME ResolverProceed PROVE CacheInv'
    BY <1>14, <1>5, <1>6, <1>7, <1>8, <1>9, <1>10 DEF ResolverProceed
  <1> QED BY <1>11, <1>12, <1>13, <1>14 DEF ResolverNext

----------------------------------------------------------------------------
LEMMA MaxOfZeroAnd == ASSUME NEW n \in Int PROVE Max({0, n}) >= 0 /\ Max({0, n}) >= n /\ Max({0, n}) \in Int
  <1>1. \E x \in {0, n} : \A y \in {0, n} : x >= y
    <2>1. CASE n >= 0
      BY <2>1
    <2>2. CASE ~(n >= 0)
      BY <2>2
    <2> QED BY <2>1, <2>2
  <1>2. Max({0, n}) \in {0, n} /\ \A y \in {0, n} : Max({0, n}) >= y
    BY <1>1 DEF Max
  <1> QED BY <1>2

LEMMA CacheTells == CacheInv => ResolverTypeOK /\ StaleAtMostTtl
  <1> SUFFICES ASSUME CacheInv PROVE ResolverTypeOK /\ StaleAtMostTtl
    OBVIOUS
  <1>1. ResolverTypeOK
    BY DEF CacheInv, CacheTyped, Shelved, OneEach, CallsTyped, ResolverTypeOK, NotAsking, Fetches, CallReplies
  <1>2. ASSUME NEW c \in Replied, resolving[c].key[2] = "main", resolving[c].when = ticks
        PROVE  \/ resolving[c].res.of = upstream[resolving[c].key[1]]
               \/ ticks - leftAt[resolving[c].key[1]][resolving[c].res.of] <= Max({0, Ttl})
    <2> DEFINE r == resolving[c].key[1]  v == resolving[c].res.of
    <2>1. c \in ResolveCalls /\ resolving[c].at = "answered" /\ resolving[c].res # NoHit
      BY DEF Replied
    <2>2. resolving[c] \in CallReplies
      BY <2>1 DEF CacheInv, CallsTyped, NotAsking, Fetches
    <2>3. r \in Repos /\ v \in Commits
      BY <2>1, <2>2 DEF CallReplies, Keys, Resolutions
    <2>4. leftAt[r][v] \in Int /\ ticks \in Int /\ Ttl \in Int
      BY <2>3, ResolverAssumption DEF CacheInv, CacheTyped
    <2>5. Fresh(r, v)
      BY <1>2, <2>1, ResolverAssumption DEF CacheInv, AnswerOK
    <2>6. Max({0, Ttl}) >= 0 /\ Max({0, Ttl}) >= Ttl /\ Max({0, Ttl}) \in Int
      BY <2>4, MaxOfZeroAnd
    <2> HIDE DEF r, v
    <2>7. v = upstream[r] \/ ticks - leftAt[r][v] <= Max({0, Ttl})
      BY <2>4, <2>5, <2>6 DEF Fresh
    <2> QED BY <2>7 DEF r, v
  <1>3. StaleAtMostTtl
    BY <1>2 DEF StaleAtMostTtl
  <1> QED BY <1>1, <1>3

(* Only the call itself takes a caller from rest to an answer.             *)
LEMMA LocalStep ==
    ASSUME CacheInv, [ResolverNext]_resolverVars, NEW c \in ResolveCalls,
           resolving[c].at = "idle", resolving'[c].at = "answered", RepoKind[resolving'[c].key[1]] = "dir"
    PROVE  resolving'[c].res.of = upstream[resolving'[c].key[1]]
  <1>1. resolving = [x \in ResolveCalls |-> resolving[x]]
    BY DEF CacheInv, CallsTyped
  <1>2. ASSUME NEW x \in ResolveCalls, NEW v, resolving' = [resolving EXCEPT ![x] = v],
               v.at # "answered" \/ resolving[x].at # "idle"
        PROVE  FALSE
    BY <1>1, <1>2
  <1>3. ASSUME NEW x \in ResolveCalls, NEW q \in ResolveRequests,
               ResolveFull(x, q.repo, q.rev, q.override, q.refresh)
        PROVE  resolving'[c].res.of = upstream[resolving'[c].key[1]]
    <2> DEFINE k == Key(q.repo, q.rev, q.override)
               made == Made(k, upstream[q.repo], "none")
    <2>1. PICK v : resolving' = [resolving EXCEPT ![x] = v]
      BY <1>3 DEF ResolveFull
    <2>2. x = c
      BY <1>1, <2>1
    <2>3. k[1] = q.repo /\ q.repo \in Repos /\ k \in Keys
      BY AskedTyped
    <2>4. CASE RepoKind[q.repo] = "dir"
      <3>1. resolving' = [resolving EXCEPT ![x] = ResolveAnswer(k, made, FALSE)]
        BY <1>3, <2>4 DEF ResolveFull
      <3>2. resolving'[c] = ResolveAnswer(k, made, FALSE)
        BY <1>1, <2>2, <3>1
      <3>3. resolving'[c].key = k /\ resolving'[c].res = made
        BY <3>2 DEF ResolveAnswer
      <3>4. made.of = upstream[q.repo]
        BY DEF Made
      <3> HIDE DEF k, made
      <3> QED BY <2>3, <3>3, <3>4
    <2>5. CASE RepoKind[q.repo] # "dir"
      <3> DEFINE got == IF q.refresh THEN [memory |-> shelf, hit |-> NoHit] ELSE Get(shelf, k)
                 call == IF got.hit # NoHit THEN ResolveAnswer(k, got.hit, TRUE)
                         ELSE IF offline THEN Refusal(k) ELSE Asking(q.repo, q.rev, q.override)
      <3>1. resolving' = [resolving EXCEPT ![x] = call]
        BY <1>3, <2>5 DEF ResolveFull
      <3>2. resolving'[c] = call
        BY <1>1, <2>2, <3>1
      <3>3. call.key = k
        BY DEF ResolveAnswer, Refusal, Asking
      <3> HIDE DEF call, k
      <3> QED BY <2>3, <2>5, <3>2, <3>3
    <2> QED BY <2>4, <2>5
  <1>4. ASSUME NEW x \in ResolveCalls, NEW found \in BOOLEAN, ReadConfig(x, found) \/ ReadModelInfo(x, found)
        PROVE  FALSE
    <2>1. resolving[x].at # "idle" /\ \E v : resolving' = [resolving EXCEPT ![x] = v]
      BY <1>4 DEF ReadConfig, ReadModelInfo
    <2> QED BY <2>1, <1>2
  <1>5. ASSUME NEW x \in ResolveCalls, NEW writes \in BOOLEAN, BuildAndPut(x, writes) PROVE FALSE
    <2>1. resolving[x].at # "idle" /\ \E v : resolving' = [resolving EXCEPT ![x] = v]
      BY <1>5 DEF BuildAndPut
    <2> QED BY <2>1, <1>2
  <1>6. ASSUME NEW x \in ResolveCalls, NEW e \in Engines, SupportedBy(x, e) PROVE FALSE
    <2>1. resolving[x].at # "idle" /\ \E v : resolving' = [resolving EXCEPT ![x] = v]
      BY <1>6 DEF SupportedBy, Replied
    <2> QED BY <2>1, <1>2
  <1>7. ASSUME NEW x \in ResolveCalls, ResolveReturns(x) PROVE FALSE
    <2>1. resolving' = [resolving EXCEPT ![x] = NotAsking] /\ NotAsking.at # "answered"
      BY <1>7 DEF ResolveReturns, NotAsking
    <2> QED BY <2>1, <1>2
  <1>8. ASSUME NEW alone \in BOOLEAN, RestartResolver(alone) PROVE FALSE
    BY <1>8 DEF RestartResolver, NotAsking
  <1>9. resolving' # resolving
    OBVIOUS
  <1>10. ~(\E r \in Repos, v \in Commits : Push(r, v)) /\ ~ResolverReads /\ ~ResolverTicks
         /\ ~(\E e \in Engines : ProbeImage(e)) /\ ~UNCHANGED resolverVars
    BY <1>9 DEF Push, ResolverReads, ReadOne, ListVariants, ResolverTicks, ProbeImage, resolverVars
  <1> QED BY <1>3, <1>4, <1>5, <1>6, <1>7, <1>8, <1>10 DEF ResolverNext, ResolverAsk, ResolverProceed

(* An answer about a floating ref was so no longer ago than the time to    *)
(* live, through both tiers of the cache, and a directory is read anew     *)
(* (resolve_full(), ShapeCache.get() and put()).                           *)
THEOREM CacheKeepsItsPromise == ResolverSpec => [](ResolverTypeOK /\ StaleAtMostTtl) /\ LocalIsRead
  <1>1. CacheInv /\ [ResolverNext]_resolverVars =>
           [\A c \in ResolveCalls : resolving[c].at = "idle" /\ resolving'[c].at = "answered"
               /\ RepoKind[resolving'[c].key[1]] = "dir"
               => resolving'[c].res.of = upstream[resolving'[c].key[1]]]_resolverVars
    BY LocalStep
  <1> QED BY <1>1, CacheStarts, CacheStep, CacheTells, PTL DEF ResolverSpec, LocalIsRead

----------------------------------------------------------------------------
(* What was just resolved is known.                                        *)

(* A caller that has a floating ref back can find it on disk, at once.     *)
OnDisk(c) ==
    c \in Replied =>
        (RepoKind[resolving[c].key[1]] = "hub" /\ resolving[c].key[2] = "main" /\ resolving[c].when = ticks /\ ~refused
            => resolving[c].key \in DOMAIN files /\ ~Expired(files[resolving[c].key], "main"))

KnownTo(c) ==
    c \in Checked =>
        /\ resolving[c].when <= ticks
        /\ RepoKind[resolving[c].key[1]] = "hub" /\ resolving[c].key[2] = "main"
           /\ resolving[c].when = ticks /\ ~refused
              => resolving[c].known # {}

Traced(c) == OnDisk(c) /\ KnownTo(c)

(* A stored resolution is only ever replaced by a later one.               *)
FilesGrow ==
    /\ ticks <= ticks' /\ (refused => refused') /\ DOMAIN files \subseteq DOMAIN files'
    /\ \A k \in DOMAIN files : files'[k].at >= files[k].at

LEMMA NotYetExpired ==
    ASSUME CachingOn, NEW res, res.at \in Int, ticks \in Int
    PROVE  Expired(res, "main") <=> ticks - res.at > Ttl
  BY ResolverAssumption DEF Expired, CachingOn

LEMMA FilesOnlyGrow ==
    ASSUME CacheInv, [ResolverNext]_resolverVars PROVE FilesGrow
  <1>1. ticks \in Int /\ \A k \in DOMAIN files : files[k].at \in Int /\ files[k].at <= ticks
    BY ResolverAssumption DEF CacheInv, CacheTyped, FilesSound, Sound, Resolutions
  <1>2. CASE UNCHANGED <<files, refused>> /\ ticks' \in {ticks, ticks + 1}
    BY <1>1, <1>2 DEF FilesGrow
  <1>3. ASSUME NEW c \in ResolveCalls, NEW writes \in BOOLEAN, BuildAndPut(c, writes) PROVE FilesGrow
    <2> DEFINE call == resolving[c]
               res == Made(call.key, call.config, call.record)
    <2>1. res.at = ticks
      BY DEF Made
    <2>2. ticks' = ticks /\ refused' = (refused \/ ~writes)
      BY <1>3 DEF BuildAndPut
    <2>3. DOMAIN files \subseteq DOMAIN files' /\ \A k \in DOMAIN files : files'[k] = res \/ files'[k] = files[k]
      BY <1>3 DEF BuildAndPut
    <2> HIDE DEF res
    <2>4. \A k \in DOMAIN files : files'[k].at >= files[k].at
      BY <1>1, <2>1, <2>3
    <2>5. ticks <= ticks'
      BY <1>1, <2>2
    <2>6. refused => refused'
      BY <2>2
    <2> QED BY <2>3, <2>4, <2>5, <2>6 DEF FilesGrow
  <1>4. \/ UNCHANGED <<files, refused>> /\ ticks' \in {ticks, ticks + 1}
        \/ \E c \in ResolveCalls, writes \in BOOLEAN : BuildAndPut(c, writes)
    BY DEF ResolverNext, ResolverAsk, ResolverReads, ResolverProceed, ResolveFull, Push, RestartResolver,
           ReadOne, ListVariants, ReadConfig, ReadModelInfo, SupportedBy, ResolveReturns, ProbeImage,
           ResolverTicks, resolverVars
  <1> QED BY <1>2, <1>3, <1>4

(* A caller that did not move has what it had, or the clock has gone on.   *)
LEMMA TracedStays ==
    ASSUME CachingOn, CacheInv, CacheInv', FilesGrow, NEW c \in ResolveCalls, resolving'[c] = resolving[c], Traced(c)
    PROVE  Traced(c)'
  <1>1. ticks \in Int /\ ticks' \in Int /\ ticks <= ticks'
    BY ResolverAssumption DEF CacheInv, CacheTyped, FilesGrow
  <1>2. KnownTo(c)'
    <2> SUFFICES ASSUME resolving[c].at = "checked" PROVE KnownTo(c)'
      BY DEF KnownTo, Checked
    <2>1. c \in Checked
      BY DEF Checked
    <2>2. resolving[c].when \in Int
      BY <2>1 DEF Checked, CacheInv, CallsTyped, NotAsking, Fetches, CallReplies
    <2>3. /\ resolving[c].when <= ticks
          /\ RepoKind[resolving[c].key[1]] = "hub" /\ resolving[c].key[2] = "main"
             /\ resolving[c].when = ticks /\ ~refused
                => resolving[c].known # {}
      BY <2>1 DEF Traced, KnownTo
    <2>4. resolving[c].when <= ticks' /\ (resolving[c].when = ticks' => resolving[c].when = ticks)
      BY <1>1, <2>2, <2>3
    <2>5. ~refused' => ~refused
      BY DEF FilesGrow
    <2> QED BY <2>3, <2>4, <2>5 DEF KnownTo
  <1>3. OnDisk(c)'
    <2> SUFFICES ASSUME resolving[c].at = "answered", resolving[c].res # NoHit,
                        RepoKind[resolving[c].key[1]] = "hub", resolving[c].key[2] = "main",
                        resolving[c].when = ticks', ~refused'
                 PROVE  resolving[c].key \in DOMAIN files' /\ ~Expired(files[resolving[c].key], "main")'
      BY DEF OnDisk, Replied
    <2>0. PICK k : k = resolving[c].key
      OBVIOUS
    <2>1. c \in Replied /\ resolving[c] \in CallReplies
      BY DEF Replied, CacheInv, CallsTyped, NotAsking, Fetches
    <2>2. resolving[c].when \in Int /\ resolving[c].when <= ticks
      BY <2>1 DEF CallReplies, CacheInv, AnswerOK
    <2>3. ticks' = ticks /\ resolving[c].when = ticks /\ ~refused
      BY <1>1, <2>2 DEF FilesGrow
    <2>4. k \in DOMAIN files /\ ~Expired(files[k], "main")
      BY <2>0, <2>1, <2>3 DEF Traced, OnDisk
    <2>5. k \in DOMAIN files' /\ files'[k].at >= files[k].at
      BY <2>4 DEF FilesGrow
    <2>6. files[k].at \in Int /\ files'[k].at \in Int
      BY <2>4, <2>5 DEF CacheInv, CacheTyped, Resolutions
    <2>7. ~(ticks - files[k].at > Ttl)
      BY <1>1, <2>4, <2>6, NotYetExpired
    <2>8. ~(ticks' - files'[k].at > Ttl)
      BY <1>1, <2>3, <2>5, <2>6, <2>7, ResolverAssumption
    <2>9. ~Expired(files[k], "main")'
      BY <2>8, ResolverAssumption DEF Expired, CachingOn
    <2> QED BY <2>0, <2>5, <2>9 DEF Expired
  <1> QED BY <1>2, <1>3 DEF Traced

LEMMA NothingTraced ==
    ASSUME NEW c, resolving'[c] = NotAsking \/ resolving'[c] \in Fetches
                  \/ (resolving'[c] \in CallReplies /\ resolving'[c].res = NoHit)
    PROVE  Traced(c)'
  BY DEF Traced, OnDisk, KnownTo, Replied, Checked, NotAsking, Fetches, CallReplies

(* An answer that is backed, and on disk by now.                           *)
LEMMA AnswerTraced ==
    ASSUME CachingOn, CacheInv', NEW c \in ResolveCalls, resolving'[c] \in CallReplies,
           ~refused' => resolving'[c].key \in DOMAIN files' /\ (resolving'[c].key[2] = "main" =>
                            ticks' - files'[resolving'[c].key].at <= Ttl)
    PROVE  Traced(c)'
  <1>0. PICK k : k = resolving'[c].key
    OBVIOUS
  <1>1. KnownTo(c)'
    BY DEF KnownTo, Checked, CallReplies
  <1>2. ASSUME ~refused', k[2] = "main" PROVE k \in DOMAIN files' /\ ~Expired(files[k], "main")'
    <2>1. k \in DOMAIN files' /\ ticks' - files'[k].at <= Ttl
      BY <1>0, <1>2
    <2>2. files'[k].at \in Int /\ ticks' \in Int /\ Ttl \in Int
      BY <2>1, ResolverAssumption DEF CacheInv, CacheTyped, Resolutions
    <2>3. ~(ticks' - files'[k].at > Ttl)
      BY <2>1, <2>2
    <2> QED BY <2>1, <2>3, ResolverAssumption DEF Expired, CachingOn
  <1>3. OnDisk(c)'
    BY <1>0, <1>2 DEF OnDisk, Expired
  <1> QED BY <1>1, <1>3 DEF Traced

LEMMA FirstIsOne == ASSUME NEW S \in SUBSET Int, 1 \in S, \A i \in S : i >= 1 PROVE Min(S) = 1
  <1>1. Min(S) \in S /\ \A y \in S : Min(S) <= y
    <2>1. \E x \in S : \A y \in S : x <= y
      OBVIOUS
    <2> QED BY <2>1 DEF Min
  <1>2. Min(S) \in Int /\ Min(S) >= 1 /\ Min(S) <= 1
    BY <1>1
  <1> QED BY ONLY <1>2

(* The caller's own dtype is the one detected.                             *)
LEMMA OverrideDetected == ASSUME NEW f, NEW override, override # "none" PROVE Detect(f, override).key = override
  <1> DEFINE said == <<[key |-> override, source |-> "override"], [key |-> f.quant, source |-> "quant_config"],
                  [key |-> f.sidecar, source |-> "hf_quant_config"], [key |-> f.torch, source |-> "torch_dtype"],
                  [key |-> f.name, source |-> "repo_name"], [key |-> "bf16", source |-> "defaulted"]>>
             S == {i \in DOMAIN said : said[i].key # "none"}
  <1>1. Detect(f, override) = said[Min(S)]
    BY DEF Detect
  <1>2. DOMAIN said = 1 .. 6 /\ said[1].key = override
    OBVIOUS
  <1> HIDE DEF said
  <1>3. S \in SUBSET Int /\ 1 \in S /\ \A i \in S : i >= 1
    BY <1>2
  <1> HIDE DEF S
  <1>4. Min(S) = 1
    BY <1>3, FirstIsOne
  <1> QED BY <1>1, <1>2, <1>4

LEMMA ContentsTell ==
    ASSUME ArchsNamed, NEW res \in Resolutions, res.kind = "hub"
    PROVE  /\ Contents(res).archs # {}
           /\ res.override # "none" => Contents(res).dtype = res.override
  <1> DEFINE facts == IF res.record = "none" THEN Config[res.of]
                      ELSE [Config[res.of] EXCEPT !.tally = Config[res.record].tally,
                                                  !.bytes = Config[res.record].bytes,
                                                  !.sidecar = Config[res.record].sidecar]
             from == IF res.kind = "dir" THEN "dir" ELSE IF res.record = "none" THEN "inline" ELSE "hub"
  <1>1. Contents(res) = BuildShape(facts, from, res.override, res.asked)
    BY DEF Contents
  <1>2. facts.archs # {}
    <2>1. "archs" \in DOMAIN Config[res.of] /\ Config[res.of].archs # {}
      BY DEF ArchsNamed, Resolutions
    <2> QED BY <2>1
  <1> HIDE DEF facts, from
  <1>3. BuildShape(facts, from, res.override, res.asked).archs = facts.archs
    BY DEF BuildShape
  <1>4. BuildShape(facts, from, res.override, res.asked).dtype = DetectQuant(facts, from, res.override).key
    BY DEF BuildShape
  <1>5. res.override # "none" => DetectQuant(facts, from, res.override).key = res.override
    BY OverrideDetected DEF DetectQuant
  <1> QED BY <1>1, <1>2, <1>3, <1>4, <1>5

LEMMA SupportedTraced ==
    ASSUME CachingOn, ArchsNamed, CacheInv, CacheInv', NEW c \in ResolveCalls, NEW e \in Engines,
           SupportedBy(c, e), Traced(c)
    PROVE  Traced(c)'
  <1> DEFINE call == resolving[c]
             dtype == Contents(call.res).dtype
             k == Key(call.key[1], "main", "none")
             one == Get(shelf, k)
             l == Key(call.key[1], "main", dtype)
             two == Get(one.memory, l)
             Archs(hit) == IF hit = NoHit THEN {} ELSE Contents(hit).archs
             archs == IF Archs(one.hit) # {} THEN Archs(one.hit) ELSE Archs(two.hit)
  <1>0. UNCHANGED <<ticks, files, refused>> /\ c \in Replied
    BY DEF SupportedBy
  <1>1. resolving' = [resolving EXCEPT ![c] = [at |-> "checked", key |-> call.key, when |-> call.when,
            level |-> EvaluateRuntime(e, archs, dtype, probedImages).level, known |-> archs]]
    BY DEF SupportedBy
  <1>2. /\ resolving'[c].at = "checked" /\ resolving'[c].key = call.key /\ resolving'[c].when = call.when
        /\ resolving'[c].known = archs
    <2> HIDE DEF archs, dtype, call
    <2> QED BY <1>1 DEF CacheInv, CallsTyped
  <1>3. call \in CallReplies /\ call.res # NoHit
    BY <1>0 DEF Replied, CacheInv, CallsTyped, NotAsking, Fetches
  <1>4. call.when <= ticks /\ call.res.override = call.key[3] /\ call.res.kind = RepoKind[call.key[1]]
    BY <1>0, <1>3 DEF CacheInv, AnswerOK, CallReplies
  <1>5. call.key \in Keys /\ call.res \in Resolutions
    BY <1>3 DEF CallReplies
  <1>6. ASSUME RepoKind[call.key[1]] = "hub", call.key[2] = "main", call.when = ticks, ~refused
        PROVE  archs # {}
    <2>1. call.key \in DOMAIN files /\ ~Expired(files[call.key], "main")
      BY <1>0, <1>6 DEF Traced, OnDisk
    <2>2. CacheTyped /\ FilesSound /\ Shelved(shelf)
      BY DEF CacheInv
    <2> HIDE DEF call
    <2>3. k[1] = call.key[1] /\ l[1] = call.key[1] /\ k[2] = "main" /\ l[2] = "main"
          /\ call.key = Key(call.key[1], "main", call.key[3])
      BY <1>5, <1>6 DEF Key, Keys
    <2>4. Shelved(one.memory) /\ (one.hit # NoHit => one.hit \in Resolutions /\ Sound(k, one.hit))
          /\ (k \in DOMAIN files /\ ~Expired(files[k], k[2]) => one.hit # NoHit)
      BY <2>2, GetFacts
    <2> HIDE DEF one
    <2>5. /\ two.hit # NoHit => two.hit \in Resolutions /\ Sound(l, two.hit)
          /\ l \in DOMAIN files /\ ~Expired(files[l], l[2]) => two.hit # NoHit
      BY <2>2, <2>4, GetFacts
    <2> HIDE DEF two
    <2>6. one.hit # NoHit => Archs(one.hit) # {}
      <3> HIDE DEF k
      <3> QED BY <2>3, <2>4, <1>6, ContentsTell DEF Sound
    <2>7. two.hit # NoHit => Archs(two.hit) # {}
      <3> HIDE DEF l
      <3> QED BY <2>3, <2>5, <1>6, ContentsTell DEF Sound
    <2>8. one.hit # NoHit \/ two.hit # NoHit
      <3>1. CASE call.key[3] = "none"
        <4>1. k = call.key
          BY <2>3, <3>1
        <4> HIDE DEF k
        <4> QED BY <4>1, <2>1, <2>3, <2>4
      <3>2. CASE call.key[3] # "none"
        <4>1. dtype = call.key[3]
          BY <3>2, <1>4, <1>5, <1>6, ContentsTell
        <4> HIDE DEF dtype
        <4>2. l = call.key
          BY <4>1, <2>3
        <4> HIDE DEF l
        <4> QED BY <4>2, <2>1, <2>3, <2>5
      <3> QED BY <3>1, <3>2
    <2> HIDE DEF Archs
    <2> QED BY <2>6, <2>7, <2>8
  <1> HIDE DEF archs, call
  <1>7. KnownTo(c)'
    <2>1. resolving'[c].when <= ticks'
      BY <1>0, <1>2, <1>4
    <2>2. ASSUME RepoKind[resolving'[c].key[1]] = "hub", resolving'[c].key[2] = "main",
                 resolving'[c].when = ticks', ~refused'
          PROVE  resolving'[c].known # {}
      BY <1>0, <1>2, <1>6, <2>2
    <2> QED BY <2>1, <2>2 DEF KnownTo
  <1>8. OnDisk(c)'
    BY <1>2 DEF OnDisk, Replied
  <1> QED BY <1>7, <1>8 DEF Traced

LEMMA ResolveTraced ==
    ASSUME CachingOn, CacheInv, CacheInv', NEW c \in ResolveCalls, NEW q \in ResolveRequests,
           ResolveFull(c, q.repo, q.rev, q.override, q.refresh)
    PROVE  Traced(c)'
  <1> DEFINE k == Key(q.repo, q.rev, q.override)
             got == IF q.refresh THEN [memory |-> shelf, hit |-> NoHit] ELSE Get(shelf, k)
  <1>1. /\ k \in Keys /\ q.repo \in Repos /\ q.refresh \in BOOLEAN
        /\ k[1] = q.repo /\ k[2] = q.rev /\ k[3] = q.override
    BY AskedTyped
  <1>2. UNCHANGED <<ticks, files, refused>>
    BY DEF ResolveFull
  <1>3. CacheTyped /\ FilesSound /\ Shelved(shelf) /\ ticks \in Int /\ Ttl \in Int
    BY ResolverAssumption DEF CacheInv, CacheTyped
  <1>0. \A v : resolving' = [resolving EXCEPT ![c] = v] => resolving'[c] = v
    BY DEF CacheInv, CallsTyped
  <1>4. CASE RepoKind[q.repo] = "dir"
    <2> DEFINE made == Made(k, upstream[q.repo], "none")
    <2>1. resolving' = [resolving EXCEPT ![c] = ResolveAnswer(k, made, FALSE)]
      BY <1>4 DEF ResolveFull
    <2>2. resolving'[c] = ResolveAnswer(k, made, FALSE)
      BY <1>0, <2>1
    <2>3. resolving'[c].at = "answered" /\ resolving'[c].key = k
      BY <2>2 DEF ResolveAnswer
    <2> HIDE DEF k
    <2>4. RepoKind[resolving'[c].key[1]] # "hub"
      BY <1>1, <1>4, <2>3
    <2> QED BY <2>3, <2>4 DEF Traced, OnDisk, KnownTo, Checked
  <1>5. CASE RepoKind[q.repo] # "dir"
    <2> DEFINE call == IF got.hit # NoHit THEN ResolveAnswer(k, got.hit, TRUE)
                       ELSE IF offline THEN Refusal(k) ELSE Asking(q.repo, q.rev, q.override)
    <2>1. resolving' = [resolving EXCEPT ![c] = call]
      BY <1>5 DEF ResolveFull
    <2>2. resolving'[c] = call
      BY <1>0, <2>1
    <2>3. CASE got.hit # NoHit
      <3>1. resolving'[c] = ResolveAnswer(k, got.hit, TRUE)
        BY <2>2, <2>3
      <3>2. got.hit \in Resolutions /\ ~Expired(got.hit, k[2]) /\ Sound(k, got.hit) /\ Backed(k, got.hit)
        <4>1. ~q.refresh /\ got = Get(shelf, k)
          BY <2>3, <1>1
        <4> HIDE DEF got, k
        <4> QED BY <4>1, <1>3, <2>3, GetFacts
      <3> HIDE DEF got, k, call
      <3>3. /\ resolving'[c] \in CallReplies /\ resolving'[c].key = k
        BY <3>1, <3>2, <1>1, <1>3 DEF ResolveAnswer, CallReplies, CacheTyped
      <3>4. ASSUME ~refused' PROVE k \in DOMAIN files' /\ (k[2] = "main" => ticks' - files'[k].at <= Ttl)
        <4>1. k \in DOMAIN files /\ files[k].at >= got.hit.at
          BY <3>2, <3>4, <1>2 DEF Backed
        <4>2. files[k].at \in Int /\ got.hit.at \in Int
          BY <4>1, <3>2, <1>3 DEF CacheTyped, Resolutions
        <4>3. k[2] = "main" => ticks - got.hit.at <= Ttl
          BY <3>2, <4>2, <1>3, NotYetExpired
        <4>4. k[2] = "main" => ticks - files[k].at <= Ttl
          BY <4>1, <4>2, <4>3, <1>3
        <4> QED BY <4>1, <4>4, <1>2
      <3> QED BY <3>3, <3>4, AnswerTraced
    <2>4. CASE got.hit = NoHit /\ offline
      <3>1. resolving'[c] = Refusal(k)
        BY <2>2, <2>4
      <3> HIDE DEF k
      <3>2. resolving'[c] \in CallReplies /\ resolving'[c].res = NoHit
        BY <3>1, <1>1, <1>3 DEF Refusal, ResolveAnswer, CallReplies, CacheTyped
      <3> QED BY <3>2, NothingTraced
    <2>5. CASE got.hit = NoHit /\ ~offline
      <3>1. resolving'[c] = Asking(q.repo, q.rev, q.override)
        BY <2>2, <2>5
      <3>2. resolving'[c] \in Fetches
        BY <3>1, <1>1 DEF Asking, Fetches
      <3> QED BY <3>2, NothingTraced
    <2> QED BY <2>3, <2>4, <2>5
  <1> QED BY <1>4, <1>5

LEMMA BuildTraced ==
    ASSUME CachingOn, CacheInv, CacheInv', NEW c \in ResolveCalls, NEW writes \in BOOLEAN, BuildAndPut(c, writes)
    PROVE  Traced(c)'
  <1> DEFINE call == resolving[c]
             res == Made(call.key, call.config, call.record)
  <1>1. resolving'[c] = ResolveAnswer(call.key, res, FALSE)
    BY DEF BuildAndPut, CacheInv, CallsTyped
  <1>2. resolving'[c].at = "answered" /\ resolving'[c].key = call.key
    BY <1>1 DEF ResolveAnswer
  <1>3. resolving'[c] \in CallReplies
    BY <1>2 DEF CacheInv, CallsTyped, NotAsking, Fetches
  <1>4. ASSUME ~refused' PROVE call.key \in DOMAIN files' /\ files'[call.key] = res
    BY <1>4 DEF BuildAndPut
  <1>5. res.at = ticks /\ ticks' = ticks /\ ticks \in Int /\ Ttl > 0 /\ Ttl \in Int
    BY ResolverAssumption DEF Made, BuildAndPut, CachingOn, CacheInv, CacheTyped
  <1> HIDE DEF res, call
  <1>6. ~refused' => resolving'[c].key \in DOMAIN files' /\ ticks' - files'[resolving'[c].key].at <= Ttl
    BY <1>2, <1>4, <1>5
  <1> QED BY <1>3, <1>6, AnswerTraced

KnownInv == CacheInv /\ \A c \in ResolveCalls : Traced(c)

LEMMA KnownStep ==
    ASSUME CachingOn, ArchsNamed, KnownInv, [ResolverNext]_resolverVars PROVE KnownInv'
  <1>1. CacheInv /\ CacheInv' /\ \A c \in ResolveCalls : Traced(c)
    BY CacheStep DEF KnownInv
  <1>2. FilesGrow
    BY <1>1, FilesOnlyGrow
  <1>3. ASSUME NEW c \in ResolveCalls, resolving'[c] = resolving[c] PROVE Traced(c)'
    BY <1>1, <1>2, <1>3, TracedStays
  <1>4. ASSUME NEW c \in ResolveCalls, NEW v, resolving' = [resolving EXCEPT ![c] = v], Traced(c)'
        PROVE  \A x \in ResolveCalls : Traced(x)'
    <2>1. ASSUME NEW x \in ResolveCalls, x # c PROVE Traced(x)'
      <3>1. resolving'[x] = resolving[x]
        BY <1>1, <1>4, <2>1 DEF CacheInv, CallsTyped
      <3> QED BY <3>1, <1>3
    <2> QED BY <1>4, <2>1
  <1>5. ASSUME UNCHANGED resolving PROVE \A x \in ResolveCalls : Traced(x)'
    BY <1>3, <1>5
  <1>6. ASSUME NEW c \in ResolveCalls, NEW q \in ResolveRequests,
               ResolveFull(c, q.repo, q.rev, q.override, q.refresh)
        PROVE  \A x \in ResolveCalls : Traced(x)'
    <2>1. \E v : resolving' = [resolving EXCEPT ![c] = v]
      BY <1>6 DEF ResolveFull
    <2>2. Traced(c)'
      BY <1>1, <1>6, ResolveTraced
    <2> QED BY <2>1, <2>2, <1>4
  <1>7. ASSUME NEW c \in ResolveCalls, NEW found \in BOOLEAN, ReadConfig(c, found) \/ ReadModelInfo(c, found)
        PROVE  \A x \in ResolveCalls : Traced(x)'
    <2>1. PICK v : resolving' = [resolving EXCEPT ![c] = v]
      BY <1>7 DEF ReadConfig, ReadModelInfo
    <2>2. resolving[c].at = "fetching" /\ resolving[c] \in Fetches
      BY <1>1, <1>7 DEF ReadConfig, ReadModelInfo, CacheInv, CallsTyped, NotAsking, CallReplies
    <2>3. resolving'[c] \in Fetches \/ (resolving'[c] \in CallReplies /\ resolving'[c].res = NoHit)
      <3>1. CASE ReadConfig(c, found) /\ ~found
        <4>1. resolving'[c] = Refusal(resolving[c].key)
          BY <1>1, <3>1 DEF ReadConfig, CacheInv, CallsTyped
        <4> QED BY <4>1, <2>2, <1>1 DEF Refusal, ResolveAnswer, CallReplies, Fetches, CacheInv, CacheTyped
      <3>2. CASE ~(ReadConfig(c, found) /\ ~found)
        <4>1. resolving'[c].at = "fetching"
          BY <1>1, <1>7, <3>2, <2>2 DEF ReadConfig, ReadModelInfo, CacheInv, CallsTyped, Fetches
        <4> QED BY <4>1, <1>1 DEF CacheInv, CallsTyped, NotAsking, CallReplies
      <3> QED BY <3>1, <3>2
    <2>4. Traced(c)'
      BY <2>3, NothingTraced
    <2> QED BY <2>1, <2>4, <1>4
  <1>8. ASSUME NEW c \in ResolveCalls, NEW writes \in BOOLEAN, BuildAndPut(c, writes)
        PROVE  \A x \in ResolveCalls : Traced(x)'
    <2>1. \E v : resolving' = [resolving EXCEPT ![c] = v]
      BY <1>8 DEF BuildAndPut
    <2>2. Traced(c)'
      BY <1>1, <1>8, BuildTraced
    <2> QED BY <2>1, <2>2, <1>4
  <1>9. ASSUME NEW c \in ResolveCalls, NEW e \in Engines, SupportedBy(c, e)
        PROVE  \A x \in ResolveCalls : Traced(x)'
    <2>1. \E v : resolving' = [resolving EXCEPT ![c] = v]
      BY <1>9 DEF SupportedBy
    <2>2. Traced(c)'
      BY <1>1, <1>9, SupportedTraced
    <2> QED BY <2>1, <2>2, <1>4
  <1>10. ASSUME NEW c \in ResolveCalls, ResolveReturns(c) PROVE \A x \in ResolveCalls : Traced(x)'
    <2>1. resolving' = [resolving EXCEPT ![c] = NotAsking]
      BY <1>10 DEF ResolveReturns
    <2>2. resolving'[c] = NotAsking
      BY <1>1, <2>1 DEF CacheInv, CallsTyped
    <2>3. Traced(c)'
      BY <2>2, NothingTraced
    <2> QED BY <2>1, <2>3, <1>4
  <1>11. ASSUME NEW alone \in BOOLEAN, RestartResolver(alone) PROVE \A x \in ResolveCalls : Traced(x)'
    <2>1. \A x \in ResolveCalls : resolving'[x] = NotAsking
      BY <1>11 DEF RestartResolver
    <2> QED BY <2>1, NothingTraced
  <1>12. ASSUME \/ \E r \in Repos, v \in Commits : Push(r, v)
                \/ ResolverReads \/ ResolverTicks \/ UNCHANGED resolverVars
                \/ \E e \in Engines : ProbeImage(e)
         PROVE  UNCHANGED resolving
    BY <1>12 DEF Push, ResolverReads, ReadOne, ListVariants, ResolverTicks, ProbeImage, resolverVars
  <1>13. \A x \in ResolveCalls : Traced(x)'
    BY <1>5, <1>6, <1>7, <1>8, <1>9, <1>10, <1>11, <1>12 DEF ResolverNext, ResolverAsk, ResolverProceed
  <1> QED BY <1>1, <1>13 DEF KnownInv

LEMMA KnownStarts == ResolverInit => KnownInv
  <1>1. ResolverInit => \A c \in ResolveCalls : Traced(c)
    BY DEF ResolverInit, Traced, OnDisk, KnownTo, Replied, Checked, NotAsking
  <1> QED BY <1>1, CacheStarts DEF KnownInv

LEMMA KnownTells == KnownInv => ResolvedIsKnown
  BY DEF KnownInv, Traced, KnownTo, ResolvedIsKnown, Checked

(* A model that has just been resolved is known to the check that follows  *)
(* it (supported_by()), whatever was evicted or put meanwhile.             *)
THEOREM ResolvedIsRemembered == ASSUME CachingOn, ArchsNamed PROVE ResolverSpec => []ResolvedIsKnown
  <1>1. KnownInv /\ [ResolverNext]_resolverVars => KnownInv'
    BY KnownStep
  <1> QED BY <1>1, KnownStarts, KnownTells, PTL DEF ResolverSpec

----------------------------------------------------------------------------
(* The count that is charged.                                              *)

LEMMA MaxOfTwo == ASSUME NEW m \in Int, NEW n \in Int PROVE Max({m, n}) \in {m, n}
  <1>1. \E x \in {m, n} : \A y \in {m, n} : x >= y
    <2>1. CASE n >= m
      BY <2>1
    <2>2. CASE ~(n >= m)
      BY <2>2
    <2> QED BY <2>1, <2>2
  <1> QED BY <1>1 DEF Max

LEMMA MinOfTwo == ASSUME NEW m \in Int, NEW n \in Int PROVE Min({m, n}) \in {m, n}
  <1>1. \E x \in {m, n} : \A y \in {m, n} : x <= y
    <2>1. CASE n <= m
      BY <2>1
    <2>2. CASE ~(n <= m)
      BY <2>2
    <2> QED BY <2>1, <2>2
  <1> QED BY <1>1 DEF Min

(* What is measured is the tally, or what the bytes imply near what is     *)
(* described, or nothing; and nothing is the configuration's word.         *)
LEMMA MeasuredIs ==
    ASSUME NEW b, NEW f, NEW dtype, b.total \in Nat, b.mtp \in Nat, b.mtp <= b.total,
           f.counted = 0, f.tally \in Nat, f.bytes \in Nat, f.tally = 0 \/ f.tally >= b.mtp,
           HalfBytes[dtype] \in Nat \ {0}
    PROVE  LET m == MeasureParams(b, f, dtype) IN
           /\ m.count \in Nat /\ (m.count > 0 => m.count >= b.mtp /\ m.source # "config")
           /\ f.tally > 0 /\ f.bytes = 0 /\ ~Within(f.tally, b.total + b.mtp, 15)
                => IF f.tally > b.total + b.mtp THEN m.count = f.tally ELSE m.count = 0
  <1> DEFINE described == b.total + b.mtp
             implied == (2 * f.bytes) \div HalfBytes[dtype]
             config == [count |-> 0, source |-> "config"]
             hub == [count |-> f.tally, source |-> "hub"]
             index == [count |-> implied, source |-> "index"]
             near == Within(f.tally, described, 15)
             close == Distance(f.tally, implied) <= Distance(described, implied)
             listed == f.index /\ f.bytes > 0 /\ Within(implied, described, 5)
             m == MeasureParams(b, f, dtype)
  <1>1. m = IF f.counted > 0 THEN [count |-> f.counted, source |-> "headers"]
            ELSE IF f.tally > 0 /\ near THEN hub
            ELSE IF f.tally > 0 /\ f.bytes > 0 THEN IF close THEN hub ELSE config
            ELSE IF f.tally > described THEN hub
            ELSE IF listed THEN index ELSE config
    BY DEF MeasureParams
  <1>2. described \in Nat /\ implied \in Nat
    <2>1. 2 * f.bytes \in Nat
      OBVIOUS
    <2>2. implied \in Nat
      BY <2>1, Divides
    <2> QED BY <2>2
  <1>3. listed => implied >= b.mtp
    <2> SUFFICES ASSUME listed PROVE implied >= b.mtp
      OBVIOUS
    <2>1. 100 * Distance(implied, described) <= 5 * described
      BY DEF Within
    <2> HIDE DEF implied
    <2>2. Distance(implied, described) >= described - implied /\ Distance(implied, described) \in Int
      BY <1>2 DEF Distance
    <2> QED BY <1>2, <2>1, <2>2
  <1> HIDE DEF near, close, listed, implied
  <1>4. m \in {hub, config} \/ (m = index /\ listed)
    BY <1>1
  <1>5. m.count \in Nat /\ (m.count > 0 => m.count >= b.mtp /\ m.source # "config")
    <2> HIDE DEF m
    <2> QED BY <1>2, <1>3, <1>4
  <1>6. ASSUME f.tally > 0, f.bytes = 0, ~near
        PROVE  IF f.tally > described THEN m.count = f.tally ELSE m.count = 0
    <2>1. ~listed
      BY <1>6 DEF listed
    <2>2. m = IF f.tally > described THEN hub ELSE config
      BY <1>1, <1>6, <2>1
    <2> HIDE DEF m
    <2> QED BY <2>2
  <1> HIDE DEF m
  <1> QED BY <1>5, <1>6 DEF m, near

LEMMA ReconciledIs ==
    ASSUME NEW m, NEW b, NEW measured \in Nat, b.total \in Nat, b.mtp \in Nat, b.embedding \in Nat, b.routed \in Nat,
           measured > 0 => measured >= b.mtp, m.experts \in Nat, m.perToken \in 0 .. m.experts
    PROVE  LET r == Reconcile(m, b, measured) IN
           /\ r.total = IF measured > 0 THEN measured - b.mtp ELSE b.total
           /\ r.total \in Nat /\ r.active <= r.total
  <1> DEFINE total == IF measured > 0 THEN measured - b.mtp ELSE b.total
             most == (total * 995) \div 1000
             routed == Min({b.routed, most})
             skipped == (routed * (m.experts - m.perToken)) \div m.experts
             read == total - b.embedding - skipped
             floor == total \div 100
             active == IF m.experts = 0 \/ routed <= 0 THEN 0 ELSE Max({read, floor})
  <1>1. Reconcile(m, b, measured) = [total |-> total, active |-> active]
    BY DEF Reconcile
  <1>2. total \in Nat
    OBVIOUS
  <1> HIDE DEF total
  <1>3. most \in Nat /\ floor \in Nat /\ floor <= total
    BY <1>2
  <1>4. routed \in Nat
    BY <1>3, MinOfTwo
  <1>5. active <= total
    <2>1. CASE m.experts = 0 \/ routed <= 0
      BY <1>2, <2>1
    <2>2. CASE ~(m.experts = 0 \/ routed <= 0)
      <3> HIDE DEF routed, floor
      <3>1. m.experts \in Nat \ {0} /\ m.experts - m.perToken \in Nat
        BY <2>2
      <3>2. routed * (m.experts - m.perToken) \in Nat
        BY <1>4, <3>1, ProductIs
      <3>3. skipped \in Nat
        <4> DEFINE p == routed * (m.experts - m.perToken)
        <4> HIDE DEF p
        <4>1. p \div m.experts \in Nat
          BY <3>1, <3>2, Divides DEF p
        <4> QED BY <4>1 DEF p
      <3> HIDE DEF skipped
      <3>4. read \in Int /\ read <= total
        BY <1>2, <3>3
      <3> HIDE DEF read
      <3>5. Max({read, floor}) \in {read, floor}
        BY <1>3, <3>4, MaxOfTwo
      <3> QED BY <1>3, <2>2, <3>4, <3>5
    <2> QED BY <2>1, <2>2
  <1> HIDE DEF active
  <1> QED BY <1>1, <1>2, <1>5 DEF total

LEMMA CountKept ==
    ASSUME ConfigsCounted, NEW f \in Configs, NEW override \in Overrides, NEW asked
    PROVE  LET shape == BuildShape(f, "hub", override, asked)
               b == AnalyticBreakdown(f.shape)
               charged == shape.total + b.mtp
           IN  /\ charged < b.total + b.mtp => shape.paramSource # "config"
               /\ f.tally > 0 /\ f.bytes = 0 /\ ~Within(f.tally, b.total + b.mtp, 15)
                    => charged >= f.tally /\ charged >= b.total + b.mtp
               /\ shape.active <= shape.total
  <1> DEFINE dtype == DetectQuant(f, "hub", override)
             b == AnalyticBreakdown(f.shape)
             known == Measurable(f, "hub")
             measured == MeasureParams(b, known, dtype.key)
             count == Reconcile(f.shape, b, measured.count)
             shape == BuildShape(f, "hub", override, asked)
  <1>1. shape.total = count.total /\ shape.active = count.active /\ shape.paramSource = measured.source
    BY DEF BuildShape
  <1>2. ConfigCounted(f) /\ HalfBytes[dtype.key] \in Nat \ {0}
    BY DEF ConfigsCounted
  <1>3. /\ known.counted = 0 /\ known.tally = f.tally /\ known.bytes = f.bytes
        /\ b.total \in Nat /\ b.mtp \in Nat /\ b.embedding \in Nat /\ b.routed \in Nat /\ b.mtp <= b.total
        /\ f.tally \in Nat /\ f.bytes \in Nat /\ (f.tally = 0 \/ f.tally >= b.mtp)
        /\ f.shape.experts \in Nat /\ f.shape.perToken \in 0 .. f.shape.experts
    <2> HIDE DEF b, dtype
    <2> QED BY <1>2 DEF ConfigCounted, Measurable, b
  <1> HIDE DEF dtype, known, b, shape
  <1>4. /\ measured.count \in Nat /\ (measured.count > 0 => measured.count >= b.mtp /\ measured.source # "config")
        /\ f.tally > 0 /\ f.bytes = 0 /\ ~Within(f.tally, b.total + b.mtp, 15)
             => IF f.tally > b.total + b.mtp THEN measured.count = f.tally ELSE measured.count = 0
    BY <1>2, <1>3, MeasuredIs
  <1> HIDE DEF measured
  <1>5. /\ count.total = (IF measured.count > 0 THEN measured.count - b.mtp ELSE b.total)
        /\ count.total \in Nat /\ count.active <= count.total
    BY <1>3, <1>4, ReconciledIs
  <1> HIDE DEF count
  <1> DEFINE charged == shape.total + b.mtp
  <1>6. charged < b.total + b.mtp => shape.paramSource # "config"
    BY <1>1, <1>3, <1>4, <1>5
  <1>7. ASSUME f.tally > 0, f.bytes = 0, ~Within(f.tally, b.total + b.mtp, 15)
        PROVE  charged >= f.tally /\ charged >= b.total + b.mtp
    <2>1. IF f.tally > b.total + b.mtp THEN measured.count = f.tally ELSE measured.count = 0
      BY <1>4, <1>7
    <2> QED BY <1>1, <1>3, <1>5, <1>7, <2>1
  <1>8. shape.active <= shape.total
    BY <1>1, <1>5
  <1> HIDE DEF charged
  <1> QED BY <1>6, <1>7, <1>8 DEF charged, shape, b

LEMMA ReadingCounted ==
    ASSUME ConfigsCounted, NEW f \in Configs, NEW from, NEW o \in Overrides, ReadOne(f, from, o)
    PROVE  CountBacked'
  <1> DEFINE shape == BuildShape(f, from, o, probedImages)
             made == IF from = "gguf" THEN BuildGguf(f, o, probedImages) ELSE shape
  <1>1. reading' = [facts |-> f, from |-> from, override |-> o, made |-> made]
    BY DEF ReadOne
  <1> HIDE DEF shape, made
  <1>2. reading'.facts = f /\ reading'.from = from /\ reading'.made = made
    BY <1>1
  <1>3. from = "hub" => made = BuildShape(f, "hub", o, probedImages)
    BY DEF made, shape
  <1> QED BY <1>2, <1>3, CountKept DEF CountBacked

(* The parameters that are charged are below what the configuration says   *)
(* only if they were measured (_measure_params(), reconcile()).            *)
THEOREM CountIsBacked == ASSUME ConfigsCounted PROVE ResolverSpec => []CountBacked
  <1>1. ResolverInit => CountBacked
    BY DEF ResolverInit, CountBacked
  <1>2. CountBacked /\ [ResolverNext]_resolverVars => CountBacked'
    <2> SUFFICES ASSUME CountBacked, [ResolverNext]_resolverVars PROVE CountBacked'
      OBVIOUS
    <2>1. ASSUME UNCHANGED reading PROVE CountBacked'
      BY <2>1 DEF CountBacked
    <2>2. \/ UNCHANGED reading
          \/ \E f \in Configs, from \in {"hub", "dir", "inline", "gguf"}, o \in Overrides : ReadOne(f, from, o)
      BY DEF ResolverNext, ResolverAsk, ResolverReads, ResolverProceed, ResolveFull, Push, RestartResolver,
             ListVariants, ReadConfig, ReadModelInfo, BuildAndPut, SupportedBy, ResolveReturns, ProbeImage,
             ResolverTicks, resolverVars
    <2> QED BY <2>1, <2>2, ReadingCounted
  <1> QED BY <1>1, <1>2, PTL DEF ResolverSpec

----------------------------------------------------------------------------
(* The listing of builds.                                                  *)

LEMMA VisitedPlaces ==
    ASSUME NEW w, ListedOK(w)
    PROVE  /\ IsFiniteSet(Visited(w)) /\ Visited(w) \subseteq Collections(w) \cup {Own}
           /\ Own \notin Collections(w) /\ Own \notin DOMAIN w.hits
           /\ \A i \in Found(w) : i \in DOMAIN w.hits /\ i \in Nat /\ w.hits[i].downloads \in Int
                                  /\ w.hits[i].repo # w.self
           /\ Collections(w) \subseteq Found(w)
           /\ \A i, j \in Visited(w) : RepoAt(w, i) = RepoAt(w, j) => i = j
  <1>1. Own \notin DOMAIN w.hits
    BY DEF ListedOK, Own
  <1>2. ASSUME NEW i \in Found(w)
        PROVE  i \in DOMAIN w.hits /\ i \in Nat /\ w.hits[i].downloads \in Int /\ w.hits[i].repo # w.self
    <2>1. i \in DOMAIN w.hits /\ w.hits[i].repo # w.self
      BY DEF Found
    <2>2. i \in Nat
      BY <2>1 DEF ListedOK
    <2> QED BY <2>1, <2>2 DEF ListedOK
  <1>3. Collections(w) \subseteq Found(w)
    BY DEF Collections
  <1>4. Visited(w) \subseteq Collections(w) \cup {Own}
    BY DEF Visited
  <1>5. Own \notin Collections(w)
    BY <1>1, <1>2, <1>3
  <1>6. IsFiniteSet(Visited(w))
    <2>1. IsFiniteSet(0 .. Len(w.hits))
      BY FS_Interval DEF ListedOK
    <2>2. Visited(w) \subseteq 0 .. Len(w.hits)
      <3>1. DOMAIN w.hits \subseteq 0 .. Len(w.hits) /\ Own \in 0 .. Len(w.hits)
        BY DEF ListedOK, Own
      <3> QED BY <3>1, <1>2, <1>3, <1>4
    <2> QED BY <2>1, <2>2, FS_Subset
  <1>7. ASSUME NEW i \in Visited(w), NEW j \in Visited(w), RepoAt(w, i) = RepoAt(w, j) PROVE i = j
    <2>1. ASSUME NEW k \in Visited(w), k # Own
          PROVE  k \in DOMAIN w.hits /\ RepoAt(w, k) = w.hits[k].repo /\ RepoAt(w, k) # w.self
      <3>1. k \in Found(w)
        BY <2>1, <1>3, <1>4
      <3> QED BY <3>1, <2>1, <1>2 DEF RepoAt
    <2>2. RepoAt(w, Own) = w.self
      BY DEF RepoAt
    <2>3. CASE i = Own
      BY <2>1, <2>2, <2>3, <1>7
    <2>4. CASE j = Own
      BY <2>1, <2>2, <2>4, <1>7
    <2>5. CASE i # Own /\ j # Own
      <3>1. w.hits[i].repo = w.hits[j].repo /\ i \in DOMAIN w.hits /\ j \in DOMAIN w.hits
        BY <2>1, <2>5, <1>7
      <3> QED BY <3>1 DEF ListedOK
    <2> QED BY <2>3, <2>4, <2>5
  <1> QED BY <1>1, <1>2, <1>3, <1>4, <1>5, <1>6, <1>7

(* The weight files of a repository and what they are grouped under.       *)
LEMMA FilesFinite ==
    ASSUME NEW w, ListedOK(w), NEW i
    PROVE  LET F == WeightFiles(FilesAt(w, i)) IN
           /\ IsFiniteSet(F) /\ \A f \in F : f.size \in Int /\ f.stem \in Stems(FilesAt(w, i))
           /\ IsFiniteSet(Stems(FilesAt(w, i))) /\ Stems(FilesAt(w, i)) \subseteq Int \ {0}
           /\ F # {} => RepoAt(w, i) \in DOMAIN w.files /\ FilesAt(w, i) = w.files[RepoAt(w, i)]
  <1> DEFINE fs == FilesAt(w, i)
             F == WeightFiles(fs)
  <1>1. IsFiniteSet(fs) /\ \A f \in fs : f.size \in Int /\ f.stem \in Int \ {0}
    <2>1. CASE RepoAt(w, i) \in DOMAIN w.files
      BY <2>1 DEF FilesAt, ListedOK
    <2>2. CASE RepoAt(w, i) \notin DOMAIN w.files
      BY <2>2, FS_EmptySet DEF FilesAt
    <2> QED BY <2>1, <2>2
  <1>2. F # {} => RepoAt(w, i) \in DOMAIN w.files /\ fs = w.files[RepoAt(w, i)]
    BY DEF FilesAt, WeightFiles
  <1> HIDE DEF fs
  <1>3. IsFiniteSet(F) /\ F \subseteq fs
    BY <1>1, FS_Subset DEF WeightFiles
  <1> DEFINE r == [f \in F |-> f.stem]
  <1>4. Stems(fs) = {r[f] : f \in F}
    BY DEF Stems
  <1>5. IsFiniteSet(Stems(fs))
    <2> HIDE DEF F, r
    <2> QED BY <1>3, <1>4, FiniteImage
  <1>6. Stems(fs) \subseteq Int \ {0} /\ \A f \in F : f.size \in Int /\ f.stem \in Stems(fs)
    BY <1>1, <1>3 DEF Stems
  <1> QED BY <1>2, <1>3, <1>5, <1>6 DEF fs

LEMMA WantedFinite ==
    ASSUME NEW w, ListedOK(w)
    PROVE  /\ IsFiniteSet(Wanted(w))
           /\ \A p \in Wanted(w) : /\ p[1] \in Visited(w) /\ p[2] \in Int /\ p[2] \in Stems(FilesAt(w, p[1]))
                                   /\ p = <<p[1], p[2]>>
  <1> DEFINE r == [i \in Visited(w) |-> {i} \X Nameless(FilesAt(w, i))]
             U == {r[i] : i \in Visited(w)}
  <1>1. Wanted(w) = UNION U
    BY DEF Wanted
  <1>2. \A i \in Visited(w) : Nameless(FilesAt(w, i)) \subseteq Stems(FilesAt(w, i))
    BY DEF Nameless
  <1>3. ASSUME NEW i \in Visited(w) PROVE IsFiniteSet(r[i])
    <2>1. IsFiniteSet(Nameless(FilesAt(w, i)))
      BY <1>2, FilesFinite, FS_Subset
    <2>2. IsFiniteSet({i})
      BY FS_Singleton
    <2> QED BY <2>1, <2>2, FS_Product
  <1>4. IsFiniteSet(U)
    <2>1. IsFiniteSet(Visited(w))
      BY VisitedPlaces
    <2> HIDE DEF r
    <2> QED BY <2>1, FiniteImage
  <1>5. IsFiniteSet(UNION U)
    <2>1. \A T \in U : IsFiniteSet(T)
      BY <1>3
    <2> HIDE DEF U
    <2> QED BY <1>4, <2>1, FS_UNION
  <1>6. ASSUME NEW p \in Wanted(w)
        PROVE  /\ p[1] \in Visited(w) /\ p[2] \in Int /\ p[2] \in Stems(FilesAt(w, p[1]))
               /\ p = <<p[1], p[2]>>
    <2>1. PICK i \in Visited(w) : p \in {i} \X Nameless(FilesAt(w, i))
      BY DEF Wanted
    <2>2. p = <<p[1], p[2]>> /\ p[1] = i /\ p[2] \in Stems(FilesAt(w, i))
      BY <2>1, <1>2
    <2>3. p[2] \in Int
      BY <2>2, FilesFinite
    <2> QED BY <2>2, <2>3
  <1> QED BY <1>1, <1>5, <1>6

(* The order in which names that say nothing are come to.                  *)
LEMMA AheadOrders ==
    ASSUME NEW w, ListedOK(w)
    PROVE  /\ \A i \in Collections(w) : i \notin Ahead(w, i)
           /\ \A i, j \in Collections(w) : i = j \/ i \in Ahead(w, j) \/ j \in Ahead(w, i)
           /\ \A i, j, k \in Collections(w) : i \in Ahead(w, j) /\ j \in Ahead(w, k) => i \in Ahead(w, k)
  <1>1. \A i \in Collections(w) : i \in Nat /\ w.hits[i].downloads \in Int
    BY VisitedPlaces
  <1> DEFINE Before(i, j) == \/ w.hits[i].downloads > w.hits[j].downloads
                             \/ w.hits[i].downloads = w.hits[j].downloads /\ i < j
  <1>2. \A i, j \in Collections(w) : i \in Ahead(w, j) => Before(i, j)
    BY DEF Ahead
  <1>3. \A i, j \in Collections(w) : Before(i, j) => i \in Ahead(w, j)
    BY DEF Ahead
  <1>4. \A i \in Collections(w) : ~Before(i, i)
    BY <1>1
  <1>5. \A i, j \in Collections(w) : i = j \/ Before(i, j) \/ Before(j, i)
    BY <1>1
  <1>6. \A i, j, k \in Collections(w) : Before(i, j) /\ Before(j, k) => Before(i, k)
    BY <1>1
  <1> HIDE DEF Before
  <1> QED BY <1>2, <1>3, <1>4, <1>5, <1>6

LEMMA SoonerOrders ==
    ASSUME NEW w, ListedOK(w)
    PROVE  /\ \A p \in Wanted(w) : ~Sooner(w, p, p)
           /\ \A p, q \in Wanted(w) : p = q \/ Sooner(w, p, q) \/ Sooner(w, q, p)
           /\ \A p, q, x \in Wanted(w) : Sooner(w, p, q) /\ Sooner(w, q, x) => Sooner(w, p, x)
  <1>1. \A p \in Wanted(w) : p[1] \in Collections(w) \cup {Own} /\ p[2] \in Int /\ p = <<p[1], p[2]>>
    BY WantedFinite, VisitedPlaces
  <1>2. Own \notin Collections(w)
    BY VisitedPlaces
  <1>3. \A p, q \in Wanted(w) : p[1] = q[1] /\ p[2] = q[2] => p = q
    BY <1>1
  <1> DEFINE Place(i, j) == i = Own \/ (j # Own /\ i \in Ahead(w, j))
  <1>4. \A p, q : Sooner(w, p, q) = (IF p[1] = q[1] THEN p[2] < q[2] ELSE Place(p[1], q[1]))
    BY DEF Sooner
  <1>5. \A i, j \in Collections(w) \cup {Own} : i = j \/ Place(i, j) \/ Place(j, i)
    BY AheadOrders
  <1>6. \A i, j \in Collections(w) \cup {Own} : i # j /\ Place(i, j) => ~Place(j, i)
    BY AheadOrders
  <1>7. \A i, j, k \in Collections(w) \cup {Own} : i # j /\ j # k /\ Place(i, j) /\ Place(j, k) => Place(i, k)
    BY AheadOrders
  <1> HIDE DEF Place
  <1>8. ASSUME NEW p \in Wanted(w), Sooner(w, p, p) PROVE FALSE
    <2>1. p[2] < p[2]
      BY <1>4, <1>8
    <2> QED BY <2>1, <1>1
  <1>9. ASSUME NEW p \in Wanted(w), NEW q \in Wanted(w), p # q, ~Sooner(w, p, q), ~Sooner(w, q, p) PROVE FALSE
    <2>1. p[1] = q[1]
      BY <1>1, <1>4, <1>5, <1>9
    <2>2. ~(p[2] < q[2]) /\ ~(q[2] < p[2])
      BY <2>1, <1>4, <1>9
    <2>3. p[2] = q[2]
      BY <2>2, <1>1
    <2> QED BY <2>1, <2>3, <1>3, <1>9
  <1>10. ASSUME NEW p \in Wanted(w), NEW q \in Wanted(w), NEW x \in Wanted(w),
                Sooner(w, p, q), Sooner(w, q, x)
         PROVE  Sooner(w, p, x)
    <2>1. CASE p[1] = q[1] /\ q[1] = x[1]
      <3>1. p[2] < q[2] /\ q[2] < x[2]
        BY <2>1, <1>4, <1>10
      <3>2. p[2] < x[2]
        BY <3>1, <1>1
      <3> QED BY <2>1, <3>2, <1>4
    <2>2. CASE p[1] = q[1] /\ q[1] # x[1]
      BY <2>2, <1>4, <1>10
    <2>3. CASE p[1] # q[1] /\ q[1] = x[1]
      BY <2>3, <1>4, <1>10
    <2>4. CASE p[1] # q[1] /\ q[1] # x[1]
      <3>1. Place(p[1], q[1]) /\ Place(q[1], x[1])
        BY <2>4, <1>4, <1>10
      <3>2. p[1] # x[1] /\ Place(p[1], x[1])
        BY <3>1, <2>4, <1>1, <1>6, <1>7
      <3> QED BY <3>2, <1>4
    <2> QED BY <2>1, <2>2, <2>3, <2>4
  <1> QED BY <1>8, <1>9, <1>10

(* No more headers are opened than the budget is for.                      *)
LEMMA BudgetHolds ==
    ASSUME NEW w, ListedOK(w)
    PROVE  LET O == {p \in Wanted(w) : Opens(w, p)} IN
           IsFiniteSet(O) /\ Cardinality(O) \in Nat /\ Cardinality(O) <= MaxHeaderProbes
  <1> DEFINE N == Wanted(w)
             R == {pq \in N \X N : Sooner(w, pq[1], pq[2])}
             Few == FewBefore(N, R, MaxHeaderProbes)
             O == {p \in Wanted(w) : Opens(w, p)}
  <1>1. \A p, q \in N : (<<p, q>> \in R => Sooner(w, p, q)) /\ (Sooner(w, p, q) => <<p, q>> \in R)
    <2> HIDE DEF N
    <2>1. ASSUME NEW p \in N, NEW q \in N, <<p, q>> \in R PROVE Sooner(w, p, q)
      BY <2>1, Zenon
    <2>2. ASSUME NEW p \in N, NEW q \in N, Sooner(w, p, q) PROVE <<p, q>> \in R
      <3>1. <<p, q>> \in N \X N /\ <<p, q>>[1] = p /\ <<p, q>>[2] = q
        OBVIOUS
      <3> QED BY <3>1, <2>2
    <2> QED BY <2>1, <2>2
  <1>2. IsFiniteSet(N) /\ MaxHeaderProbes \in Nat
    BY WantedFinite, ResolverAssumption
  <1>3. Orders(R, N)
    <2>1. \A x \in N : ~Sooner(w, x, x)
      BY SoonerOrders
    <2>2. \A x, y \in N : x = y \/ Sooner(w, x, y) \/ Sooner(w, y, x)
      BY SoonerOrders
    <2>3. \A x, y, z \in N : Sooner(w, x, y) /\ Sooner(w, y, z) => Sooner(w, x, z)
      BY SoonerOrders
    <2> HIDE DEF R, N
    <2> QED BY <1>1, <2>1, <2>2, <2>3, Zenon DEF Orders
  <1>4. \A x \in N : {y \in N : <<y, x>> \in R} = {q \in Wanted(w) : Sooner(w, q, x)}
    <2> HIDE DEF R
    <2> QED BY <1>1
  <1> HIDE DEF R
  <1>5. IsFiniteSet(Few) /\ Cardinality(Few) <= MaxHeaderProbes
    <2> HIDE DEF N
    <2> QED BY <1>2, <1>3, FirstFew
  <1>6. O = Few
    BY <1>4 DEF Opens, FewBefore
  <1>7. Cardinality(O) \in Nat
    BY <1>5, <1>6, FS_CardinalityType
  <1> QED BY <1>5, <1>6, <1>7

LEMMA FileRowIs ==
    ASSUME NEW w, NEW i, NEW stem
    PROVE  /\ FileRow(w, i, stem).repo = RepoAt(w, i) /\ FileRow(w, i, stem).file = stem
           /\ FileRow(w, i, stem).source = "gguf_file" /\ ~FileRow(w, i, stem).launchable
  BY DEF FileRow

LEMMA FileRowOpened ==
    ASSUME NEW w, NEW i, NEW stem
    PROVE  /\ FileRow(w, i, stem).opened => Opens(w, <<i, stem>>)
           /\ FileRow(w, i, stem).said = "unreadable" => FileRow(w, i, stem).opened
  BY DEF FileRow

LEMMA FileRowBytes ==
    ASSUME NEW w, NEW i, NEW stem
    PROVE  FileRow(w, i, stem).bytes = SumAll([f \in OfStem(FilesAt(w, i), stem) |-> f.size])
  BY DEF FileRow

LEMMA OtherRowsAre ==
    ASSUME NEW w, NEW h
    PROVE  /\ SelfRow(w).repo = w.self /\ SelfRow(w).file = 0 /\ SelfRow(w).source = "self"
           /\ ~SelfRow(w).opened /\ SelfRow(w).said = "name"
           /\ SelfRow(w).launchable => ~(Own \in Visited(w) /\ Stems(FilesAt(w, Own)) # {})
           /\ HitRow(h).repo = h.repo /\ HitRow(h).file = 0 /\ ~HitRow(h).opened /\ HitRow(h).said = "name"
           /\ HitRow(h).source # "self" /\ HitRow(h).source # "gguf_file"
  BY DEF SelfRow, HitRow

LEMMA RowIs ==
    ASSUME NEW w, NEW x \in QuantVariants(w)
    PROVE  \/ x = SelfRow(w)
           \/ \E i \in Found(w) : x = HitRow(w.hits[i])
           \/ \E i \in Visited(w) : \E stem \in Stems(FilesAt(w, i)) : x = FileRow(w, i, stem)
  BY DEF QuantVariants, FileVariants

(* A row of files is one of a repository that was opened.                  *)
LEMMA FilesOf ==
    ASSUME NEW w, ListedOK(w), NEW i \in Visited(w)
    PROVE  {y \in QuantVariants(w) : y.repo = RepoAt(w, i) /\ y.source = "gguf_file"}
             = {FileRow(w, i, stem) : stem \in Stems(FilesAt(w, i))}
  <1>1. ASSUME NEW y \in QuantVariants(w), y.repo = RepoAt(w, i), y.source = "gguf_file"
        PROVE  \E stem \in Stems(FilesAt(w, i)) : y = FileRow(w, i, stem)
    <2>1. PICK j \in Visited(w) : \E stem \in Stems(FilesAt(w, j)) : y = FileRow(w, j, stem)
      BY <1>1, RowIs, OtherRowsAre
    <2>2. PICK stem \in Stems(FilesAt(w, j)) : y = FileRow(w, j, stem)
      BY <2>1
    <2>3. y.repo = RepoAt(w, j)
      BY <2>2, FileRowIs
    <2>4. j = i
      BY <2>3, <1>1, VisitedPlaces
    <2> QED BY <2>2, <2>4
  <1>2. ASSUME NEW stem \in Stems(FilesAt(w, i))
        PROVE  /\ FileRow(w, i, stem) \in QuantVariants(w)
               /\ FileRow(w, i, stem).repo = RepoAt(w, i) /\ FileRow(w, i, stem).source = "gguf_file"
    <2>1. FileRow(w, i, stem) \in FileVariants(w, i)
      BY DEF FileVariants
    <2>2. FileRow(w, i, stem) \in UNION {FileVariants(w, j) : j \in Visited(w)}
      BY <2>1, Zenon
    <2>3. FileRow(w, i, stem) \in QuantVariants(w)
      BY <2>2, Zenon DEF QuantVariants
    <2>4. FileRow(w, i, stem).repo = RepoAt(w, i) /\ FileRow(w, i, stem).source = "gguf_file"
      BY FileRowIs
    <2> QED BY <2>3, <2>4
  <1> QED BY <1>1, <1>2

LEMMA AllIsSum == ASSUME NEW f PROVE SumAll(f) = SumOf(f, DOMAIN f)
  BY DEF SumAll, SumOf

(* The rows of a repository come to what its weight files do.              *)
LEMMA RowsSum ==
    ASSUME NEW w, ListedOK(w), NEW i \in Visited(w)
    PROVE  SumAll([x \in {y \in QuantVariants(w) : y.repo = RepoAt(w, i) /\ y.source = "gguf_file"} |-> x.bytes])
             = SumAll([f \in WeightFiles(FilesAt(w, i)) |-> f.size])
  <1> DEFINE fs == FilesAt(w, i)
             F == WeightFiles(fs)
             S == Stems(fs)
             X == {y \in QuantVariants(w) : y.repo = RepoAt(w, i) /\ y.source = "gguf_file"}
             r == [stem \in S |-> FileRow(w, i, stem)]
             b == [x \in X |-> x.bytes]
             c == [f \in F |-> f.size]
             part == [f \in F |-> f.stem]
             g == [stem \in S |-> b[r[stem]]]
  <1>1. X = {r[stem] : stem \in S}
    BY FilesOf
  <1>2. \A stem \in S : r[stem].file = stem /\ b[r[stem]] = SumAll([f \in OfStem(fs, stem) |-> f.size])
    <2>1. ASSUME NEW stem \in S
          PROVE  r[stem].file = stem /\ b[r[stem]] = SumAll([f \in OfStem(fs, stem) |-> f.size])
      <3>1. r[stem] = FileRow(w, i, stem) /\ r[stem] \in X
        BY <1>1
      <3>2. b[r[stem]] = r[stem].bytes
        BY <3>1
      <3>3. FileRow(w, i, stem).file = stem
        BY FileRowIs
      <3>4. FileRow(w, i, stem).bytes = SumAll([f \in OfStem(fs, stem) |-> f.size])
        BY FileRowBytes, Zenon
      <3> HIDE DEF r, b, X, fs
      <3> QED BY <3>1, <3>2, <3>3, <3>4
    <2> QED BY <2>1
  <1>3. /\ IsFiniteSet(F) /\ \A f \in F : f.size \in Int /\ f.stem \in S
        /\ IsFiniteSet(S)
    BY FilesFinite
  <1>4. Summable(c, F)
    BY <1>3 DEF Summable
  <1>5. \A stem \in S : OfStem(fs, stem) = PartWhere(F, part, stem)
    BY DEF OfStem, PartWhere
  <1>6. \A f \in F : part[f] \in S /\ c[f] = f.size
    BY <1>3
  <1>7. DOMAIN b = X /\ DOMAIN c = F /\ \A stem \in S : g[stem] = b[r[stem]]
    OBVIOUS
  <1>8. g = [stem \in S |-> b[r[stem]]]
    OBVIOUS
  <1> HIDE DEF r, b, c, part, g, X
  <1>9. \A stem \in S : g[stem] = SumOf(c, PartWhere(F, part, stem))
    <2>1. ASSUME NEW stem \in S PROVE g[stem] = SumOf(c, PartWhere(F, part, stem))
      <3> DEFINE P == PartWhere(F, part, stem)
                 d == [f \in P |-> f.size]
      <3>1. g[stem] = SumAll(d)
        BY <1>2, <1>5, <1>7
      <3>2. P \in SUBSET F /\ DOMAIN d = P /\ \A x \in P : d[x] = c[x]
        BY <1>6 DEF PartWhere
      <3> HIDE DEF P, d
      <3>3. Summable(c, P)
        BY <1>4, <3>2, SumInside
      <3>4. SumOf(c, P) = SumOf(d, P)
        BY <3>2, <3>3, SumSame
      <3>5. SumAll(d) = SumOf(d, P)
        BY <3>2, AllIsSum
      <3> QED BY <3>1, <3>4, <3>5 DEF P
    <2> QED BY <2>1
  <1>10. Summable(g, S) /\ SumOf(g, S) = SumOf(c, F)
    <2> HIDE DEF F, S
    <2> QED BY <1>3, <1>4, <1>6, <1>9, SumByPart
  <1>12. \A stem \in S : b[r[stem]] \in Int
    BY <1>7, <1>10 DEF Summable
  <1>13. \A s, t \in S : r[s] = r[t] => s = t
    BY <1>2
  <1>14. SumOf(b, X) = SumOf(g, S)
    <2>1. SumOf(b, {r[x] : x \in S}) = SumOf([x \in S |-> b[r[x]]], S)
      <3> HIDE DEF S
      <3> QED BY <1>3, <1>12, <1>13, SumImage
    <2> QED BY <2>1, <1>1, <1>8
  <1>15. SumAll(b) = SumOf(b, X) /\ SumAll(c) = SumOf(c, F)
    BY <1>7, AllIsSum
  <1>16. SumAll(b) = SumAll(c)
    BY <1>10, <1>14, <1>15
  <1> QED BY <1>16 DEF b, c, X

(* What a true listing is, of a hub and the rows that were made of it.     *)
LEMMA OpenedFew ==
    ASSUME NEW w, ListedOK(w)
    PROVE  Cardinality({x \in QuantVariants(w) : x.opened}) <= MaxHeaderProbes
  <1> DEFINE O == {p \in Wanted(w) : Opens(w, p)}
             r == [p \in O |-> FileRow(w, p[1], p[2])]
             Image == {r[p] : p \in O}
             X == {x \in QuantVariants(w) : x.opened}
  <1>1. IsFiniteSet(O) /\ Cardinality(O) \in Nat /\ Cardinality(O) <= MaxHeaderProbes
    BY BudgetHolds
  <1>2. IsFiniteSet(Image) /\ Cardinality(Image) <= Cardinality(O)
    <2> HIDE DEF O, r
    <2> QED BY <1>1, FiniteImage
  <1>3. X \in SUBSET Image
    <2>1. ASSUME NEW x \in QuantVariants(w), x.opened PROVE x \in Image
      <3>1. PICK i \in Visited(w) : \E stem \in Stems(FilesAt(w, i)) : x = FileRow(w, i, stem)
        BY <2>1, RowIs, OtherRowsAre
      <3>2. PICK stem \in Stems(FilesAt(w, i)) : x = FileRow(w, i, stem)
        BY <3>1
      <3> DEFINE p == <<i, stem>>
      <3>3. Opens(w, p)
        BY <2>1, <3>2, FileRowOpened
      <3>4. p \in O /\ p[1] = i /\ p[2] = stem
        BY <3>3 DEF Opens
      <3> HIDE DEF O, p
      <3>5. r[p] = x
        BY <3>2, <3>4
      <3> HIDE DEF r
      <3> QED BY <3>4, <3>5
    <2> HIDE DEF Image
    <2> QED BY <2>1
  <1> HIDE DEF Image, X, O
  <1>4. IsFiniteSet(X) /\ Cardinality(X) <= Cardinality(Image)
    BY <1>2, <1>3, FS_Subset
  <1>5. Cardinality(X) \in Nat /\ Cardinality(Image) \in Nat /\ MaxHeaderProbes \in Nat
    BY <1>2, <1>4, FS_CardinalityType, ResolverAssumption
  <1>6. Cardinality(X) <= MaxHeaderProbes
    BY <1>1, <1>2, <1>4, <1>5
  <1> QED BY <1>6 DEF X

(* A place and a stem name a row, and a repository without a file one.     *)
LEMMA RowsApart ==
    ASSUME NEW w, ListedOK(w), NEW x \in QuantVariants(w), NEW y \in QuantVariants(w),
           x.repo = y.repo, x.file = y.file
    PROVE  x = y
  <1> DEFINE Hit(z) == \E i \in Found(w) : z = HitRow(w.hits[i])
             File(z) == \E i \in Visited(w) : \E stem \in Stems(FilesAt(w, i)) : z = FileRow(w, i, stem)
  <1>1. \A z \in QuantVariants(w) : z = SelfRow(w) \/ Hit(z) \/ File(z)
    BY RowIs
  <1>2. SelfRow(w).repo = w.self /\ SelfRow(w).file = 0
    BY OtherRowsAre
  <1>3. ASSUME NEW z, Hit(z) PROVE z.file = 0 /\ \E i \in Found(w) : z = HitRow(w.hits[i]) /\ z.repo = w.hits[i].repo
    BY <1>3, OtherRowsAre
  <1>4. \A i \in Found(w) : w.hits[i].repo # w.self
    BY VisitedPlaces
  <1>5. \A i, j \in Found(w) : w.hits[i].repo = w.hits[j].repo => i = j
    BY VisitedPlaces DEF ListedOK
  <1>6. ASSUME NEW z, File(z)
        PROVE  z.file # 0 /\ \E i \in Visited(w) : z.repo = RepoAt(w, i) /\ z = FileRow(w, i, z.file)
    <2>1. PICK i \in Visited(w) : \E stem \in Stems(FilesAt(w, i)) : z = FileRow(w, i, stem)
      BY <1>6
    <2>2. PICK stem \in Stems(FilesAt(w, i)) : z = FileRow(w, i, stem)
      BY <2>1
    <2>3. z.repo = RepoAt(w, i) /\ z.file = stem
      BY <2>2, FileRowIs
    <2>4. stem # 0
      BY FilesFinite
    <2> QED BY <2>2, <2>3, <2>4
  <1>7. \A i, j \in Visited(w) : RepoAt(w, i) = RepoAt(w, j) => i = j
    BY VisitedPlaces
  <1> HIDE DEF Hit, File
  <1>8. CASE File(x) /\ File(y)
    <2>1. PICK i \in Visited(w) : x.repo = RepoAt(w, i) /\ x = FileRow(w, i, x.file)
      BY <1>6, <1>8
    <2>2. PICK j \in Visited(w) : y.repo = RepoAt(w, j) /\ y = FileRow(w, j, y.file)
      BY <1>6, <1>8
    <2>3. i = j
      BY <2>1, <2>2, <1>7
    <2> QED BY <2>1, <2>2, <2>3
  <1>9. CASE x = SelfRow(w) \/ Hit(x)
    <2>1. x.file = 0
      BY <1>2, <1>3, <1>9
    <2>2. y = SelfRow(w) \/ Hit(y)
      BY <2>1, <1>1, <1>6
    <2>3. CASE x = SelfRow(w)
      <3>1. ~Hit(y)
        BY <2>3, <1>2, <1>3, <1>4
      <3> QED BY <2>2, <2>3, <3>1
    <2>4. CASE Hit(x)
      <3>1. PICK i \in Found(w) : x = HitRow(w.hits[i]) /\ x.repo = w.hits[i].repo
        BY <2>4, <1>3
      <3>2. y # SelfRow(w)
        BY <3>1, <1>2, <1>4
      <3>3. PICK j \in Found(w) : y = HitRow(w.hits[j]) /\ y.repo = w.hits[j].repo
        BY <2>2, <3>2, <1>3
      <3>4. i = j
        BY <3>1, <3>3, <1>5
      <3> QED BY <3>1, <3>3, <3>4
    <2> QED BY <1>9, <2>3, <2>4
  <1>10. CASE (y = SelfRow(w) \/ Hit(y)) /\ File(x)
    BY <1>10, <1>2, <1>3, <1>6
  <1> QED BY <1>1, <1>8, <1>9, <1>10

(* A repository that is offered to launch has no builds of its own.        *)
LEMMA SelfAlone ==
    ASSUME NEW w, ListedOK(w), NEW x \in QuantVariants(w), x.source = "self", x.launchable,
           NEW y \in QuantVariants(w), y.repo = x.repo
    PROVE  y = x
  <1>1. x = SelfRow(w)
    BY RowIs, OtherRowsAre, FileRowIs
  <1>2. ~(Own \in Visited(w) /\ Stems(FilesAt(w, Own)) # {}) /\ x.repo = w.self
    BY <1>1, OtherRowsAre
  <1>3. CASE \E i \in Found(w) : y = HitRow(w.hits[i])
    <2>1. PICK i \in Found(w) : y = HitRow(w.hits[i])
      BY <1>3
    <2>2. y.repo = w.hits[i].repo /\ w.hits[i].repo # w.self
      BY <2>1, OtherRowsAre, VisitedPlaces
    <2> QED BY <2>2, <1>2
  <1>4. CASE \E i \in Visited(w) : \E stem \in Stems(FilesAt(w, i)) : y = FileRow(w, i, stem)
    <2>1. PICK i \in Visited(w) : \E stem \in Stems(FilesAt(w, i)) : y = FileRow(w, i, stem)
      BY <1>4
    <2>2. PICK stem \in Stems(FilesAt(w, i)) : y = FileRow(w, i, stem)
      BY <2>1
    <2>3. RepoAt(w, i) = w.self
      BY <2>2, <1>2, FileRowIs
    <2>4. i = Own
      <3>1. i # Own => i \in Found(w) /\ RepoAt(w, i) = w.hits[i].repo
        BY VisitedPlaces DEF RepoAt
      <3> QED BY <3>1, <2>3, VisitedPlaces
    <2> QED BY <2>4, <2>2, <1>2
  <1> QED BY <1>1, <1>3, <1>4, RowIs

(* What is on offer was made of one hub.                                   *)
ListedInv == builds = Unlisted \/ \E w \in Listings : builds = [world |-> w, rows |-> QuantVariants(w)]

LEMMA ListedIsTrue ==
    ASSUME ListingsOK, ListedInv
    PROVE  ListingTrue
  <1>1. CASE builds = Unlisted
    <2>1. builds.rows = {}
      BY <1>1 DEF Unlisted
    <2>2. TrueListing(builds.world, {})
      <3>1. {x \in {} : x.opened} = {} /\ {x.repo : x \in {y \in {} : y.source = "gguf_file"}} = {}
        OBVIOUS
      <3>2. Cardinality({x \in {} : x.opened}) <= MaxHeaderProbes
        BY <3>1, FS_EmptySet, ResolverAssumption
      <3> QED BY <3>1, <3>2 DEF TrueListing
    <2> QED BY <2>1, <2>2 DEF ListingTrue
  <1>2. ASSUME NEW w \in Listings, builds = [world |-> w, rows |-> QuantVariants(w)] PROVE ListingTrue
    <2>1. builds.world = w /\ builds.rows = QuantVariants(w)
      BY <1>2
    <2>2. ListedOK(w)
      BY DEF ListingsOK
    <2> DEFINE rows == QuantVariants(w)
    <2>3. Cardinality({x \in rows : x.opened}) <= MaxHeaderProbes
      BY <2>2, OpenedFew
    <2>4. ASSUME NEW repo \in {x.repo : x \in {y \in rows : y.source = "gguf_file"}}
          PROVE  SumAll([x \in {y \in rows : y.repo = repo /\ y.source = "gguf_file"} |-> x.bytes])
                   = SumAll([f \in WeightFiles(w.files[repo]) |-> f.size])
      <3>1. PICK y \in rows : y.source = "gguf_file" /\ repo = y.repo
        BY <2>4
      <3>2. PICK i \in Visited(w) : \E stem \in Stems(FilesAt(w, i)) : y = FileRow(w, i, stem)
        BY <3>1, RowIs, OtherRowsAre
      <3>3. repo = RepoAt(w, i) /\ Stems(FilesAt(w, i)) # {}
        BY <3>1, <3>2, FileRowIs
      <3>4. FilesAt(w, i) = w.files[repo]
        <4>1. WeightFiles(FilesAt(w, i)) # {}
          BY <3>3 DEF Stems
        <4> QED BY <4>1, <2>2, <3>3, FilesFinite
      <3> HIDE DEF rows
      <3>5. SumAll([x \in {z \in rows : z.repo = RepoAt(w, i) /\ z.source = "gguf_file"} |-> x.bytes])
              = SumAll([f \in WeightFiles(FilesAt(w, i)) |-> f.size])
        BY <2>2, RowsSum DEF rows
      <3> QED BY <3>3, <3>4, <3>5
    <2>5. \A x \in rows : x.said = "unreadable" => x.opened
      <3>1. ASSUME NEW x \in rows, x.said = "unreadable" PROVE x.opened
        <4>1. PICK i \in Visited(w) : \E stem \in Stems(FilesAt(w, i)) : x = FileRow(w, i, stem)
          BY <3>1, RowIs, OtherRowsAre
        <4>2. PICK stem \in Stems(FilesAt(w, i)) : x = FileRow(w, i, stem)
          BY <4>1
        <4> QED BY <3>1, <4>2, FileRowOpened
      <3> QED BY <3>1
    <2>6. \A x, y \in rows : x.repo = y.repo /\ x.file = y.file => x = y
      BY <2>2, RowsApart
    <2>7. \A x \in rows : x.source = "self" /\ x.launchable => ~\E y \in rows : y.repo = x.repo /\ y # x
      BY <2>2, SelfAlone
    <2>8. TrueListing(w, rows)
      <3> HIDE DEF rows
      <3> QED BY <2>3, <2>4, <2>5, <2>6, <2>7 DEF TrueListing
    <2> QED BY <2>1, <2>8 DEF ListingTrue
  <1> QED BY <1>1, <1>2 DEF ListedInv

LEMMA ListedKept == ASSUME ListedInv, [ResolverNext]_resolverVars PROVE ListedInv'
  <1>1. CASE UNCHANGED resolverVars
    BY <1>1 DEF resolverVars, ListedInv
  <1>2. CASE ResolverNext
    <2>1. ASSUME NEW w \in Listings, ListVariants(w) PROVE ListedInv'
      BY <2>1 DEF ListVariants, ListedInv
    <2>2. ASSUME UNCHANGED builds PROVE ListedInv'
      BY <2>2 DEF ListedInv
    <2>3. (\E w \in Listings : ListVariants(w)) \/ UNCHANGED builds
      BY <1>2 DEF ResolverNext, ResolverAsk, ResolverReads, ResolverProceed, ResolveFull, Push, RestartResolver, ReadOne,
                  ReadConfig, ReadModelInfo, BuildAndPut, SupportedBy, ResolveReturns, ProbeImage, ResolverTicks
    <2> QED BY <2>1, <2>2, <2>3
  <1> QED BY <1>1, <1>2

(* A listing of builds offers every weight file of a repository once, with *)
(* its size, opens no more headers than its budget and says which it did   *)
(* not open, and offers no collection of files to launch                   *)
(* (quant_variants(), _gguf_file_variants()).                              *)
THEOREM ListingsAreTrue == ASSUME ListingsOK PROVE ResolverSpec => []ListingTrue
  <1>1. ResolverInit => ListedInv
    BY DEF ResolverInit, ListedInv
  <1>2. ListedInv /\ [ResolverNext]_resolverVars => ListedInv'
    BY ListedKept
  <1>3. ListedInv => ListingTrue
    BY ListedIsTrue
  <1> QED BY <1>1, <1>2, <1>3, PTL DEF ResolverSpec

(* The model resolver keeps its promise.                                   *)
THEOREM ResolverKeepsItsPromise ==
    ASSUME CachingOn, ArchsNamed, ConfigsCounted, ListingsOK
    PROVE  ResolverSpec => ResolverPromise
  BY CacheKeepsItsPromise, ResolvedIsRemembered, CountIsBacked, ListingsAreTrue, PTL DEF ResolverPromise
=============================================================================
