----------------------------- MODULE Inventory -----------------------------
(***************************************************************************)
(* inventory/service.py, build.py, api.py and db.py with /api/storage of   *)
(* gateway/internal_api.py and registry/modelcache.py: one table of models *)
(* put together from five feeds, with a digest that says whether anything  *)
(* moved, and the weights on the disks of the nodes.                       *)
(*                                                                         *)
(* A digest stands for what it was taken of.  Every write is a transaction *)
(* under the store's lock.                                                 *)
(***************************************************************************)
EXTENDS Integers, FiniteSets

CONSTANTS
    Models,        \* model ids
    Curated,       \* fit.catalog.CURATED_MODELS
    Folders,       \* cache folders
    FolderOf,      \* FolderOf[m]: folder_for(m); two ids may share one
    RepoOf,        \* RepoOf[f]: repo_from_folder(f), a model id
    Machines,      \* nodes that can be in the roster
    Polls,         \* GET /api/storage requests
    MaxRevision

ASSUME InventoryAssumption ==
    /\ Curated \subseteq Models /\ FolderOf \in [Models -> Folders] /\ RepoOf \in [Folders -> Models]
    /\ MaxRevision \in Nat

VARIABLES
    deployed,      \* deployed[m]: state of its deployment
    published,     \* published[m]: "no", "offered" or "served" by the provider
    peers,        \* the registry's nodes
    disks,         \* disks[n]: folders with weights
    table,         \* the fast tables, as built; or "empty"
    digest,        \* fast_digest
    fine,          \* fine[s]: ok of sources, "none" before there is a row
    held,          \* held[n]: rows of model_cache
    scans,         \* scans[n]: "none", "read" or "unread" (cache_scans)
    cacheDigest,
    revision,
    poll,          \* poll[q]: a storage request and what it measured
    deleting,      \* a DELETE of weights between its check and the agent
    answered       \* answered[s]: did feed s answer last time (history)

inventoryVars == <<deployed, published, peers, disks, table, digest, fine, held, scans,
                   cacheDigest, revision, poll, deleting, answered>>
world == <<deployed, published, peers, disks>>

Feeds == {"deployments", "providers"}
Live == {"launching", "ready"}
NoPoll == [at |-> "idle", report |-> << >>]
NotDeleting == [node |-> "none", folder |-> "none"]
Records == [Models -> SUBSET {"running", "catalog", "provider", "offered"}]
Unread == {"unread"}           \* a node whose agent did not answer
NoDigest == [none |-> Unread]

InventoryTypeOK ==
    /\ deployed \in [Models -> Live \cup {"none", "stopped"}]
    /\ published \in [Models -> {"no", "offered", "served"}]
    /\ peers \subseteq Machines /\ disks \in [Machines -> SUBSET Folders]
    /\ table \in Records /\ digest \in Records \cup {<<>>}
    /\ fine \in [Feeds -> {"none", "ok", "failed"}]
    /\ held \in [Machines -> SUBSET Folders]
    /\ scans \in [Machines -> {"none", "read", "unread"}]
    /\ revision \in 0 .. MaxRevision

----------------------------------------------------------------------------
(* build(): a model is listed for every feed that names it.                *)
Build ==
    [m \in Models |->
        {f \in {"running", "catalog", "provider", "offered"} :
            \/ f = "running" /\ deployed[m] # "none"
            \/ f = "catalog" /\ m \in Curated
            \/ f = "provider" /\ published[m] = "served"
            \/ f = "offered" /\ published[m] = "offered"}]

MutNoteSources(failed, counted) ==
    [s \in Feeds |-> CASE counted -> IF s \in failed THEN fine[s] ELSE "ok"
                       [] OTHER   -> IF fine[s] = "none" THEN "ok" ELSE fine[s]]

(* _note_sources(): a feed that failed says so; one that answered is noted *)
(* as such when the tables were written, and otherwise only touched.       *)
NoteSources(failed, counted) ==
    [s \in Feeds |-> CASE s \in failed -> "failed"
                       [] s \notin failed /\ counted -> "ok"
                       [] OTHER -> IF fine[s] = "none" THEN "ok" ELSE fine[s]]

MutBumped == revision

(* _bump_revision()                                                        *)
Bumped == revision + 1

(* refresh_from_ports() and refresh_fast(): a feed that failed leaves the  *)
(* tables of all of them as they are; so does a digest that is unchanged.  *)
RefreshFast(failed) ==
    /\ revision < MaxRevision
    /\ answered' = [s \in Feeds |-> s \notin failed]
    /\ IF failed # {} \/ digest = Build
       THEN fine' = NoteSources(failed, FALSE) /\ UNCHANGED <<table, digest, revision>>
       ELSE /\ table' = Build /\ digest' = Build
            /\ fine' = NoteSources({}, TRUE)
            /\ revision' = Bumped
    /\ UNCHANGED <<world, held, scans, cacheDigest, poll, deleting>>

----------------------------------------------------------------------------
(* modelcache.scan() on an agent; an agent that does not answer is "unread"*)
StoragePoll(q, silent) ==
    /\ poll[q].at = "idle" /\ silent \subseteq peers
    /\ poll' = [poll EXCEPT ![q] = [at |-> "measured",
            report |-> [n \in peers |-> IF n \in silent THEN Unread ELSE disks[n]]]]
    /\ UNCHANGED <<world, table, digest, fine, held, scans, cacheDigest, revision, deleting, answered>>

MutHeldAfter(report) ==
    [n \in Machines |-> IF n \notin DOMAIN report THEN held[n]
                        ELSE IF report[n] = Unread THEN {} ELSE report[n]]

MutHeldUnread(report) ==
    [n \in Machines |-> IF n \in DOMAIN report THEN report[n] ELSE held[n]]

MutHeldAdded(report) ==
    [n \in Machines |-> IF n \in DOMAIN report /\ report[n] # Unread THEN held[n] \cup report[n] ELSE held[n]]

(* refresh_cache(): a node that was not read keeps the rows it had.        *)
HeldAfter(report) ==
    [n \in Machines |-> IF n \in DOMAIN report /\ report[n] # Unread THEN report[n] ELSE held[n]]

RefreshCache(q) ==
    /\ poll[q].at = "measured" /\ revision < MaxRevision
    /\ poll' = [poll EXCEPT ![q].at = "stored"]
    /\ IF cacheDigest = poll[q].report THEN UNCHANGED <<held, scans, cacheDigest, revision>>
       ELSE LET report == poll[q].report IN
            /\ held' = HeldAfter(report)
            /\ scans' = [n \in Machines |-> IF n \notin DOMAIN report THEN scans[n]
                                            ELSE IF report[n] = Unread THEN "unread" ELSE "read"]
            /\ cacheDigest' = report
            /\ revision' = Bumped
    /\ UNCHANGED <<world, table, digest, fine, deleting, answered>>

(* drop_nodes(): those that were scanned and have left the roster; never   *)
(* all of them for a roster that could not be read.                        *)
Dropped(keep) == IF keep = {} THEN {} ELSE {n \in Machines : scans[n] # "none" /\ n \notin keep}

DropNodes(q) ==
    /\ poll[q].at = "stored" /\ revision < MaxRevision
    /\ LET gone == Dropped(DOMAIN poll[q].report) IN
       /\ held' = [n \in Machines |-> IF n \in gone THEN {} ELSE held[n]]
       /\ scans' = [n \in Machines |-> IF n \in gone THEN "none" ELSE scans[n]]
       /\ revision' = IF gone = {} THEN revision ELSE Bumped
    /\ poll' = [poll EXCEPT ![q] = NoPoll]
    /\ UNCHANGED <<world, table, digest, fine, cacheDigest, deleting, answered>>

(* _open(): the file is read again, or was not a database, or is of        *)
(* another version, and starts empty.                                      *)
ReopenInventory(kept) ==
    /\ IF kept THEN UNCHANGED <<table, digest, fine, held, scans, cacheDigest, revision>>
       ELSE /\ table' = [m \in Models |-> {}] /\ digest' = << >>
            /\ fine' = [s \in Feeds |-> "none"]
            /\ held' = [n \in Machines |-> {}] /\ scans' = [n \in Machines |-> "none"]
            /\ cacheDigest' = NoDigest /\ revision' = 0
    /\ poll' = [q \in Polls |-> NoPoll] /\ deleting' = NotDeleting
    /\ UNCHANGED <<world, answered>>

----------------------------------------------------------------------------
MutInUse(f) == \E m \in Models : deployed[m] = "ready" /\ RepoOf[f] = m

(* delete_cached_model(): not the weights of what is deployed, by the      *)
(* folder and not by the name.                                             *)
InUse(f) == \E m \in Models : deployed[m] \in Live /\ FolderOf[m] = f

CheckDelete(n, f) ==
    /\ deleting = NotDeleting /\ n \in peers /\ ~InUse(f)
    /\ deleting' = [node |-> n, folder |-> f]
    /\ UNCHANGED <<world, table, digest, fine, held, scans, cacheDigest, revision, poll, answered>>

(* modelcache.delete() on the agent; or no answer.                         *)
AgentDeletes(done) ==
    /\ deleting # NotDeleting
    /\ disks' = IF done THEN [disks EXCEPT ![deleting.node] = @ \ {deleting.folder}] ELSE disks
    /\ deleting' = NotDeleting
    /\ UNCHANGED <<deployed, published, peers, table, digest, fine, held, scans, cacheDigest,
                   revision, poll, answered>>

(* The world: a deployment moves on, and a launch downloads its weights; a *)
(* provider's catalogue changes; a node joins or leaves.                   *)
Deploy(m, state) ==
    /\ CASE state = "launching" -> deployed[m] \in {"none", "stopped"} /\ FolderOf[m] # deleting.folder
         [] state = "ready"     -> deployed[m] = "launching"
         [] state = "stopped"   -> deployed[m] \in Live
         [] state = "none"      -> deployed[m] = "stopped"
    /\ deployed' = [deployed EXCEPT ![m] = state]
    /\ disks' = IF state # "launching" THEN disks
                ELSE [n \in Machines |-> IF n \in peers THEN disks[n] \cup {FolderOf[m]} ELSE disks[n]]
    /\ UNCHANGED <<published, peers, table, digest, fine, held, scans, cacheDigest, revision,
                   poll, deleting, answered>>
Publish(m, how) ==
    /\ published[m] # how /\ published' = [published EXCEPT ![m] = how]
    /\ UNCHANGED <<deployed, peers, disks, table, digest, fine, held, scans, cacheDigest,
                   revision, poll, deleting, answered>>
ChangeRoster(n) ==
    /\ peers' = IF n \in peers THEN peers \ {n} ELSE peers \cup {n}
    /\ UNCHANGED <<deployed, published, disks, table, digest, fine, held, scans, cacheDigest,
                   revision, poll, deleting, answered>>

InventoryInit ==
    /\ deployed = [m \in Models |-> "none"] /\ published = [m \in Models |-> "no"]
    /\ peers \in SUBSET Machines \ {{}} /\ disks = [n \in Machines |-> {}]
    /\ table = [m \in Models |-> {}] /\ digest = << >>
    /\ fine = [s \in Feeds |-> "none"] /\ answered = [s \in Feeds |-> TRUE]
    /\ held = [n \in Machines |-> {}] /\ scans = [n \in Machines |-> "none"]
    /\ cacheDigest = NoDigest /\ revision = 0
    /\ poll = [q \in Polls |-> NoPoll] /\ deleting = NotDeleting

InventoryWorld ==
    \/ \E m \in Models : \/ \E state \in {"none", "launching", "ready", "stopped"} : Deploy(m, state)
                         \/ \E how \in {"no", "offered", "served"} : Publish(m, how)
    \/ \E n \in Machines : ChangeRoster(n)

InventoryStep ==
    \/ \E failed \in SUBSET Feeds : RefreshFast(failed)
    \/ \E q \in Polls : (\E silent \in SUBSET peers : StoragePoll(q, silent))
                            \/ RefreshCache(q) \/ DropNodes(q)
    \/ \E kept \in BOOLEAN : ReopenInventory(kept)
    \/ \E n \in Machines, f \in Folders : CheckDelete(n, f)
    \/ \E done \in BOOLEAN : AgentDeletes(done)

InventorySpec == InventoryInit /\ [][InventoryWorld \/ InventoryStep]_inventoryVars

----------------------------------------------------------------------------
(* Properties.                                                             *)

(* list_models(): what the Models tab shows, with what is on disk.         *)
Shown == [m \in Models |-> table[m] \cup
            {"ondisk" : n \in {k \in Machines : \E f \in held[k] : RepoOf[f] = m}}]

(* The revision "exists so a reader can tell a change from a re-poll": no  *)
(* reader can see the list differ under the same revision.                 *)
RevisionHonest == [][Shown' # Shown => revision' # revision]_inventoryVars

(* sources(): a feed is shown as healthy only if it answered when it was   *)
(* last asked, whatever the other feed did and whatever was skipped.       *)
HealthyAnswered == \A s \in Feeds : fine[s] = "ok" => answered[s]

(* refresh_cache(): "A node whose agent did not answer keeps the rows it   *)
(* had": rows go only when a reading of that node says so, or a roster     *)
(* that was read does not have it.                                         *)
RowsKept ==
    [][\A n \in Machines : held'[n] # held[n] =>
        \/ revision' = 0
        \/ \E q \in Polls : /\ poll'[q] # poll[q]
                            /\ \/ n \in DOMAIN poll[q].report /\ poll[q].report[n] = held'[n]
                               \/ n \notin DOMAIN poll[q].report /\ poll[q].report # << >>]_inventoryVars

(* delete_cached_model(): no folder goes from a disk while a model that is *)
(* served from it is launching or ready, under whichever of its names.     *)
(* What is launched while the agent is at it is left out here.             *)
WeightsInUse ==
    [][\A n \in Machines, m \in Models :
        deployed[m] \in Live /\ FolderOf[m] \in disks[n] => FolderOf[m] \in disks'[n]]_inventoryVars

(* "Per-feed health, verbatim": a feed shown as failed did not answer when *)
(* it was last asked.                                                      *)
FailedDidNot == \A s \in Feeds : fine[s] = "failed" => ~answered[s]

(* The digest lets a reading be skipped because the rows already say it.   *)
SkippedIsStored ==
    \A n \in DOMAIN cacheDigest : cacheDigest[n] # Unread => held[n] = cacheDigest[n]

(* drop_nodes() "forgets nodes that left the roster" (inventory/README.md  *)
(* 44): a node on the roster keeps the rows of the reading that the digest *)
(* remembers, since the same reading would not be stored again.            *)
OnRosterKept == \A n \in peers \cap DOMAIN cacheDigest : cacheDigest[n] # Unread => held[n] = cacheDigest[n]

(* What the inventory promises while fetches, readings of the nodes and    *)
(* deletions overlap: a feed shown healthy has answered, a reading is      *)
(* skipped only when the rows say the same, the revision moves whenever    *)
(* the list does, a silent node keeps its rows, and no weights go that are *)
(* being served.                                                           *)
InventoryPromise ==
    [](InventoryTypeOK /\ HealthyAnswered /\ SkippedIsStored)
    /\ RevisionHonest /\ RowsKept /\ WeightsInUse
=============================================================================
