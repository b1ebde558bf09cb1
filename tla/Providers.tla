------------------------------ MODULE Providers ----------------------------
(***************************************************************************)
(* providers/service.py with providers/runtime.py, store.py and            *)
(* secrets.py: the upstream APIs the gateway can send a request to.        *)
(*                                                                         *)
(* A request and a refresh take the provider's entry and go on using it    *)
(* across their awaits.  An entry that has been removed meanwhile is       *)
(* written to all the same and nobody reads it: such a call is no longer   *)
(* `attached`.  Amounts are counted in requests' worth.                    *)
(***************************************************************************)
EXTENDS Integers, FiniteSets

CONSTANTS
    Provs,         \* provider ids
    NeedsKey,      \* those whose kind requires a key
    Refs,          \* names a key can be stored under
    MintedRef,     \* MintedRef[p]: minted_ref(p)
    Sends,         \* requests
    Budget,        \* daily_budget_usd
    Retries        \* SERVER_ERROR_RETRIES

ASSUME ProvsAssumption == NeedsKey \subseteq Provs /\ MintedRef \in [Provs -> Refs]
ASSUME BudgetAssumption == Budget \in Nat \ {0} /\ Retries \in Nat /\ IsFiniteSet(Sends)
ASSUME RefsAssumption == Refs \cap {"none", "absent"} = {}

VARIABLES
    entry,         \* entry[p], or Absent
    keyed,         \* refs that resolve, in the environment or secrets.json
    saved,         \* providers.json: what of entry[p] is on file, or Absent
    dirty,         \* _spend_dirty
    send,          \* send[r]: where request r is
    fetch,         \* fetch[p]: a refresh awaiting the model list, or "no"
    wanted,        \* providers the operator has last asked to be on (history)
    torn,          \* those whose last patch was refused half way (history)
    works          \* providers whose upstream accepts what it is sent now

providerVars == <<entry, keyed, saved, dirty, send, fetch, wanted, torn, works>>

Absent == [ref |-> "absent"]

(* Provider, ProviderRuntime and _Entry.  backoff: failure_backoff_until   *)
(* is 0, ahead or passed; limited: backoff_until is ahead.                 *)
Entries ==
    [ref: Refs \cup {"none"}, enabled: BOOLEAN, autoOff: BOOLEAN, missing: BOOLEAN,
     healthy: BOOLEAN, rejected: BOOLEAN, backoff: {"none", "running", "over"},
     limited: BOOLEAN, listed: BOOLEAN, spend: 0 .. Budget + Cardinality(Sends),
     outstanding: 0 .. Cardinality(Sends)]
OnFileRecords ==
    [ref: Refs \cup {"none"}, enabled: BOOLEAN, listed: BOOLEAN,
     spend: 0 .. Budget + Cardinality(Sends)]

NotSent == [at |-> "idle", p |-> "none", attached |-> FALSE, tries |-> 0]
SendStages == {"idle", "prepared", "sent", "body"}

ProvidersTypeOK ==
    /\ entry \in [Provs -> Entries \cup {Absent}]
    /\ keyed \subseteq Refs /\ wanted \subseteq Provs /\ torn \subseteq Provs /\ works \subseteq Provs
    /\ saved \in [Provs -> OnFileRecords \cup {Absent}]
    /\ dirty \in BOOLEAN
    /\ send \in [Sends -> [at: SendStages, p: Provs \cup {"none"}, attached: BOOLEAN,
                           tries: 0 .. Retries]]
    /\ fetch \in [Provs -> {"no", "attached", "detached"}]

(* Operators name references of their own, not ones minted for another.    *)
OwnNames == Refs \ {MintedRef[p] : p \in Provs}

Here == {p \in Provs : entry[p] # Absent}

----------------------------------------------------------------------------
(* half_open(), which _sync() calls before anything reads the entry: past  *)
(* the backoff of a failure the provider may be tried; a refused key is    *)
(* never retried on a timer.                                               *)
HalfOpen(e) ==
    [e EXCEPT !.healthy = @ \/ (~e.rejected /\ e.backoff = "over")]

(* provider_to_dict(): auto_disabled, health and backoff are not written.  *)
Record(e) == [ref |-> e.ref, enabled |-> e.enabled, listed |-> e.listed, spend |-> e.spend]

(* _persist() of the entries es: each is brought up to date and all are    *)
(* written, in one atomic file.                                            *)
PersistAll(es) ==
    /\ entry' = [p \in Provs |-> IF es[p] = Absent THEN Absent ELSE HalfOpen(es[p])]
    /\ saved' = [p \in Provs |-> IF es[p] = Absent THEN Absent ELSE Record(es[p])]
    /\ dirty' = FALSE

(* A kind that needs a key, or a reference an operator named.              *)
KeyNeeded(p, e) == p \in NeedsKey \/ e.ref # "none"

MutCheckKey(p, e, keys) ==
    IF ~KeyNeeded(p, e) THEN [e EXCEPT !.missing = FALSE]
    ELSE IF e.ref \in keys
    THEN IF ~e.missing THEN e
         ELSE [e EXCEPT !.missing = FALSE, !.healthy = TRUE, !.enabled = TRUE, !.autoOff = FALSE]
    ELSE [e EXCEPT !.autoOff = @ \/ e.enabled, !.enabled = FALSE, !.missing = TRUE,
                   !.healthy = FALSE]

(* _check_key(): no key behind the reference switches the provider off and *)
(* remembers that it did; a key that is back undoes just that.             *)
CheckKey(p, e, keys) ==
    IF ~KeyNeeded(p, e) THEN [e EXCEPT !.missing = FALSE]
    ELSE IF e.ref \in keys
    THEN IF ~e.missing THEN e
         ELSE [e EXCEPT !.missing = FALSE, !.healthy = TRUE,
                        !.enabled = @ \/ e.autoOff, !.autoOff = FALSE]
    ELSE [e EXCEPT !.autoOff = @ \/ e.enabled, !.enabled = FALSE, !.missing = TRUE,
                   !.healthy = FALSE]

Fresh(ref, on) ==
    [ref |-> ref, enabled |-> on, autoOff |-> FALSE, missing |-> FALSE, healthy |-> TRUE,
     rejected |-> FALSE, backoff |-> "none", limited |-> FALSE, listed |-> FALSE, spend |-> 0,
     outstanding |-> 0]

(* _register(): a key given with it is stored under the reference named,   *)
(* or one minted for the id (_store_key()); a kind that needs a key gets   *)
(* one or the other.                                                       *)
Register(p, ref, withKey, on) ==
    LET r == IF ref = "none" /\ withKey THEN MintedRef[p] ELSE ref IN
    /\ entry[p] = Absent
    /\ p \in NeedsKey => r # "none"
    /\ keyed' = IF withKey THEN keyed \cup {r} ELSE keyed
    /\ PersistAll([entry EXCEPT ![p] = CheckKey(p, Fresh(r, on), keyed')])
    /\ wanted' = IF on THEN wanted \cup {p} ELSE wanted \ {p}
    /\ torn' = torn \ {p}
    /\ UNCHANGED <<send, fetch, works>>

(* update() with enabled: the operator's word, and then the key's.         *)
Enable(p, on) ==
    /\ p \in Here
    /\ LET e == [entry[p] EXCEPT !.enabled = on, !.autoOff = FALSE] IN
       PersistAll([entry EXCEPT ![p] = IF on THEN CheckKey(p, e, keyed) ELSE e])
    /\ wanted' = IF on THEN wanted \cup {p} ELSE wanted \ {p}
    /\ torn' = torn \ {p}
    /\ UNCHANGED <<keyed, send, fetch, works>>

(* update() with api_key_ref, api_key or both: a key is stored under the   *)
(* reference the patch names, and else under a minted one, never under the *)
(* operator's own.  One the key switched off comes back.                   *)
SetRef(p, ref, withKey) ==
    /\ p \in Here
    /\ keyed' = IF withKey THEN keyed \cup {ref} ELSE keyed
    /\ LET e == [entry[p] EXCEPT !.ref = ref] IN
       PersistAll([entry EXCEPT ![p] =
            IF e.enabled \/ e.autoOff THEN CheckKey(p, e, keyed') ELSE e])
    /\ UNCHANGED <<send, fetch, wanted, torn, works>>

SetKey(p) ==
    \/ \E ref \in OwnNames \cup {MintedRef[p]}, withKey \in BOOLEAN : SetRef(p, ref, withKey)
    \/ SetRef(p, "none", FALSE)

(* update() refused for a later field of the patch: what came before it    *)
(* has been assigned, and nothing is written.                              *)
UpdateRefused(p, on) ==
    /\ p \in Here
    /\ entry' = [entry EXCEPT ![p].enabled = on, ![p].autoOff = FALSE]
    /\ torn' = torn \cup {p}
    /\ UNCHANGED <<keyed, saved, dirty, send, fetch, wanted, works>>

MutRemoveProvider(p) ==
    /\ p \in Here
    /\ keyed' = keyed \ {entry[p].ref}
    /\ PersistAll([entry EXCEPT ![p] = Absent])
    /\ send' = [r \in Sends |-> IF send[r].p = p THEN [send[r] EXCEPT !.attached = FALSE] ELSE send[r]]
    /\ fetch' = [fetch EXCEPT ![p] = IF @ = "attached" THEN "detached" ELSE @]
    /\ wanted' = wanted \ {p} /\ torn' = torn \ {p}
    /\ UNCHANGED works

(* remove(): takes its key along only if the reference was minted for it.  *)
RemoveProvider(p) ==
    /\ p \in Here
    /\ keyed' = IF entry[p].ref = MintedRef[p] THEN keyed \ {MintedRef[p]} ELSE keyed
    /\ PersistAll([entry EXCEPT ![p] = Absent])
    /\ send' = [r \in Sends |-> IF send[r].p = p THEN [send[r] EXCEPT !.attached = FALSE] ELSE send[r]]
    /\ fetch' = [fetch EXCEPT ![p] = IF @ = "attached" THEN "detached" ELSE @]
    /\ wanted' = wanted \ {p} /\ torn' = torn \ {p}
    /\ UNCHANGED works

(* An operator edits secrets.json or the environment of the next process.  *)
KeyChanges(ref) ==
    /\ keyed' = IF ref \in keyed THEN keyed \ {ref} ELSE keyed \cup {ref}
    /\ UNCHANGED <<entry, saved, dirty, send, fetch, wanted, torn, works>>

----------------------------------------------------------------------------
(* refresh_async(), from a request or the loop, which skips what is off.   *)
RefreshModels(p) ==
    /\ p \in Here /\ fetch[p] = "no"
    /\ LET e == CheckKey(p, entry[p], keyed) IN
       IF e.missing
       THEN PersistAll([entry EXCEPT ![p] = e]) /\ UNCHANGED fetch
       ELSE /\ entry' = [entry EXCEPT ![p] = e]
            /\ fetch' = [fetch EXCEPT ![p] = "attached"]
            /\ UNCHANGED <<saved, dirty>>
    /\ UNCHANGED <<keyed, send, wanted, torn, works>>

MutFetched(e, answer) ==
    CASE answer = "list" -> [e EXCEPT !.listed = TRUE]
      [] answer = "401"  -> [e EXCEPT !.healthy = FALSE, !.rejected = TRUE]
      [] answer = "bad"  -> [e EXCEPT !.healthy = @ /\ e.listed]

(* The answer: the list; refused with 401; or nothing usable, which marks  *)
(* a provider down only if it has no list to go on with.                   *)
Fetched(e, answer) ==
    CASE answer = "list" -> [e EXCEPT !.listed = TRUE, !.healthy = TRUE]
      [] answer = "401"  -> [e EXCEPT !.healthy = FALSE, !.rejected = TRUE]
      [] answer = "bad"  -> [e EXCEPT !.healthy = @ /\ e.listed]

ModelsAnswered(p, answer) ==
    /\ fetch[p] # "no"
    /\ (p \in works) = (answer = "list")
    /\ fetch' = [fetch EXCEPT ![p] = "no"]
    /\ IF fetch[p] = "attached" THEN PersistAll([entry EXCEPT ![p] = Fetched(@, answer)])
                                ELSE PersistAll(entry)
    /\ UNCHANGED <<keyed, send, wanted, torn, works>>

----------------------------------------------------------------------------
MutOverBudget(e) == e.spend > Budget

(* over_budget()                                                           *)
OverBudget(e) == e.spend >= Budget

(* _prepare(), in a thread of its own.                                     *)
Prepare(r, p) ==
    /\ send[r].at = "idle" /\ p \in Here
    /\ entry[p].enabled /\ ~entry[p].limited /\ ~OverBudget(entry[p])
    /\ KeyNeeded(p, entry[p]) => entry[p].ref \in keyed
    /\ send' = [send EXCEPT ![r] = [at |-> "prepared", p |-> p, attached |-> TRUE, tries |-> 0]]
    /\ UNCHANGED <<entry, keyed, saved, dirty, fetch, wanted, torn, works>>

(* open_upstream() counts the request and sends it.                        *)
Send(r) ==
    /\ send[r].at = "prepared"
    /\ send' = [send EXCEPT ![r].at = "sent"]
    /\ entry' = IF send[r].attached
                THEN [entry EXCEPT ![send[r].p].outstanding = @ + 1] ELSE entry
    /\ UNCHANGED <<keyed, saved, dirty, fetch, wanted, torn, works>>

MutUncounted(e) == [e EXCEPT !.outstanding = @ - 2]

(* The finally of open_upstream(): uncounted, however it ended.            *)
Uncounted(e) == [e EXCEPT !.outstanding = @ - 1]

(* note_server_error() and note_transport_error(), note_rate_limit(),      *)
(* note_auth_failure(), note_success().                                    *)
Noted(e, outcome) ==
    CASE outcome = "down" -> [e EXCEPT !.healthy = FALSE, !.backoff = "running"]
      [] outcome = "429"  -> [e EXCEPT !.limited = TRUE]
      [] outcome = "401"  -> [e EXCEPT !.healthy = FALSE, !.rejected = TRUE]
      [] outcome = "4xx"  -> e
      [] outcome = "ok"   -> [e EXCEPT !.healthy = TRUE, !.rejected = FALSE, !.limited = FALSE,
                                       !.backoff = "none"]

(* The upstream's verdict: a 5xx is tried once more before it counts, the  *)
(* others end the request.                                                 *)
Retry(r) ==
    /\ send[r].at = "sent" /\ send[r].tries < Retries /\ send[r].p \notin works
    /\ send' = [send EXCEPT ![r].tries = @ + 1]
    /\ UNCHANGED <<entry, keyed, saved, dirty, fetch, wanted, torn, works>>

Failed(r, outcome) ==
    /\ send[r].at = "sent" /\ send[r].p \notin works
    /\ entry' = IF send[r].attached
                THEN [entry EXCEPT ![send[r].p] = Uncounted(Noted(@, outcome))] ELSE entry
    /\ send' = [send EXCEPT ![r] = NotSent]
    /\ UNCHANGED <<keyed, saved, dirty, fetch, wanted, torn, works>>

Streams(r) ==
    /\ send[r].at = "sent" /\ send[r].p \in works
    /\ send' = [send EXCEPT ![r].at = "body"]
    /\ UNCHANGED <<entry, keyed, saved, dirty, fetch, wanted, torn, works>>

(* The caller leaves in the middle of the body: nothing is recorded.       *)
MutAbandoned(r) ==
    /\ send[r].at = "body"
    /\ send' = [send EXCEPT ![r] = NotSent]
    /\ UNCHANGED <<entry, keyed, saved, dirty, fetch, wanted, torn, works>>

Abandoned(r) ==
    /\ send[r].at = "body"
    /\ entry' = IF send[r].attached
                THEN [entry EXCEPT ![send[r].p] = Uncounted(@)] ELSE entry
    /\ send' = [send EXCEPT ![r] = NotSent]
    /\ UNCHANGED <<keyed, saved, dirty, fetch, wanted, torn, works>>

(* The body ends: note_success(), and _record_usage(), which writes the    *)
(* file if the last write is SPEND_PERSIST_INTERVAL_S ago and otherwise    *)
(* remembers that it owes one.                                             *)
Charged(e) == [Uncounted(Noted(e, "ok")) EXCEPT !.spend = @ + 1]

MutCompleted(r, due) ==
    /\ send[r].at = "body"
    /\ entry' = IF send[r].attached
                THEN [entry EXCEPT ![send[r].p] = Charged(@)] ELSE entry
    /\ send' = [send EXCEPT ![r] = NotSent]
    /\ due \in BOOLEAN
    /\ UNCHANGED <<keyed, saved, dirty, fetch, wanted, torn, works>>

Completed(r, due) ==
    /\ send[r].at = "body"
    /\ LET es == IF send[r].attached
                 THEN [entry EXCEPT ![send[r].p] = Charged(@)] ELSE entry
       IN IF due THEN PersistAll(es)
                 ELSE entry' = es /\ dirty' = TRUE /\ UNCHANGED saved
    /\ send' = [send EXCEPT ![r] = NotSent]
    /\ UNCHANGED <<keyed, fetch, wanted, torn, works>>

----------------------------------------------------------------------------
(* Time: a backoff runs out; a day's spend is over.                        *)
BackoffOver(p) ==
    /\ p \in Here /\ (entry[p].backoff = "running" \/ entry[p].limited)
    /\ entry' = [entry EXCEPT ![p].backoff = IF @ = "running" THEN "over" ELSE @,
                              ![p].limited = FALSE]
    /\ UNCHANGED <<keyed, saved, dirty, send, fetch, wanted, torn, works>>

(* list(), get(), servable(): every read goes through _sync().             *)
Read(p) ==
    /\ p \in Here /\ HalfOpen(entry[p]) # entry[p]
    /\ entry' = [entry EXCEPT ![p] = HalfOpen(@)]
    /\ UNCHANGED <<keyed, saved, dirty, send, fetch, wanted, torn, works>>

NewDay ==
    /\ \E p \in Here : entry[p].spend > 0
    /\ entry' = [p \in Provs |-> IF p \in Here THEN [entry[p] EXCEPT !.spend = 0] ELSE Absent]
    /\ saved' = [p \in Provs |-> IF saved[p] # Absent THEN [saved[p] EXCEPT !.spend = 0] ELSE Absent]
    /\ UNCHANGED <<keyed, dirty, send, fetch, wanted, torn, works>>

(* aclose() writes what is owed; a crash does not.  _load() starts every   *)
(* provider healthy, and looks for its key.                                *)
Restored(file) ==
    [p \in Provs |-> IF file[p] = Absent THEN Absent
     ELSE CheckKey(p, [Fresh(file[p].ref, file[p].enabled)
                       EXCEPT !.listed = file[p].listed, !.spend = file[p].spend], keyed)]

(* __init__(): the process starts from the file, empty or with providers   *)
(* that were switched on under a name the operator chose.                  *)
ProvidersInit ==
    /\ saved \in [Provs -> {Absent} \cup {Record(Fresh(ref, TRUE)) : ref \in OwnNames}]
    /\ keyed \in SUBSET Refs
    /\ entry = Restored(saved)
    /\ dirty = FALSE
    /\ send = [r \in Sends |-> NotSent]
    /\ fetch = [p \in Provs |-> "no"]
    /\ wanted = {p \in Provs : saved[p] # Absent} /\ torn = {} /\ works = Provs

Close(clean) ==
    /\ saved' = IF clean /\ dirty
                THEN [p \in Provs |-> IF p \in Here THEN Record(entry[p]) ELSE Absent]
                ELSE saved
    /\ entry' = Restored(saved')
    /\ dirty' = FALSE
    /\ send' = [r \in Sends |-> NotSent] /\ fetch' = [p \in Provs |-> "no"]
    /\ UNCHANGED <<keyed, wanted, torn, works>>

(* The upstream breaks, or is mended.                                      *)
UpstreamChanges(p) ==
    /\ works' = IF p \in works THEN works \ {p} ELSE works \cup {p}
    /\ UNCHANGED <<entry, keyed, saved, dirty, send, fetch, wanted, torn>>

ProvidersOperator ==
    \/ \E p \in Provs : \/ \E ref \in OwnNames \cup {"none"}, k \in BOOLEAN, on \in BOOLEAN :
                            Register(p, ref, k, on)
                        \/ \E on \in BOOLEAN : Enable(p, on) \/ UpdateRefused(p, on)
                        \/ SetKey(p) \/ RemoveProvider(p) \/ UpstreamChanges(p)
    \/ \E ref \in Refs : KeyChanges(ref)
    \/ NewDay
    \/ \E clean \in BOOLEAN : Close(clean)

ProvidersStep ==
    \/ \E p \in Provs : \/ RefreshModels(p) \/ BackoffOver(p) \/ Read(p)
                        \/ \E a \in {"list", "401", "bad"} : ModelsAnswered(p, a)
    \/ \E r \in Sends : \/ \E p \in Provs : Prepare(r, p)
                        \/ Send(r) \/ Retry(r) \/ Streams(r) \/ Abandoned(r)
                        \/ \E o \in {"down", "429", "401", "4xx"} : Failed(r, o)
                        \/ \E due \in BOOLEAN : Completed(r, due)

ProvidersNext == ProvidersOperator \/ ProvidersStep

ProvidersSpec == ProvidersInit /\ [][ProvidersNext]_providerVars

(* The refresh loop comes round to every provider that is on, and its      *)
(* requests are answered or time out.                                      *)
LoopRefresh(p) == entry[p] # Absent /\ entry[p].enabled /\ RefreshModels(p)
SomeAnswer(p) == \E a \in {"list", "401", "bad"} : ModelsAnswered(p, a)

----------------------------------------------------------------------------
(* Properties.                                                             *)

(* What the router sees as a provider's load is the requests that are out  *)
(* on it: removal, failure, retries and callers that leave all uncount.    *)
OutstandingExact ==
    \A p \in Here : entry[p].outstanding =
        Cardinality({r \in Sends : send[r].p = p /\ send[r].attached /\ send[r].at \in {"sent", "body"}})

(* Nothing but the operator switches on what the operator switched off:    *)
(* not a key that appears, a refresh, or a restart.                        *)
OperatorsWord == \A p \in Here \ torn : entry[p].enabled => p \in wanted

(* Removing one provider takes no key that another one resolves through,   *)
(* however they share references.                                          *)
OwnKeysOnly ==
    [][\A p, q \in Provs : p # q /\ p \in Here /\ q \in Here /\ entry'[q] = Absent
        => (entry[p].ref \in keyed => entry'[p].ref \in keyed')]_providerVars

(* The budget is looked at before a request and charged after it, so a day *)
(* can be overspent, but by no more than what was out at the time.         *)
OverspendBounded ==
    \A p \in Here : entry[p].spend
        + Cardinality({r \in Sends : send[r].p = p /\ send[r].attached})
        <= Budget - 1 + Cardinality(Sends)

(* What a day has cost is on file, or known to be owed to it.              *)
SpendAccounted ==
    /\ \A p \in Provs : (saved[p] = Absent) = (entry[p] = Absent)
    /\ ~dirty => \A p \in Here : saved[p].spend = entry[p].spend

(* A provider that is on and whose upstream accepts it again does not stay *)
(* out of service, refused key included.                                   *)
ComesBack ==
    \A p \in Provs :
        (p \in Here /\ entry[p].enabled /\ ~entry[p].healthy) ~>
            (p \notin Here \/ ~entry[p].enabled \/ entry[p].healthy \/ p \notin works)

(* update(): "a provider switched off *because* its reference did not      *)
(* resolve is exactly the one a new key should bring back".                *)
KeyBringsBack ==
    \A p \in (Here \cap wanted) \ torn : ~entry[p].missing => entry[p].enabled

(* What the provider service promises while requests, refreshes, patches,  *)
(* removals and restarts interleave: the outstanding count is exact, what  *)
(* the operator switched off stays off, a day is overspent by no more than *)
(* was out at the time, what it cost is on file or known to be owed, and   *)
(* removing a provider takes no key another one uses.                      *)
ProvidersPromise ==
    [](ProvidersTypeOK /\ OutstandingExact /\ OperatorsWord /\ OverspendBounded /\ SpendAccounted)
    /\ OwnKeysOnly
=============================================================================
