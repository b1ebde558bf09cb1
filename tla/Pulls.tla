------------------------------- MODULE Pulls -------------------------------
(***************************************************************************)
(* POST /api/providers/{id}/pull and GET /api/activity                     *)
(* (gateway/internal_api.py) over ProviderService.pull()                   *)
(* (providers/service.py): a request that waits for the first size of a    *)
(* download, and the task that carries the download on after it.           *)
(* Sizes are in hundredths of the largest.                                 *)
(***************************************************************************)
EXTENDS Integers, Sequences

CONSTANTS
    PullIds,
    LayerSizes,     \* sizes of the layers a provider may send, in order
    HostFree,       \* free memory of the provider's machine, 0 if nobody measured it
    Headroom        \* PULL_HEADROOM, in percent

ASSUME SizesAssumption == LayerSizes \in Seq(1 .. 100) /\ HostFree \in Nat /\ Headroom \in Nat

VARIABLES
    asks,      \* the request: idle, waiting, or its answer
    tasks,     \* the runner
    gate,      \* the future the request waits on
    record,    \* the _Download
    rail,      \* _DOWNLOADS
    sent       \* what the provider has sent (history)

pullVars == <<asks, tasks, gate, record, rail, sent>>

UnknownSize == -1
NoRecord == [total |-> UnknownSize, completed |-> 0, saw |-> FALSE, finished |-> FALSE, error |-> FALSE, over |-> FALSE]
Nothing == [layer |-> 0, part |-> 0]
HostBudget == (HostFree * Headroom) \div 100

----------------------------------------------------------------------------
(* The record and the gate are made, and the runner is started.            *)
AskPull(p, over) ==
    /\ asks[p] = "idle"
    /\ asks' = [asks EXCEPT ![p] = "waiting"]
    /\ tasks' = [tasks EXCEPT ![p] = "streaming"]
    /\ gate' = [gate EXCEPT ![p] = "open"]
    /\ record' = [record EXCEPT ![p] = [NoRecord EXCEPT !.over = over]]
    /\ sent' = [sent EXCEPT ![p] = Nothing]
    /\ UNCHANGED rail

MutOverHost(p, total) == FALSE

(* on_size(): a size is refused only where the machine has been measured.  *)
OverHost(p, total) == HostBudget > 0 /\ total > HostBudget /\ ~record[p].over

PullClose(p, how) == gate' = [gate EXCEPT ![p] = IF @ = "open" THEN how ELSE @]

MutProgressed(p, total, completed) ==
    [record[p] EXCEPT !.total = total, !.completed = record[p].completed + completed, !.saw = TRUE]

(* on_progress(): the figures of the last frame, whatever layer it is of.  *)
Progressed(p, total, completed) ==
    [record[p] EXCEPT !.total = total, !.completed = completed, !.saw = TRUE]

(* A frame of the stream: the next layer begins, or the present one grows. *)
Frame(p) ==
    \E layer \in {sent[p].layer, sent[p].layer + 1} \cap DOMAIN LayerSizes, part \in {0, 50, 100} :
        LET total == LayerSizes[layer] completed == (total * part) \div 100 IN
        /\ tasks[p] = "streaming"
        /\ IF layer = sent[p].layer THEN part > sent[p].part ELSE layer = 1 \/ sent[p].part = 100
        /\ sent' = [sent EXCEPT ![p] = [layer |-> layer, part |-> part]]
        /\ IF sent[p].layer = 0 /\ OverHost(p, total)
           THEN /\ PullClose(p, "refused")
                /\ tasks' = [tasks EXCEPT ![p] = "raised"]
                /\ UNCHANGED <<record, rail>>
           ELSE /\ IF sent[p].layer = 0 THEN PullClose(p, "sized") ELSE UNCHANGED gate
                /\ rail' = rail \cup {p}
                /\ record' = [record EXCEPT ![p] = Progressed(p, total, completed)]
                /\ UNCHANGED tasks
        /\ UNCHANGED asks

(* An error frame, a status of 400 or more, or a broken connection.        *)
UpstreamFails(p) ==
    /\ tasks[p] \in {"streaming", "refreshing"}
    /\ tasks' = [tasks EXCEPT ![p] = "raised"]
    /\ PullClose(p, "failed")
    /\ UNCHANGED <<asks, record, rail, sent>>

(* The lines run out, whether or not everything was sent.                  *)
StreamEnds(p) ==
    /\ tasks[p] = "streaming"
    /\ tasks' = [tasks EXCEPT ![p] = "refreshing"]
    /\ UNCHANGED <<asks, gate, record, rail, sent>>

(* _refresh_standalone() and the end of the runner: without a size, the    *)
(* model was there already.                                                *)
Refreshed(p) ==
    /\ tasks[p] = "refreshing"
    /\ tasks' = [tasks EXCEPT ![p] = "returned"]
    /\ PullClose(p, "present")
    /\ UNCHANGED <<asks, record, rail, sent>>

MutStoppedShort(p) == FALSE

(* _finished(): 99 % of the last total is all of it.                       *)
StoppedShort(p) ==
    record[p].saw /\ record[p].total > 0 /\ record[p].completed * 100 < record[p].total * 99

Finished(p) ==
    /\ tasks[p] \in {"raised", "returned", "cancelled"}
    /\ tasks' = [tasks EXCEPT ![p] = "gone"]
    /\ record' = [record EXCEPT ![p] =
          IF tasks[p] # "returned" \/ StoppedShort(p) THEN [@ EXCEPT !.finished = TRUE, !.error = TRUE]
          ELSE [@ EXCEPT !.finished = TRUE, !.completed = IF record[p].total = UnknownSize THEN record[p].completed ELSE record[p].total]]
    /\ UNCHANGED <<asks, gate, rail, sent>>

(* The request: answered by the gate, or 504 after PULL_GATE_TIMEOUT_S.    *)
AnswerPull(p) ==
    /\ asks[p] = "waiting" /\ gate[p] # "open"
    /\ asks' = [asks EXCEPT ![p] = gate[p]]
    /\ UNCHANGED <<tasks, gate, record, rail, sent>>

MutGateTimeout(p) ==
    /\ asks[p] = "waiting" /\ gate[p] = "open"
    /\ asks' = [asks EXCEPT ![p] = "no_size"]
    /\ UNCHANGED <<tasks, gate, record, rail, sent>>

GateTimeout(p) ==
    /\ asks[p] = "waiting" /\ gate[p] = "open"
    /\ asks' = [asks EXCEPT ![p] = "no_size"]
    /\ tasks' = [tasks EXCEPT ![p] = "cancelled"]
    /\ UNCHANGED <<gate, record, rail, sent>>

(* _sweep_downloads() of GET /api/activity, once a record has lingered.    *)
SweepDownload(p) ==
    /\ p \in rail /\ record[p].finished
    /\ rail' = rail \ {p}
    /\ UNCHANGED <<asks, tasks, gate, record, sent>>

PullsInit ==
    /\ asks = [p \in PullIds |-> "idle"] /\ tasks = [p \in PullIds |-> "none"]
    /\ gate = [p \in PullIds |-> "open"] /\ record = [p \in PullIds |-> NoRecord]
    /\ rail = {} /\ sent = [p \in PullIds |-> Nothing]

PullStep(p) ==
    \/ Frame(p) \/ UpstreamFails(p) \/ StreamEnds(p) \/ Refreshed(p)
    \/ Finished(p) \/ AnswerPull(p) \/ GateTimeout(p) \/ SweepDownload(p)
PullsNext == \E p \in PullIds : PullStep(p) \/ \E over \in BOOLEAN : AskPull(p, over)

PullsSpec == PullsInit /\ [][PullsNext]_pullVars

----------------------------------------------------------------------------
(* The figures of a download are those of its stream.                      *)
PullsTypeOK ==
    \A p \in PullIds :
        /\ record[p].completed \in 0 .. 100 /\ record[p].total \in {UnknownSize} \cup 1 .. 100
        /\ record[p].total # UnknownSize => record[p].completed <= record[p].total
        /\ p \in rail => tasks[p] # "none" /\ record[p].total # UnknownSize

(* What the caller is told of a pull is what became of it: after a refusal *)
(* or a 504 ("Nothing was pulled") no download of it is on the rail, and   *)
(* its task has stopped; after "pulling" there is one, or has been.        *)
AnswerMatches ==
    \A p \in PullIds :
        /\ asks[p] \in {"refused", "no_size"} => p \notin rail /\ tasks[p] \in {"raised", "cancelled", "gone"}
        /\ asks[p] = "sized" /\ ~record[p].finished => p \in rail
        /\ asks[p] = "present" => sent[p] = Nothing

(* A measured machine is not filled without leave.                         *)
WithinHost ==
    \A p \in rail : HostBudget > 0 /\ ~record[p].over => LayerSizes[1] <= HostBudget

(* A download is shown as whole only when its last layer has arrived whole *)
(* (to 99 %), although a stream that is cut ends without an error.         *)
WholeWhenDone ==
    \A p \in rail : record[p].finished /\ ~record[p].error /\ sent[p].layer > 0 => sent[p].part = 100

(* Documented by _finished() ("it did not raise" is not evidence that the  *)
(* weights arrived): all of the layers, not only the last that was seen.   *)
AllLayersWhenDone ==
    \A p \in rail : record[p].finished /\ ~record[p].error => sent[p] = [layer |-> Len(LayerSizes), part |-> 100]

(* What a pull promises while its stream, the gate on its size and the     *)
(* request that waits for it interleave: the caller is told what became of *)
(* it, a measured machine is not filled without leave, and what is shown   *)
(* as whole is.                                                            *)
PullsPromise ==
    PullsTypeOK /\ AnswerMatches /\ WithinHost /\ WholeWhenDone
=============================================================================
