------------------------------- MODULE Links -------------------------------
(***************************************************************************)
(* The link measurements (control_plane/links): the ladder of probes with  *)
(* what each reads from its tool, the store with its file, and the calls   *)
(* that measure, enter, forget and read a pair.  Figures are in            *)
(* thousandths of a GB/s, where 0 is a figure nobody reported.             *)
(***************************************************************************)
EXTENDS Integers, FiniteSets, Sequences, FiniteSetsExt, SequencesExt, Functions

CONSTANTS
    LinkNodes,
    LocalNode,      \* the node this process runs on
    LinkCallers,
    Outcomes,       \* what the tools may say to one probe, see OutcomeOK
    HandFigures,    \* figures an operator may type
    MeasureOrders,  \* lists measure_all() goes through, without repetitions
    BwFloor         \* BW_FLOOR_BYTES

ASSUME LinksAssumption ==
    /\ LocalNode \in LinkNodes
    /\ HandFigures \subseteq Nat \ {0}
    /\ BwFloor \in Nat
    /\ \A order \in MeasureOrders : order \in Seq(LinkNodes) /\ IsInjective(order)

VARIABLES
    links,      \* LinkStore._links: per pair, or Unmeasured
    linkFile,   \* links.json
    unsaved,    \* the file is known to differ from memory
    inflight,   \* LinkService._inflight
    probes      \* probes[c]: a call of measure() or measure_all()

linkVars == <<links, linkFile, unsaved, inflight, probes>>

(* pair_key(): a link has no direction.                                    *)
PairKey(a, b) == {a, b}
Pairs == {PairKey(a, b) : a \in LinkNodes, b \in LinkNodes} \ {{n} : n \in LinkNodes}

Unmeasured == [method |-> "none", gbps |-> 0, sendrecv |-> 0, latency |-> 0, estimated |-> FALSE, raw |-> 0,
               gdr |-> FALSE, ports |-> <<>>, seenOn |-> "none", alone |-> TRUE]
Resting == [stage |-> "idle", todo |-> <<>>, from |-> "none", to |-> "none", alone |-> TRUE]

----------------------------------------------------------------------------
(* parse_nccl_perf(): the rows that could be read and the reported average.*)
SweepOK(sweep) ==
    sweep.average \in Nat /\ sweep.rows \in Seq([size : Nat, bw : Nat, time : Nat \ {0}])

(* An outcome: the tools this node has, the rungs that raise, and what     *)
(* each tool printed.  A sweep is a sequence of rows and the tool's own    *)
(* average.                                                                *)
OutcomeOK(o) ==
    /\ o.tools \subseteq {"nccl", "ib_write_bw", "ib_write_lat", "iperf3"}
    /\ o.raises \subseteq {"nccl", "ib_write_bw", "tcp"}
    /\ o.transport \in {"enabled", "disabled", "gdr_channel", "plain_channel", "silent"}
    /\ SweepOK(o.allReduce) /\ SweepOK(o.sendRecv)
    /\ o.ib.unit \in {"Gb/sec", "MiB/sec", "none"}
    /\ o.ib.averages \subseteq Nat /\ IsFiniteSet(o.ib.averages) /\ o.ibLatency \in Nat
    /\ o.iperf.kind \in {"json", "error", "text", "junk"} /\ {o.iperf.received, o.iperf.sent} \subseteq Nat
    /\ o.connects \subseteq Nat /\ {o.sink.received, o.sink.elapsed} \subseteq Nat

ASSUME OutcomesAssumption == \A o \in Outcomes : OutcomeOK(o)

(* The sum of a sequence of figures.                                       *)
Total(s) ==
    LET sum[k \in 0 .. Len(s)] == IF k = 0 THEN 0 ELSE sum[k - 1] + s[k] IN sum[Len(s)]

(* NcclResult.bandwidth_gbps: the mean of the rows large enough to be      *)
(* bound by the link, else the average of the whole sweep.                 *)
BandwidthGbps(sweep) ==
    LET big == {i \in DOMAIN sweep.rows : sweep.rows[i].size >= BwFloor}
    IN IF big = {} THEN sweep.average
       ELSE Total([i \in DOMAIN sweep.rows |-> IF i \in big THEN sweep.rows[i].bw ELSE 0]) \div Cardinality(big)

(* NcclResult.latency_us: the time of the smallest message.                *)
LatencyUs(sweep) ==
    IF sweep.rows = <<>> THEN 0
    ELSE (CHOOSE row \in Range(sweep.rows) : \A other \in Range(sweep.rows) : row.size <= other.size).time

(* _to_gbps(): gigabits are eighths; perftest's megabytes are 2^20 bytes.  *)
ToGbps(value, unit) == CASE unit = "Gb/sec" -> (value * 1000) \div 8
                         [] unit = "MiB/sec" -> (value * 1048576) \div 1000000
                         [] OTHER -> value * 1000

(* parse_ib_write_bw(): the best average of the sweep, in its unit.        *)
ParseIbWriteBw(ib) == IF ib.averages = {} THEN 0 ELSE ToGbps(Max(ib.averages), ib.unit)

(* parse_iperf3(): what was received, else what was sent; a report that is *)
(* not JSON is searched for its receiver line.                             *)
ParseIperf3(out) == CASE out.kind = "json" -> IF out.received > 0 THEN out.received ELSE out.sent
                      [] out.kind = "text" -> out.received
                      [] OTHER -> 0

(* detect_gdr(): what NCCL printed; without it a kernel module that is     *)
(* present proves nothing, and the answer is no.                           *)
DetectGdr(transport) == transport \in {"enabled", "gdr_channel"}

(* _ports_for(), inspect_ports(): the cages are this node's, so they are   *)
(* looked at only when this node is an end of the link.                    *)
PortsFor(a, b, o) == IF LocalNode \in {a, b} THEN o.ports ELSE <<>>
SeenOn(a, b, o) == IF PortsFor(a, b, o) = <<>> THEN "none" ELSE LocalNode

(* tcp_rtt_us(): the quickest of the connects that succeeded.              *)
TcpRttUs(connects) == IF connects = {} THEN 0 ELSE Min(connects)

(* tcp_throughput_gbps(): what the sink counted over the time it took.     *)
TcpThroughputGbps(sink) == IF sink.elapsed <= 0 \/ sink.received <= 0 THEN 0 ELSE sink.received \div sink.elapsed

Figure(method, a, b, o, gbps, sendrecv, latency) ==
    [Unmeasured EXCEPT !.method = method, !.gbps = gbps, !.sendrecv = sendrecv, !.latency = latency,
                       !.ports = PortsFor(a, b, o), !.seenOn = SeenOn(a, b, o)]

(* NcclMeasurer.measure(): both collectives, or nothing.                   *)
NcclMeasure(a, b, o) ==
    LET all == BandwidthGbps(o.allReduce)
        handoff == BandwidthGbps(o.sendRecv)
        latency == IF LatencyUs(o.allReduce) # 0 THEN LatencyUs(o.allReduce) ELSE LatencyUs(o.sendRecv)
    IN IF 0 \in {all, handoff, latency} THEN Unmeasured
       ELSE [Figure("nccl", a, b, o, all, handoff, latency) EXCEPT !.gdr = DetectGdr(o.transport)]

(* IB_TO_NCCL_RATIO, rounded up: a figure above zero stays above zero.     *)
Scaled(raw) == (raw * 42 + 99) \div 100

(* IbWriteBwMeasurer._latency(): a connect stands in for ib_write_lat, and *)
(* only this node can time one.                                            *)
IbLatency(a, o) ==
    IF "ib_write_lat" \in o.tools /\ o.ibLatency # 0 THEN o.ibLatency
    ELSE IF a # LocalNode THEN 0
    ELSE TcpRttUs(o.connects)

(* IbWriteBwMeasurer.measure().                                            *)
IbMeasure(a, b, o) ==
    LET raw == ParseIbWriteBw(o.ib)
    IN IF raw = 0 \/ IbLatency(a, o) = 0 THEN Unmeasured
       ELSE [Figure("ib_write_bw", a, b, o, Scaled(raw), Scaled(raw), IbLatency(a, o))
                EXCEPT !.estimated = TRUE, !.raw = raw]

(* TcpMeasurer._throughput(): iperf3, which a remote node must have; the   *)
(* built-in sink from this node.                                           *)
TcpThroughput(a, o) ==
    LET measured == IF a # LocalNode \/ "iperf3" \in o.tools THEN ParseIperf3(o.iperf) ELSE 0
    IN IF measured # 0 THEN measured
       ELSE IF a # LocalNode THEN 0
       ELSE TcpThroughputGbps(o.sink)

MutTcpMeasure(a, b, o) ==
    LET raw == TcpThroughput(a, o)
    IN IF raw = 0 THEN Unmeasured
       ELSE [Figure("tcp", a, b, o, raw, raw, TcpRttUs(o.connects)) EXCEPT !.estimated = TRUE, !.raw = raw]

(* TcpMeasurer.measure(): a remote node's connect cannot be timed from     *)
(* here.                                                                   *)
TcpMeasure(a, b, o) ==
    LET raw == TcpThroughput(a, o)
        latency == IF a # LocalNode THEN 0 ELSE TcpRttUs(o.connects)
    IN IF raw = 0 \/ latency = 0 THEN Unmeasured
       ELSE [Figure("tcp", a, b, o, raw, raw, latency) EXCEPT !.estimated = TRUE, !.raw = raw]

Rungs == <<"nccl", "ib_write_bw", "tcp">>

(* available(): tcp's sink needs nothing installed.                        *)
Available(rung, o) == rung = "tcp" \/ rung \in o.tools

RungMeasure(rung, a, b, o) ==
    IF ~Available(rung, o) \/ rung \in o.raises THEN Unmeasured
    ELSE CASE rung = "nccl" -> NcclMeasure(a, b, o)
           [] rung = "ib_write_bw" -> IbMeasure(a, b, o)
           [] OTHER -> TcpMeasure(a, b, o)

(* LadderMeasurer.measure(): the first rung with a usable figure.          *)
Ladder(a, b, o) ==
    LET found == {i \in 1..3 : RungMeasure(Rungs[i], a, b, o).method # "none"}
    IN IF found = {} THEN Unmeasured ELSE RungMeasure(Rungs[Min(found)], a, b, o)

----------------------------------------------------------------------------
(* The store.  A flush that fails leaves the old file and is only logged.  *)
MutStored(p, link, ok) ==
    /\ links' = [links EXCEPT ![p] = link]
    /\ linkFile' = IF ok /\ link # Unmeasured THEN links' ELSE linkFile
    /\ unsaved' = ~ok

(* LinkStore.put() and delete(): memory, then the whole file again.        *)
Stored(p, link, ok) ==
    /\ links' = [links EXCEPT ![p] = link]
    /\ linkFile' = IF ok THEN links' ELSE linkFile
    /\ unsaved' = ~ok

MutFromJson(link) == [link EXCEPT !.estimated = FALSE]

(* to_json() and from_json(): the stale mark is the one thing left out.    *)
FromJson(link) == link

(* LinkService.put(): a typed figure is a claim.                           *)
PutByHand(p, gbps, ok) ==
    /\ Stored(p, [Unmeasured EXCEPT !.method = "manual", !.gbps = gbps, !.sendrecv = gbps, !.latency = 1,
                                    !.estimated = TRUE], ok)
    /\ UNCHANGED <<inflight, probes>>

(* LinkService.forget().                                                   *)
Forget(p, ok) ==
    /\ links[p] # Unmeasured
    /\ Stored(p, Unmeasured, ok)
    /\ UNCHANGED <<inflight, probes>>

(* measure() of a pair, or measure_all() of a list of them, one by one.    *)
AskMeasure(c, list) ==
    /\ probes[c] = Resting
    /\ probes' = [probes EXCEPT ![c] = [Resting EXCEPT !.stage = "asked", !.todo = list]]
    /\ UNCHANGED <<links, linkFile, unsaved, inflight>>

(* The pair is announced, and the call waits for _measure_lock.            *)
Announce(c) ==
    LET next == Head(probes[c].todo) IN
    /\ probes[c].stage = "asked"
    /\ probes[c].todo # <<>>
    /\ probes' = [probes EXCEPT ![c] = [Resting EXCEPT !.stage = "queued", !.todo = Tail(probes[c].todo),
                                                       !.from = next[1], !.to = next[2]]]
    /\ inflight' = inflight \cup {PairKey(next[1], next[2])}
    /\ UNCHANGED <<links, linkFile, unsaved>>

Probing == {c \in LinkCallers : probes[c].stage = "probing"}

MutTakeLock(c) ==
    /\ probes[c].stage = "queued"
    /\ probes' = [d \in LinkCallers |->
          IF d = c THEN [probes[c] EXCEPT !.stage = "probing", !.alone = Probing = {}]
          ELSE IF d \in Probing THEN [probes[d] EXCEPT !.alone = FALSE] ELSE probes[d]]
    /\ UNCHANGED <<links, linkFile, unsaved, inflight>>

(* One probe at a time.  "alone" remembers whether the fabric was shared.  *)
TakeLock(c) ==
    /\ probes[c].stage = "queued"
    /\ Probing = {}
    /\ probes' = [d \in LinkCallers |->
          IF d = c THEN [probes[c] EXCEPT !.stage = "probing", !.alone = Probing = {}]
          ELSE IF d \in Probing THEN [probes[d] EXCEPT !.alone = FALSE] ELSE probes[d]]
    /\ UNCHANGED <<links, linkFile, unsaved, inflight>>

MutWithdrawn(p, found) == IF found THEN inflight \ {p} ELSE inflight

(* The finally: of measure().                                              *)
Withdrawn(p, found) == inflight \ {p}

(* The ladder answers: a figure is stored before the lock is let go.  A    *)
(* figure kept from an earlier probe outlives a probe that found nothing.  *)
Probed(c, o, ok) ==
    LET p == PairKey(probes[c].from, probes[c].to)
        found == Ladder(probes[c].from, probes[c].to, o)
    IN /\ probes[c].stage = "probing"
       /\ IF found = Unmeasured THEN UNCHANGED <<links, linkFile, unsaved>>
          ELSE Stored(p, [found EXCEPT !.alone = probes[c].alone], ok)
       /\ inflight' = Withdrawn(p, found # Unmeasured)
       /\ probes' = [probes EXCEPT ![c] = IF @.todo = <<>> THEN Resting
                                          ELSE [Resting EXCEPT !.stage = "asked", !.todo = probes[c].todo]]

(* LinkStore._load() in a new process: a file that cannot be read counts   *)
(* for none.                                                               *)
RestartLinks(readable) ==
    /\ links' = IF readable THEN [p \in Pairs |-> FromJson(linkFile[p])] ELSE [p \in Pairs |-> Unmeasured]
    /\ unsaved' = ~readable
    /\ inflight' = {}
    /\ probes' = [c \in LinkCallers |-> Resting]
    /\ UNCHANGED linkFile

----------------------------------------------------------------------------
MutWorstAllReduce(group) ==
    LET known == {links[p] : p \in {q \in Pairs : q \subseteq group}} \ {Unmeasured}
    IN IF known = {} THEN Unmeasured
       ELSE CHOOSE link \in known : \A other \in known : link.gbps <= other.gbps

(* worst_all_reduce(): the slowest pair; nothing when a pair is missing or *)
(* there is no pair.                                                       *)
WorstAllReduce(group) ==
    LET known == {links[p] : p \in {q \in Pairs : q \subseteq group}}
    IN IF known = {} \/ Unmeasured \in known THEN Unmeasured
       ELSE CHOOSE link \in known : \A other \in known : link.gbps <= other.gbps

(* POST /api/links/measure: a pair is probed in the order it was given.    *)
LinkRequests == {<<<<a, b>>>> : a \in LinkNodes, b \in LinkNodes} \ {<<<<n, n>>>> : n \in LinkNodes}

(* measure_all(): each node with every later one.                          *)
EveryPair(order) ==
    LET upTo[i \in 0 .. Len(order)] ==
            IF i = 0 THEN <<>> ELSE upTo[i - 1] \o [k \in 1 .. Len(order) - i |-> <<order[i], order[i + k]>>]
    IN upTo[Len(order)]

LinksInit ==
    /\ links = [p \in Pairs |-> Unmeasured]
    /\ linkFile = links
    /\ unsaved = FALSE
    /\ inflight = {}
    /\ probes = [c \in LinkCallers |-> Resting]

LinksAsk ==
    \/ \E p \in Pairs, gbps \in HandFigures, ok \in BOOLEAN : PutByHand(p, gbps, ok)
    \/ \E p \in Pairs, ok \in BOOLEAN : Forget(p, ok)
    \/ \E c \in LinkCallers, list \in LinkRequests : AskMeasure(c, list)
    \/ \E c \in LinkCallers, order \in MeasureOrders : AskMeasure(c, EveryPair(order))
    \/ \E readable \in BOOLEAN : RestartLinks(readable)

LinksProceed ==
    \/ \E c \in LinkCallers : Announce(c) \/ TakeLock(c)
    \/ \E c \in LinkCallers, o \in Outcomes, ok \in BOOLEAN : Probed(c, o, ok)

LinksNext == LinksAsk \/ LinksProceed

LinksSpec == LinksInit /\ [][LinksNext]_linkVars

----------------------------------------------------------------------------
LinksTypeOK ==
    /\ DOMAIN links = Pairs /\ DOMAIN linkFile = Pairs
    /\ \A p \in Pairs : links[p].method \in {"none", "nccl", "ib_write_bw", "tcp", "manual"}
    /\ \A p \in Pairs : links[p] # Unmeasured => links[p].gbps > 0 /\ links[p].latency > 0
    /\ inflight \subseteq Pairs /\ unsaved \in BOOLEAN
    /\ \A c \in LinkCallers : probes[c].stage \in {"idle", "asked", "queued", "probing"}

(* A figure that does not call itself an estimate was read from NCCL's own *)
(* collectives, whatever was stored, typed, saved and loaded since         *)
(* (record.py, estimated: "True when the figure was derived from a proxy   *)
(* rather than from NCCL itself").                                         *)
EstimateTold ==
    \A p \in Pairs : links[p] # Unmeasured /\ ~links[p].estimated => links[p].method = "nccl" /\ links[p].raw = 0

(* No stored figure was taken while another probe used the fabric          *)
(* (service.py, measure_all: two at once would produce two wrong numbers   *)
(* instead of one right one).                                              *)
ProbedAlone == \A p \in Pairs : links[p].alone

(* The figure of a group is never faster than one of its pairs, and there  *)
(* is none as long as one pair has not been measured (service.py,          *)
(* worst_all_reduce).                                                      *)
WorstSafe ==
    \A group \in SUBSET LinkNodes :
       WorstAllReduce(group) # Unmeasured =>
          \A a \in group, b \in group : a # b =>
             /\ links[PairKey(a, b)] # Unmeasured
             /\ WorstAllReduce(group).gbps <= links[PairKey(a, b)].gbps

(* What a restart would read is what memory holds, unless a write failed   *)
(* or the file could not be read (store.py, _flush).                       *)
FileAgrees == ~unsaved => linkFile = links

(* A pair shown as being measured has a call that will end it (service.py, *)
(* measuring): no early return leaves the mark behind.                     *)
MarkEnds ==
    \A p \in inflight : \E c \in LinkCallers :
       probes[c].stage \in {"queued", "probing"} /\ PairKey(probes[c].from, probes[c].to) = p

(* A pair that is being measured is shown (service.py:115, "Pairs with a   *)
(* probe in flight, so the UI can say so").                                *)
MarkShown ==
    \A c \in LinkCallers :
       probes[c].stage \in {"queued", "probing"} => PairKey(probes[c].from, probes[c].to) \in inflight

(* What the link service promises with two callers and an operator at      *)
(* once: an estimate is told from a measurement, no figure was taken       *)
(* beside another probe, a group is as slow as its slowest pair, the file  *)
(* holds what memory does, and no mark of a probe outlives it.             *)
LinksPromise ==
    LinksTypeOK /\ EstimateTold /\ ProbedAlone /\ WorstSafe /\ FileAgrees /\ MarkEnds
=============================================================================
