------------------------- MODULE TelemetryShipping -------------------------
(***************************************************************************)
(* telemetry/journal.py, collector.py and archive.py: a node appends what  *)
(* it does to its journal, the coordinator pulls the journal page by page  *)
(* into its archive, and the node trims what has been collected.  There is *)
(* no acknowledgement: asking for what comes after N says that everything  *)
(* up to N is safe on the coordinator.                                     *)
(*                                                                         *)
(* One node.  Rows are numbered as they are appended, and a row's number   *)
(* stands for its timestamp too.  Producers, the writer thread, a flush()   *)
(* that close() starts when the writer is wedged, and the drains of the    *)
(* coordinator run side by side; a drain that was cancelled may still have *)
(* its thread in ingest(), so there can be more than one.                  *)
(***************************************************************************)
EXTENDS Integers, Sequences, FiniteSets, FiniteSetsExt

CONSTANTS
    Drains,       \* drains of the coordinator that may overlap
    QueueMax,     \* queue_max
    BatchRows,    \* batch_rows
    PageRows,     \* max_rows of a page
    Cap,          \* max_bytes, counted in rows
    Power,        \* the machines that may lose power: "node", "coordinator"
    MaxRows,      \* bound: rows appended
    MaxFaults     \* bound: writes that fail, kills and power cuts

ASSUME SizesAssumption ==
    /\ QueueMax \in Nat \ {0} /\ BatchRows \in Nat \ {0} /\ PageRows \in Nat \ {0}
    /\ Cap \in Nat /\ MaxRows \in Nat /\ MaxFaults \in Nat
ASSUME PowerAssumption == Power \subseteq {"node", "coordinator"}

VARIABLES
    made,       \* rows appended so far
    faults,
    buffer,     \* _buffer
    batch,      \* what each thread has taken and not yet committed
    count,      \* _appended, _written, _dropped
    writer,     \* where each thread is: "run", "write", "evict" or "off"
    phase,      \* close(): "open", "closing", or "flushed" when it did not wait
    gap,        \* gap_from and gap_to of the eviction under way, or 0
    db,         \* the journal file: its rows, the last seq, shipped_hwm
    synced,     \* as much of the file as a power cut leaves
    arch,       \* the archive: its rows and the node's cursor
    archSynced, \* as much of it as a power cut leaves
    drain,      \* the drains
    cut,        \* history: the machines that have lost power
    committed,  \* history: the rows ever committed to the journal
    evicted     \* history: the rows that went because of the size cap

vars == <<made, faults, buffer, batch, count, writer, phase, gap, db, synced, arch,
          archSynced, drain, cut, committed, evicted>>

node == <<buffer, batch, count, writer, phase, gap>>
remote == <<arch, drain>>
power == <<synced, archSynced, cut>>
history == <<committed, evicted>>

\* The writer thread, and close() draining on its caller's thread.
Threads == {"writer", "flush"}

Larger(a, b) == IF a > b THEN a ELSE b

(* A journal row; one whose `row` is 0 is a telemetry_gap event.           *)
Entry(seq, row) == [seq |-> seq, row |-> row, from |-> 0, to |-> 0]
Marker(seq, g) == [seq |-> seq, row |-> 0, from |-> g.from, to |-> g.to]
Entries == [seq : Nat, row : 0 .. MaxRows, from : 0 .. MaxRows, to : 0 .. MaxRows]

Journals == [rows : SUBSET Entries, head : Nat, shipped : Nat]
Archives == [rows : SUBSET Entries, cursor : Nat]
Reads == [at : {"idle", "asked", "heard", "got"}, since : Nat, page : SUBSET Entries,
          next : Nat]

NoCount == [appended |-> 0, written |-> 0, dropped |-> 0]
NoGap == [from |-> 0, to |-> 0]
NoBatch == [w \in Threads |-> << >>]
Started == [w \in Threads |-> IF w = "writer" THEN "run" ELSE "off"]
Idle == [at |-> "idle", since |-> 0, page |-> {}, next |-> 0]

TypeOK ==
    /\ made \in 0 .. MaxRows /\ faults \in 0 .. MaxFaults
    /\ buffer \in Seq(1 .. MaxRows) /\ Len(buffer) <= QueueMax
    /\ batch \in [Threads -> Seq(1 .. MaxRows)]
    /\ \A w \in Threads : Len(batch[w]) <= BatchRows
    /\ count \in [appended : Nat, written : Nat, dropped : Nat]
    /\ writer \in [Threads -> {"run", "write", "evict", "off"}]
    /\ phase \in {"open", "closing", "flushed"}
    /\ gap \in [from : 0 .. MaxRows, to : 0 .. MaxRows]
    /\ db \in Journals /\ synced \in Journals
    /\ arch \in Archives /\ archSynced \in Archives
    /\ drain \in [Drains -> Reads]
    /\ cut \subseteq Power
    /\ committed \subseteq 1 .. MaxRows /\ evicted \subseteq 1 .. MaxRows

Init ==
    /\ made = 0 /\ faults = 0
    /\ buffer = << >> /\ batch = NoBatch /\ count = NoCount
    /\ writer = Started /\ phase = "open" /\ gap = NoGap
    /\ db = [rows |-> {}, head |-> 0, shipped |-> 0] /\ synced = db
    /\ arch = [rows |-> {}, cursor |-> 0] /\ archSynced = arch
    /\ drain = [c \in Drains |-> Idle]
    /\ cut = {} /\ committed = {} /\ evicted = {}

----------------------------------------------------------------------------
(* journal.py: the producers and the writer thread.                        *)

\* Mutant: the deque has no maxlen.
MutAppendRow ==
    /\ made < MaxRows
    /\ made' = made + 1
    /\ buffer' = Append(buffer, made + 1)
    /\ count' = [count EXCEPT !.appended = @ + 1]
    /\ UNCHANGED <<faults, batch, writer, phase, gap, db, power, remote, history>>

\* append(): a full deque loses its oldest row, which is counted.
AppendRow ==
    /\ made < MaxRows
    /\ made' = made + 1
    /\ LET full == Len(buffer) = QueueMax IN
       /\ buffer' = Append(IF full THEN Tail(buffer) ELSE buffer, made + 1)
       /\ count' = [count EXCEPT !.appended = @ + 1,
                                 !.dropped = IF full THEN @ + 1 ELSE @]
    /\ UNCHANGED <<faults, batch, writer, phase, gap, db, power, remote, history>>

Take(w) ==
    /\ writer[w] = "run" /\ buffer # << >>
    /\ LET n == IF Len(buffer) < BatchRows THEN Len(buffer) ELSE BatchRows IN
       /\ batch' = [batch EXCEPT ![w] = SubSeq(buffer, 1, n)]
       /\ buffer' = SubSeq(buffer, n + 1, Len(buffer))
    /\ writer' = [writer EXCEPT ![w] = "write"]
    /\ UNCHANGED <<made, faults, count, phase, gap, db, power, remote, history>>

Commit(w) ==
    /\ writer[w] = "write"
    /\ db' = [db EXCEPT
                !.rows = @ \cup {Entry(db.head + i, batch[w][i]) : i \in DOMAIN batch[w]},
                !.head = @ + Len(batch[w])]
    /\ count' = [count EXCEPT !.written = @ + Len(batch[w])]
    /\ committed' = committed \cup {batch[w][i] : i \in DOMAIN batch[w]}
    /\ batch' = [batch EXCEPT ![w] = << >>]
    /\ writer' = [writer EXCEPT ![w] = "run"]
    /\ UNCHANGED <<made, faults, buffer, phase, gap, power, remote, evicted>>

\* Mutant: the batch is put back without a ROLLBACK.
MutWriteFails(w) ==
    /\ writer[w] = "write" /\ faults < MaxFaults
    /\ faults' = faults + 1
    /\ LET back == batch[w] \o buffer IN
       buffer' = SubSeq(back, 1, IF Len(back) < QueueMax THEN Len(back) ELSE QueueMax)
    /\ db' = [db EXCEPT !.rows = @ \cup {Entry(db.head + 1, batch[w][1])}, !.head = @ + 1]
    /\ batch' = [batch EXCEPT ![w] = << >>]
    /\ writer' = [writer EXCEPT
                    ![w] = IF w = "writer" /\ phase = "open" THEN "run" ELSE "off"]
    /\ UNCHANGED <<made, count, phase, gap, power, remote, history>>

\* The insert fails: the batch is put back in front, and the bounded deque
\* drops at its other end what does not fit.  The last drain gives up.
WriteFails(w) ==
    /\ writer[w] = "write" /\ faults < MaxFaults
    /\ faults' = faults + 1
    /\ LET back == batch[w] \o buffer IN
       buffer' = SubSeq(back, 1, IF Len(back) < QueueMax THEN Len(back) ELSE QueueMax)
    /\ batch' = [batch EXCEPT ![w] = << >>]
    /\ writer' = [writer EXCEPT
                    ![w] = IF w = "writer" /\ phase = "open" THEN "run" ELSE "off"]
    /\ UNCHANGED <<made, count, phase, gap, db, power, remote, history>>

\* The last drain of _run(), and flush(), end when the buffer is empty.
Drained(w) ==
    /\ writer[w] = "run" /\ phase # "open" /\ buffer = << >>
    /\ writer' = [writer EXCEPT ![w] = "off"]
    /\ UNCHANGED <<made, faults, buffer, batch, count, phase, gap,
                   db, power, remote, history>>

\* close(): the writer is told to stop.
Close ==
    /\ phase = "open"
    /\ phase' = "closing"
    /\ UNCHANGED <<made, faults, buffer, batch, count, writer, gap,
                   db, power, remote, history>>

\* join() ran out of patience with a writer that is still alive.
Flush ==
    /\ phase = "closing" /\ writer["writer"] # "off"
    /\ phase' = "flushed"
    /\ writer' = [writer EXCEPT !["flush"] = "run"]
    /\ UNCHANGED <<made, faults, buffer, batch, count, gap, db,
                   power, remote, history>>

\* Mutant: expired rows go whether or not they have been collected.
MutTrim ==
    /\ writer["writer"] = "run" /\ phase = "open"
    /\ \E n \in 0 .. db.head : db' = [db EXCEPT !.rows = {e \in @ : e.seq > n}]
    /\ gap' = NoGap
    /\ writer' = [writer EXCEPT !["writer"] = "evict"]
    /\ UNCHANGED <<made, faults, buffer, batch, count, phase, power, remote, history>>

\* trim(): collected rows that have expired go, however many those are.
Trim ==
    /\ writer["writer"] = "run" /\ phase = "open"
    /\ \E n \in 0 .. db.shipped : db' = [db EXCEPT !.rows = {e \in @ : e.seq > n}]
    /\ gap' = NoGap
    /\ writer' = [writer EXCEPT !["writer"] = "evict"]
    /\ UNCHANGED <<made, faults, buffer, batch, count, phase, power, remote, history>>

\* The first n rows of R, or all of them.
Oldest(R, n) == {e \in R : Cardinality({f \in R : f.seq <= e.seq}) <= n}

\* gap_from and gap_to, widened by the rows that are lost.
Widened(lost) ==
    IF lost = {} THEN gap
    ELSE [from |-> IF gap.from = 0 THEN Min(lost) ELSE Min(lost \cup {gap.from}),
          to   |-> Max(lost \cup {gap.to})]

\* _enforce_size: the oldest batch goes; what was not collected is a gap.
Evict ==
    /\ writer["writer"] = "evict" /\ Cardinality(db.rows) > Cap
    /\ LET gone == Oldest(db.rows, BatchRows) IN
       /\ db' = [db EXCEPT !.rows = @ \ gone]
       /\ gap' = Widened({e.row : e \in {f \in gone : f.seq > db.shipped /\ f.row # 0}})
       /\ evicted' = evicted \cup ({e.row : e \in gone} \ {0})
    /\ UNCHANGED <<made, faults, buffer, batch, count, writer, phase,
                   power, remote, committed>>

\* The file fits.  One marker for the whole pass, unless it has no width.
EvictDone ==
    /\ writer["writer"] = "evict" /\ Cardinality(db.rows) <= Cap
    /\ db' = IF gap.to > gap.from
             THEN [db EXCEPT !.rows = @ \cup {Marker(db.head + 1, gap)}, !.head = @ + 1]
             ELSE db
    /\ gap' = NoGap
    /\ writer' = [writer EXCEPT !["writer"] = "run"]
    /\ UNCHANGED <<made, faults, buffer, batch, count, phase, power, remote, history>>

Writer ==
    \/ \E w \in Threads : Take(w) \/ Commit(w) \/ WriteFails(w) \/ Drained(w)
    \/ Trim \/ Evict \/ EvictDone \/ Close \/ Flush

----------------------------------------------------------------------------
(* collector.py: a drain reads the cursor, reads a page, ingests it.       *)

Ask(c) ==
    /\ drain[c].at = "idle"
    /\ drain' = [drain EXCEPT ![c] =
                    [at |-> "asked", since |-> arch.cursor, page |-> {}, next |-> 0]]
    /\ UNCHANGED <<made, faults, node, db, power, arch, history>>

\* read() takes the question for an acknowledgement.
Hear(c) ==
    /\ drain[c].at = "asked"
    /\ db' = [db EXCEPT !.shipped = Larger(@, drain[c].since)]
    /\ drain' = [drain EXCEPT ![c].at = "heard"]
    /\ UNCHANGED <<made, faults, node, power, arch, history>>

\* The page: the rows after `since`, at most n of them.
Answer(c, n) ==
    LET page == Oldest({e \in db.rows : e.seq > drain[c].since}, n) IN
    [at |-> "got", since |-> drain[c].since, page |-> page,
     next |-> Max({e.seq : e \in page} \cup {drain[c].since})]

\* Mutant: what is handed out counts as safe.
MutFetch(c) ==
    /\ drain[c].at = "heard"
    /\ \E n \in 1 .. PageRows : drain' = [drain EXCEPT ![c] = Answer(c, n)]
    /\ db' = [db EXCEPT !.shipped = Larger(@, drain'[c].next)]
    /\ UNCHANGED <<made, faults, node, power, arch, history>>

\* read() answers with as many rows as the page and the byte budget allow.
Fetch(c) ==
    /\ drain[c].at = "heard"
    /\ \E n \in 1 .. PageRows : drain' = [drain EXCEPT ![c] = Answer(c, n)]
    /\ UNCHANGED <<made, faults, node, db, power, arch, history>>

\* The node does not answer, or its answer is lost; ingest() rolls back; the
\* coordinator is killed.
GiveUp(c) ==
    /\ drain[c].at # "idle"
    /\ drain' = [drain EXCEPT ![c] = Idle]
    /\ UNCHANGED <<made, faults, node, db, power, arch, history>>

\* Mutant: the cursor goes to the head the node reported.
MutIngested(c) == [rows |-> arch.rows \cup drain[c].page,
                   cursor |-> Larger(arch.cursor, db.head)]

\* Mutant: a drain starts over.
MutIngestedOnce(c) == [rows |-> arch.rows \cup drain[c].page, cursor |-> arch.cursor]

\* ingest(): rows and cursor in one transaction, the cursor never backwards.
Ingested(c) == [rows |-> arch.rows \cup drain[c].page,
                cursor |-> Larger(arch.cursor, drain[c].next)]

Ingest(c) ==
    /\ drain[c].at = "got"
    /\ arch' = Ingested(c)
    /\ drain' = [drain EXCEPT ![c] = Idle]
    /\ UNCHANGED <<made, faults, node, db, power, history>>

Drain(c) == Ask(c) \/ Hear(c) \/ Fetch(c) \/ GiveUp(c) \/ Ingest(c)

----------------------------------------------------------------------------
(* Kills and power cuts.  A kill leaves the files as they are; after a     *)
(* power cut a WAL file with synchronous=NORMAL is as of its last sync.    *)

Reboot ==
    /\ buffer' = << >> /\ batch' = NoBatch /\ count' = NoCount
    /\ writer' = Started /\ phase' = "open" /\ gap' = NoGap

Kill ==
    /\ faults < MaxFaults
    /\ faults' = faults + 1
    /\ Reboot
    /\ UNCHANGED <<made, db, power, remote, history>>

Sync ==
    /\ \/ "node" \in Power /\ synced' = db /\ UNCHANGED archSynced
       \/ "coordinator" \in Power /\ archSynced' = arch /\ UNCHANGED synced
    /\ UNCHANGED <<made, faults, node, db, remote, cut, history>>

NodeLosesPower ==
    /\ "node" \in Power /\ faults < MaxFaults
    /\ faults' = faults + 1
    /\ Reboot
    /\ db' = synced
    /\ cut' = cut \cup {"node"}
    /\ UNCHANGED <<made, synced, archSynced, remote, history>>

CoordinatorLosesPower ==
    /\ "coordinator" \in Power /\ faults < MaxFaults
    /\ faults' = faults + 1
    /\ arch' = archSynced
    /\ drain' = [c \in Drains |-> Idle]
    /\ cut' = cut \cup {"coordinator"}
    /\ UNCHANGED <<made, node, db, synced, archSynced, history>>

Failure == Kill \/ Sync \/ NodeLosesPower \/ CoordinatorLosesPower

Next == AppendRow \/ Writer \/ (\E c \in Drains : Drain(c)) \/ Failure

Spec == Init /\ [][Next]_vars

(* A poll comes round every few seconds, a node that is asked often enough *)
(* answers, and a transaction that is tried often enough commits.          *)
Fairness ==
    \A c \in Drains :
        WF_vars(Ask(c)) /\ SF_vars(Hear(c)) /\ SF_vars(Fetch(c)) /\ SF_vars(Ingest(c))

FairSpec == Spec /\ Fairness

----------------------------------------------------------------------------
(* Properties.                                                             *)

(* What the journal holds at or below the cursor, rows and gap markers, is *)
(* in the archive: what is not would never be asked for.  "WAL plus NORMAL *)
(* loses at most the last commits to a machine losing power" (_connect):   *)
(* so even then.                                                           *)
NothingSkipped == \A e \in db.rows : e.seq <= arch.cursor => e \in arch.rows

(* The cursor is honest, however drains overlap, as long as the node keeps *)
(* its file: the coordinator may lose its last commits.                    *)
CursorHonest == "node" \notin cut => NothingSkipped

(* An acknowledgement is never ahead of what the archive has committed,    *)
(* however drains, lost answers and kills overlap: trim() goes by it.      *)
AckSafe == cut = {} => db.shipped <= arch.cursor

(* trim(): "Rows that have not been collected are safe until the size cap  *)
(* trips": a committed row is in the journal or in the archive, unless the *)
(* cap pushed it out or a power cut took it.                               *)
Kept ==
    cut = {} => \A r \in committed \ evicted :
                   \E e \in db.rows \cup arch.rows : e.row = r

(* A row is journalled at most once, although a batch is put back when its *)
(* insert fails and flush() may drain the queue beside a wedged writer.    *)
WrittenOnce == \A e, f \in db.rows : e.row # 0 /\ e.row = f.row => e = f

(* Whatever the journal holds is collected in the end, or the cap takes it.*)
Collected ==
    \A r \in 1 .. MaxRows :
        (\E e \in db.rows : e.row = r)
            ~> r \in evicted \/ \E e \in arch.rows : e.row = r

(* "The overflow policy is drop-oldest with a counter" (journal.py), which *)
(* sync() relies on: every row that was appended is written, counted as    *)
(* dropped, or still on its way.                                           *)
DropsCounted ==
    count.appended = count.written + count.dropped + Len(buffer)
        + Len(batch["writer"]) + Len(batch["flush"])

(* "the discard is announced as a gap event, because a hole nobody knows   *)
(* about is worse than a small file" (trim()): an evicted row that was not *)
(* collected lies in a gap that is on its way to the archive.              *)
HolesAnnounced ==
    \A r \in evicted :
        \/ \E e \in arch.rows : e.row = r
        \/ \E e \in db.rows \cup arch.rows : e.row = 0 /\ e.from <= r /\ r <= e.to
        \/ gap.from <= r /\ r <= gap.to
=============================================================================
