----------------------------- MODULE Retention -----------------------------
(***************************************************************************)
(* telemetry/retention.py with the archive's dirty mark and gaps, and the  *)
(* history queries of telemetry/query.py.  Time is in ticks; a minute, an  *)
(* hour and a day are a few of them.                                       *)
(***************************************************************************)
EXTENDS Integers, FiniteSets

CONSTANTS
    Minute, Hour, Day,                  \* STEP_1M, STEP_1H, DAY_S
    Lag, Window,                        \* ROLL_LAG_S, REROLL_WINDOW_S
    Interval,                           \* time between passes, COMPACT_INTERVAL_S
    SampleKeep, RequestKeep, GapKeep,   \* raw horizons
    MinuteKeep, HourKeep,               \* rollup horizons
    RawSpan, MinuteSpan,                \* AUTO_STEP_RAW_MAX_S, AUTO_STEP_1M_MAX_S
    ArchiveMax,                         \* ARCHIVE_MAX_BYTES, in raw rows
    SampleStamps, RequestStamps,        \* times of the rows that are shipped
    MaxNow

ASSUME StepsNest ==
    {Minute, Hour, Day} \subseteq Nat \ {0} /\ Hour % Minute = 0 /\ Day % Hour = 0
ASSUME HorizonsAssumption ==
    /\ {Lag, Window, GapKeep, MinuteKeep, HourKeep} \subseteq Nat /\ {Interval, MaxNow} \subseteq Nat \ {0}
    /\ SampleStamps \cup RequestStamps \subseteq Nat \ {0}
    /\ MinuteKeep <= HourKeep

VARIABLES
    now,
    samples, requests,   \* raw rows, by time
    dirtyFrom,         \* dirty_from, or 0
    perMinute,     \* perMinute[b]: n of the rollup row of bucket b, 0 for none
    perHour,
    gaps,          \* <<from, to>>
    compaction,    \* the time a pass rolls from, or NotCompacting
    lastPass,      \* _last_compact
    rolledTo,      \* how far the last pass rolled (history)
    dropped,       \* samples that have been deleted (history)
    evicted,       \* samples and requests deleted for size (history)
    broke          \* a pass has failed half way (history)

retentionVars == <<now, samples, requests, dirtyFrom, perMinute, perHour, gaps, compaction,
                   lastPass, rolledTo, dropped, evicted, broke>>

NotCompacting == -1
Floor(t, step) == (t \div step) * step
Buckets(step) == {b \in 0 .. MaxNow : b % step = 0}
In(stamps, b, step) == {t \in stamps : b <= t /\ t < b + step}

----------------------------------------------------------------------------
MutNoteDirty(ts) == IF dirtyFrom = 0 THEN ts ELSE dirtyFrom

(* _note_dirty(): the oldest time ingested since the last pass.            *)
NoteDirty(ts) == IF dirtyFrom = 0 \/ ts < dirtyFrom THEN ts ELSE dirtyFrom

(* ingest() of one row, on time or late.                                   *)
Ingest(ts, sample) ==
    /\ ts <= now
    /\ IF sample THEN ts \in SampleStamps \ (samples \cup dropped) /\ samples' = samples \cup {ts} /\ UNCHANGED requests
                 ELSE ts \in RequestStamps \ requests /\ ts \notin {e[1] : e \in evicted}
                        /\ requests' = requests \cup {ts} /\ UNCHANGED samples
    /\ dirtyFrom' = NoteDirty(ts)
    /\ UNCHANGED <<now, perMinute, perHour, gaps, compaction, lastPass, rolledTo, dropped, evicted, broke>>

MutRollFrom(mark) == Floor(IF mark > 0 THEN mark ELSE now - Window, Minute)

(* compact(): the mark is taken, and cleared, before anything is rolled.   *)
RollFrom(mark) ==
    LET recent == IF now > Window THEN now - Window ELSE 0
    IN Floor(IF mark > 0 /\ mark < recent THEN mark ELSE recent, Hour)

TakeDirty ==
    /\ compaction = NotCompacting
    /\ compaction' = RollFrom(dirtyFrom)
    /\ dirtyFrom' = 0 /\ lastPass' = now
    /\ UNCHANGED <<now, samples, requests, perMinute, perHour, gaps, rolledTo, dropped, evicted, broke>>

(* _roll(): the buckets that have closed are written again from what is    *)
(* there now; a bucket with nothing below it is left as it is.             *)
RollTo == IF now > Lag THEN now - Lag ELSE 0
Rolled(rows, step, Value(_)) ==
    [b \in Buckets(step) |->
        IF compaction <= b /\ b + step <= Floor(RollTo, step) /\ Value(b) > 0 THEN Value(b) ELSE rows[b]]

MinuteRows == Rolled(perMinute, Minute, LAMBDA b : Cardinality(In(samples, b, Minute)))
SumMinutes(rows, b) ==
    LET total[n \in 0 .. Hour \div Minute] ==
            IF n = 0 THEN 0 ELSE total[n - 1] + (IF b + (n - 1) * Minute \in DOMAIN rows THEN rows[b + (n - 1) * Minute] ELSE 0)
    IN total[Hour \div Minute]
HourRows(rows) == Rolled(perHour, Hour, LAMBDA b : SumMinutes(rows, b))

(* _expire(): raw rows, gaps and rollups, each at its own age.             *)
Young(stamps, keep) == {t \in stamps : t >= now - keep}
YoungRows(rows, keep) == [b \in DOMAIN rows |-> IF b < now - keep THEN 0 ELSE rows[b]]

(* _enforce_size(): the day of the oldest sample goes, with every request  *)
(* before its end, and is noted as a gap.                                  *)
OldestDay(left) ==
    LET oldest == CHOOSE t \in left : \A u \in left : t <= u IN <<oldest, Floor(oldest, Day) + Day>>

Fits(ss, rs) == Cardinality(ss) + Cardinality(rs) <= ArchiveMax

MutTrimmed(ss, rs) ==
    IF Fits(ss, rs) \/ ss = {} THEN [samples |-> ss, requests |-> rs, gap |-> {}]
    ELSE LET left == {t \in ss : t >= OldestDay(ss)[2]} IN
         [samples |-> left, requests |-> {t \in rs : t >= OldestDay(ss)[2]},
          gap |-> IF left = {} THEN {} ELSE {OldestDay(left)}]

(* One day is enough, or the next pass takes the next.                     *)
Trimmed(ss, rs) ==
    IF Fits(ss, rs) \/ ss = {} THEN [samples |-> ss, requests |-> rs, gap |-> {}]
    ELSE [samples  |-> {t \in ss : t >= OldestDay(ss)[2]},
          requests |-> {t \in rs : t >= OldestDay(ss)[2]},
          gap      |-> {OldestDay(ss)}]

Compacted ==
    LET ss == Young(samples, SampleKeep)
        rs == Young(requests, RequestKeep)
        left == Trimmed(ss, rs)
    IN /\ compaction # NotCompacting
       /\ compaction' = NotCompacting
       /\ IF RollTo > compaction
          THEN /\ perMinute' = YoungRows(MinuteRows, MinuteKeep)
               /\ perHour' = YoungRows(HourRows(MinuteRows), HourKeep)
               /\ rolledTo' = RollTo
          ELSE /\ perMinute' = YoungRows(perMinute, MinuteKeep)
               /\ perHour' = YoungRows(perHour, HourKeep)
               /\ UNCHANGED rolledTo
       /\ samples' = left.samples /\ requests' = left.requests
       /\ dropped' = dropped \cup (samples \ left.samples)
       /\ evicted' = evicted \cup {<<t, "sample">> : t \in ss \ left.samples}
                             \cup {<<t, "request">> : t \in rs \ left.requests}
       /\ gaps' = {g \in gaps : g[2] >= now - GapKeep /\ g[2] > g[1]} \cup left.gap
       /\ UNCHANGED <<now, dirtyFrom, lastPass, broke>>

(* An error of the database, or the end of the process, at one of the      *)
(* transactions: what has been committed stays, and nobody rolls the rest. *)
CompactionFails(minutes) ==
    /\ compaction # NotCompacting
    /\ compaction' = NotCompacting
    /\ perMinute' = IF minutes /\ RollTo > compaction THEN MinuteRows ELSE perMinute
    /\ broke' = TRUE
    /\ UNCHANGED <<now, samples, requests, dirtyFrom, perHour, gaps, lastPass, rolledTo, dropped, evicted>>

(* The collector's loop comes round to a pass in time; a coordinator that  *)
(* is down for longer than that is the case of a longer Interval.          *)
TimePasses ==
    /\ now < MaxNow /\ compaction = NotCompacting /\ now - lastPass < Interval
    /\ now' = now + 1
    /\ UNCHANGED <<samples, requests, dirtyFrom, perMinute, perHour, gaps, compaction, lastPass, rolledTo,
                   dropped, evicted, broke>>

RetentionInit ==
    /\ now = 1 /\ samples = {} /\ requests = {} /\ dirtyFrom = 0
    /\ perMinute = [b \in Buckets(Minute) |-> 0] /\ perHour = [b \in Buckets(Hour) |-> 0]
    /\ gaps = {} /\ compaction = NotCompacting
    /\ lastPass = 0 /\ rolledTo = 0 /\ dropped = {} /\ evicted = {} /\ broke = FALSE

RetentionNext ==
    \/ \E ts \in SampleStamps \cup RequestStamps, sample \in BOOLEAN : Ingest(ts, sample)
    \/ TakeDirty \/ Compacted \/ TimePasses
    \/ \E minutes \in BOOLEAN : CompactionFails(minutes)

RetentionSpec == RetentionInit /\ [][RetentionNext]_retentionVars

----------------------------------------------------------------------------
(* query.nodes(): resolve_window() and pick_step(), by the length of the   *)
(* window; what it then shows of it.                                       *)
PickStep(from, to) ==
    IF to - from <= RawSpan THEN "raw" ELSE IF to - from <= MinuteSpan THEN "1m" ELSE "1h"

ShownIn(from, to) ==
    CASE PickStep(from, to) = "raw" -> \E t \in samples : from <= t /\ t < to
      [] PickStep(from, to) = "1m"  -> \E b \in DOMAIN perMinute : from <= b /\ b < to /\ perMinute[b] > 0
      [] PickStep(from, to) = "1h"  -> \E b \in DOMAIN perHour : from <= b /\ b < to /\ perHour[b] > 0

----------------------------------------------------------------------------
(* Properties.                                                             *)
Closed(b, step) == b + step <= Floor(rolledTo, step)
Whole(b, step) == In(dropped, b, step) = {}
Kept(b, keep) == b >= now - keep

(* After a pass, and whatever arrived late or between the mark and the     *)
(* roll, a closed bucket counts the rows there are, as long as none of     *)
(* them has been deleted; and an hour is the sum of its minutes.           *)
RollupsAgree ==
    dirtyFrom = 0 /\ compaction = NotCompacting /\ ~broke =>
        /\ \A b \in Buckets(Minute) : Closed(b, Minute) /\ Whole(b, Minute) /\ Kept(b, MinuteKeep)
              => perMinute[b] = Cardinality(In(samples, b, Minute))
        /\ \A b \in Buckets(Hour) : Closed(b, Hour) /\ Whole(b, Hour) /\ Kept(b, MinuteKeep)
              => perHour[b] = Cardinality(In(samples, b, Hour))

(* "Drop the oldest raw day until the file fits, recording each as a gap": *)
(* samples that went for their size lie in a gap, until that is too old.   *)
EvictionNoted ==
    \A e \in evicted : e[2] = "sample" =>
        \/ \E g \in gaps : g[1] <= e[1] /\ e[1] < g[2]
        \/ Floor(e[1], Day) + Day < now - GapKeep

(* The same of everything that went for its size.                          *)
AllEvictionNoted ==
    \A e \in evicted : \/ \E g \in gaps : g[1] <= e[1] /\ e[1] < g[2]
                       \/ Floor(e[1], Day) + Day < now - GapKeep

(* "The rollups for those days stay ... losing the fact that the day       *)
(* happened is not [a trade]": what a closed minute has counted it counts  *)
(* until it is too old itself.                                             *)
DaysRemembered ==
    [][\A b \in Buckets(Minute) : perMinute'[b] < perMinute[b] => b < now - MinuteKeep]_retentionVars

(* The same of what has been shipped: a sample that is no longer there has *)
(* been counted.                                                           *)
DroppedWereCounted ==
    \A t \in dropped : Kept(Floor(t, Minute), MinuteKeep) => perMinute[Floor(t, Minute)] > 0

(* compact() after one that failed counts what that one did not.           *)
FailureMadeUp ==
    dirtyFrom = 0 /\ compaction = NotCompacting => \A b \in Buckets(Minute) :
        Closed(b, Minute) /\ Whole(b, Minute) /\ Kept(b, MinuteKeep)
            => perMinute[b] = Cardinality(In(samples, b, Minute))

(* A window with something in the archive's rollups does not read as empty.*)
OldWindowsShown ==
    \A from \in Buckets(Minute), to \in Buckets(Minute) :
        from < to /\ (\E b \in Buckets(Minute) : from <= b /\ b < to /\ perMinute[b] > 0) => ShownIn(from, to)

(* What retention promises whatever the order of late rows, rolls,         *)
(* deletions and evictions: after a pass a closed bucket counts the rows   *)
(* there are, and samples that went for their size lie in a gap that is on *)
(* record.                                                                 *)
RetentionPromise ==
    RollupsAgree /\ EvictionNoted
=============================================================================
