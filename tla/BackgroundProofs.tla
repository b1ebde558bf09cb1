-------------------------- MODULE BackgroundProofs -------------------------
(***************************************************************************)
(* The safety of what runs beside the requests, for every bound.  The      *)
(* restart coordinator: one retry loop at a time, and a flag that tells    *)
(* the truth about it.  The parking lot: an exact count, both bounds, and  *)
(* a target for whoever has waited longest.  The remote providers: money,  *)
(* keys and the operator's word, however requests and patches interleave.  *)
(* Retention: rollups that agree with the samples and gaps that own up.    *)
(***************************************************************************)
EXTENDS RestartCoordinator, ParkingLot, Providers, Retention, NumberFacts, SequenceTheorems, TLAPS

(* What the three properties rest on: a loop that runs and is not          *)
(* cancelled is the current one; a loop that sleeps has an attempt left;   *)
(* each relaunch is a deployment after the first.                          *)
CurrentRuns ==
    \A k \in Loops : loop[k].at \in Running /\ ~loop[k].cancelled => k = cur
SleepersMay == \A k \in Loops : loop[k].at = "sleep" => loop[k].attempts < MaxAttempts
Numbered == relaunches < dep.id

IInv == TypeOK /\ CurrentRuns /\ FlagExact /\ SleepersMay /\ Numbered

LEMMA InitIInv == Init => IInv
  <1> SUFFICES ASSUME Init PROVE IInv
    OBVIOUS
  <1> USE BoundsAssumption DEF Init, Unused
  <1>1. loop \in [Loops -> LoopRecords]
    BY DEF LoopRecords, Places
  <1>2. TypeOK
    <2>1. dep \in [id : 1 .. MaxDeployments,
                   st : {"launching", "ready", "crashed", "stopped"}]
      <3>1. 1 \in 1 .. MaxDeployments
        OBVIOUS
      <3>2. dep = [id |-> 1, st |-> "launching"]
        OBVIOUS
      <3> HIDE BoundsAssumption DEF Init, Unused
      <3> QED BY <3>1, <3>2
    <2>2. events \in Seq({"ready", "failed", "operator"})
      OBVIOUS
    <2>3. auto \in BOOLEAN /\ consuming \in BOOLEAN /\ gaveUp \in BOOLEAN
      BY Zenon
    <2>4. /\ toggles \in 0 .. MaxToggles
          /\ cur \in 0 .. MaxLoops
          /\ relaunches \in 0 .. MaxDeployments
      OBVIOUS
    <2> QED BY <1>1, <2>1, <2>2, <2>3, <2>4 DEF TypeOK
  <1>3. CurrentRuns /\ SleepersMay
    BY DEF CurrentRuns, SleepersMay, Running
  <1>4. FlagExact /\ Numbered
    BY DEF FlagExact, Numbered
  <1> QED BY <1>2, <1>3, <1>4 DEF IInv

(* The loop that is cancelled was the current one, and there is none after *)
(* it.                                                                     *)
LEMMA CancelCurrent ==
    ASSUME IInv, cur' = 0, loop' = Cancel({cur}), dep' = dep,
           relaunches' = relaunches
    PROVE  /\ loop' \in [Loops -> LoopRecords]
           /\ CurrentRuns' /\ FlagExact' /\ SleepersMay'
  <1>1. loop' \in [Loops -> LoopRecords]
    BY DEF IInv, TypeOK, Cancel, LoopRecords
  <1>2. CurrentRuns'
    BY DEF IInv, TypeOK, CurrentRuns, Cancel, Loops
  <1>3. FlagExact'
    BY DEF FlagExact
  <1>4. SleepersMay'
    BY DEF IInv, TypeOK, SleepersMay, Cancel
  <1> QED BY <1>1, <1>2, <1>3, <1>4

(* A step of loop k that leaves the others alone, keeps it current while   *)
(* it runs, and keeps flag and place together.                             *)
LEMMA LoopStep ==
    ASSUME IInv, NEW k \in Loops, NEW rec \in LoopRecords,
           loop' = [loop EXCEPT ![k] = rec], cur' = cur,
           rec.at \in Running /\ ~rec.cancelled
               => loop[k].at \in Running /\ ~loop[k].cancelled,
           k = cur => (rec.inFlight <=> rec.at \in Running),
           rec.at = "sleep" => rec.attempts < MaxAttempts
    PROVE  /\ loop' \in [Loops -> LoopRecords]
           /\ CurrentRuns' /\ FlagExact' /\ SleepersMay'
  <1> USE DEF IInv, TypeOK, LoopRecords
  <1>0. /\ loop \in [Loops -> LoopRecords] /\ cur \in 0 .. MaxLoops
        /\ \A j \in Loops : loop'[j] = IF j = k THEN rec ELSE loop[j]
        /\ loop' \in [Loops -> LoopRecords]
    OBVIOUS
  <1>1. CurrentRuns'
    BY <1>0 DEF CurrentRuns
  <1>2. FlagExact'
    <2> SUFFICES ASSUME cur # 0
                 PROVE  loop'[cur].inFlight <=> loop'[cur].at \in Running
      BY DEF FlagExact
    <2>1. cur \in Loops
      BY <1>0, BoundsAssumption DEF Loops
    <2> QED BY <1>0, <2>1 DEF FlagExact
  <1>3. SleepersMay'
    BY <1>0 DEF SleepersMay
  <1> QED BY <1>0, <1>1, <1>2, <1>3

LEMMA StepKeeps == ASSUME IInv, NEW k \in Loops, Step(k) PROVE IInv'
  <1> DEFINE Put(rec) == loop' = [loop EXCEPT ![k] = rec]
  <1>0. loop[k] \in LoopRecords /\ loop \in [Loops -> LoopRecords]
    BY DEF IInv, TypeOK, LoopRecords
  <1>f. k = cur => (loop[k].inFlight <=> loop[k].at \in Running)
    BY BoundsAssumption DEF IInv, FlagExact, Loops
  <1>9. ASSUME NEW rec \in LoopRecords, Put(rec), cur' = cur,
               rec.at \in Running /\ ~rec.cancelled
                   => loop[k].at \in Running /\ ~loop[k].cancelled,
               rec.inFlight = (loop[k].inFlight /\ rec.at \in Running),
               rec.at \in Running => loop[k].at \in Running,
               rec.at = "sleep" => rec.attempts < MaxAttempts,
               UNCHANGED <<events, auto, toggles, consuming>>,
               gaveUp' \in BOOLEAN,
               \/ dep' = dep /\ relaunches' = relaunches
               \/ /\ dep.id < MaxDeployments
                  /\ dep' = [id |-> dep.id + 1, st |-> "launching"]
                  /\ relaunches' = relaunches + 1
        PROVE  IInv'
    <2>1. /\ loop' \in [Loops -> LoopRecords]
          /\ CurrentRuns' /\ FlagExact' /\ SleepersMay'
      BY <1>9, <1>f, LoopStep
    <2>2. /\ dep' \in [id : 1 .. MaxDeployments,
                       st : {"launching", "ready", "crashed", "stopped"}]
          /\ relaunches' \in 0 .. MaxDeployments
          /\ Numbered'
      BY <1>9, BoundsAssumption DEF IInv, TypeOK, Numbered
    <2> QED BY <2>1, <2>2, <1>9 DEF IInv, TypeOK, LoopRecords
  <1>e. [loop[k] EXCEPT !.at = "ended", !.inFlight = FALSE] \in LoopRecords
    BY <1>0 DEF LoopRecords, Places
  <1>g. Ended(k) = [loop EXCEPT ![k] = [loop[k] EXCEPT !.at = "ended", !.inFlight = FALSE]]
    BY <1>0 DEF Ended, LoopRecords
  <1>1. CASE Top(k)
    <2>1. CASE loop[k].attempts < MaxAttempts /\ auto
      <3> DEFINE rec == [loop[k] EXCEPT !.at = "sleep"]
      <3>1. rec \in LoopRecords /\ Put(rec)
        BY <1>0, <1>1, <2>1 DEF Top, LoopRecords, Places
      <3> QED BY <3>1, <1>9, <1>1, <2>1, <1>0 DEF Top, At, Running, IInv, TypeOK, LoopRecords
    <2>2. CASE ~(loop[k].attempts < MaxAttempts /\ auto)
      <3> DEFINE rec == [loop[k] EXCEPT !.at = "ended", !.inFlight = FALSE]
      <3>1. Put(rec)
        BY <1>g, <1>1, <2>2 DEF Top
      <3> QED BY <3>1, <1>e, <1>9, <1>1, <2>2, <1>0 DEF Top, At, Running, IInv, TypeOK, LoopRecords
    <2> QED BY <2>1, <2>2
  <1>2. CASE Wake(k)
    <2>1. CASE auto
      <3> DEFINE rec == [loop[k] EXCEPT !.at = "plan", !.attempts = @ + 1]
      <3>1. rec \in LoopRecords /\ Put(rec)
        BY <1>0, <1>2, <2>1, BoundsAssumption
           DEF Wake, At, LoopRecords, Places, IInv, SleepersMay
      <3> QED BY <3>1, <1>9, <1>2, <2>1, <1>0 DEF Wake, At, Running, IInv, TypeOK, LoopRecords
    <2>2. CASE ~auto
      <3> DEFINE rec == [loop[k] EXCEPT !.at = "ended", !.inFlight = FALSE]
      <3>1. Put(rec)
        BY <1>g, <1>2, <2>2 DEF Wake
      <3> QED BY <3>1, <1>e, <1>9, <1>2, <2>2, <1>0 DEF Wake, At, Running, IInv, TypeOK, LoopRecords
    <2> QED BY <2>1, <2>2
  <1>3. CASE RecordGone(k)
    <2> DEFINE rec == [loop[k] EXCEPT !.at = "ended", !.inFlight = FALSE]
    <2>1. Put(rec)
      BY <1>g, <1>3 DEF RecordGone
    <2> QED BY <2>1, <1>e, <1>9, <1>3, <1>0 DEF RecordGone, At, Running, IInv, TypeOK, LoopRecords
  <1>r. CASE Raises(k)
    <2> DEFINE rec == [loop[k] EXCEPT !.at = "ended", !.inFlight = FALSE]
    <2>1. Put(rec)
      BY <1>g, <1>r DEF Raises
    <2> QED BY <2>1, <1>e, <1>9, <1>r, <1>0 DEF Raises, At, Running, IInv, TypeOK, LoopRecords
  <1>4. CASE PlanFails(k)
    <2> DEFINE rec == [loop[k] EXCEPT !.at = "top"]
    <2>1. rec \in LoopRecords /\ Put(rec)
      BY <1>0, <1>4 DEF PlanFails, LoopRecords, Places
    <2> QED BY <2>1, <1>9, <1>4, <1>0 DEF PlanFails, At, Running, IInv, TypeOK, LoopRecords
  <1>5. CASE CallLaunch(k)
    <2> DEFINE rec == [loop[k] EXCEPT !.at = "launch"]
    <2>1. rec \in LoopRecords /\ Put(rec)
      BY <1>0, <1>5 DEF CallLaunch, LoopRecords, Places
    <2> QED BY <2>1, <1>9, <1>5, <1>0 DEF CallLaunch, At, Running, IInv, TypeOK, LoopRecords
  <1>6. CASE ThreadLaunch(k)
    <2> PICK result \in {"launched", "conflict", "error"} :
             /\ result = "launched" => dep.id < MaxDeployments
             /\ IF result = "launched"
                THEN /\ dep' = [id |-> dep.id + 1, st |-> "launching"]
                     /\ relaunches' = relaunches + 1
                ELSE UNCHANGED <<dep, relaunches>>
             /\ loop' = IF loop[k].at = "orphan" THEN [loop EXCEPT ![k].at = "ended"]
                        ELSE [loop EXCEPT ![k].at = "back", ![k].result = result]
      BY <1>6 DEF ThreadLaunch
    <2>0. /\ \/ dep' = dep /\ relaunches' = relaunches
             \/ /\ dep.id < MaxDeployments
                /\ dep' = [id |-> dep.id + 1, st |-> "launching"]
                /\ relaunches' = relaunches + 1
          /\ cur' = cur /\ UNCHANGED <<events, auto, toggles, consuming>>
          /\ gaveUp' \in BOOLEAN
      BY <1>6 DEF ThreadLaunch, IInv, TypeOK
    <2>1. CASE loop[k].at = "orphan"
      <3> DEFINE rec == [loop[k] EXCEPT !.at = "ended"]
      <3>1. rec \in LoopRecords /\ Put(rec)
        BY <1>0, <2>1 DEF LoopRecords, Places
      <3>3. /\ loop' \in [Loops -> LoopRecords]
            /\ CurrentRuns' /\ FlagExact' /\ SleepersMay'
        <4>1. k = cur => (rec.inFlight <=> rec.at \in Running)
          BY <1>f, <2>1, <1>0 DEF Running, LoopRecords
        <4> QED BY <3>1, <2>0, <2>1, <1>0, <4>1, LoopStep DEF Running, LoopRecords
      <3>4. /\ dep' \in [id : 1 .. MaxDeployments,
                         st : {"launching", "ready", "crashed", "stopped"}]
            /\ relaunches' \in 0 .. MaxDeployments
            /\ Numbered'
        BY <2>0, BoundsAssumption DEF IInv, TypeOK, Numbered
      <3> QED BY <3>3, <3>4, <2>0 DEF IInv, TypeOK, LoopRecords
    <2>2. CASE loop[k].at = "launch"
      <3> DEFINE rec == [loop[k] EXCEPT !.at = "back", !.result = result]
      <3>1. rec \in LoopRecords /\ Put(rec)
        BY <1>0, <2>2 DEF LoopRecords, Places
      <3> QED BY <3>1, <1>9, <2>0, <2>2, <1>0 DEF Running, LoopRecords
    <2> QED BY <2>1, <2>2, <1>6 DEF ThreadLaunch
  <1>7. CASE Resume(k)
    <2>1. CASE loop[k].result = "error"
      <3> DEFINE rec == [loop[k] EXCEPT !.at = "top"]
      <3>1. rec \in LoopRecords /\ Put(rec)
        BY <1>0, <1>7, <2>1 DEF Resume, LoopRecords, Places
      <3> QED BY <3>1, <1>9, <1>7, <1>0 DEF Resume, At, Running, IInv, TypeOK, LoopRecords
    <2>2. CASE loop[k].result # "error"
      <3> DEFINE rec == [loop[k] EXCEPT !.at = "ended", !.inFlight = FALSE]
      <3>1. Put(rec)
        BY <1>g, <1>7, <2>2 DEF Resume
      <3> QED BY <3>1, <1>e, <1>9, <1>7, <1>0 DEF Resume, At, Running, IInv, TypeOK, LoopRecords
    <2> QED BY <2>1, <2>2
  <1>8. CASE Unwind(k)
    <2> DEFINE rec == [loop[k] EXCEPT !.at = IF loop[k].at = "launch" THEN "orphan" ELSE "ended",
                                      !.inFlight = FALSE]
    <2>0. rec \in LoopRecords
      BY <1>0 DEF LoopRecords, Places
    <2>1. Put(rec)
      <3>1. loop' = [Ended(k) EXCEPT ![k].at =
                        IF loop[k].at = "launch" THEN "orphan" ELSE "ended"]
        BY <1>8 DEF Unwind
      <3>2. /\ loop' = [Ended(k) EXCEPT ![k] = [Ended(k)[k] EXCEPT !.at =
                             IF loop[k].at = "launch" THEN "orphan" ELSE "ended"]]
            /\ Ended(k)[k] = [loop[k] EXCEPT !.at = "ended", !.inFlight = FALSE]
            /\ \A j \in Loops : j # k => Ended(k)[j] = loop[j]
            /\ DOMAIN Ended(k) = Loops
        BY <3>1, <1>g, <1>0
      <3>3. [Ended(k)[k] EXCEPT !.at =
                IF loop[k].at = "launch" THEN "orphan" ELSE "ended"] = rec
        BY <3>2, <1>0 DEF LoopRecords
      <3> QED BY <3>2, <3>3, <1>0
    <2> QED BY <2>0, <2>1, <1>9, <1>8, <1>0 DEF Unwind, Running, IInv, TypeOK, LoopRecords
  <1> QED BY <1>1, <1>2, <1>3, <1>r, <1>4, <1>5, <1>6, <1>7, <1>8 DEF Step

(* A crash that is answered with a new loop: none that counts is running.  *)
LEMMA HandleKeeps == ASSUME IInv, Handle PROVE IInv'
  <1>0. /\ UNCHANGED <<dep, auto, toggles, consuming, gaveUp, relaunches>>
        /\ events' \in Seq({"ready", "failed", "operator"})
        /\ cur \in 0 .. MaxLoops /\ loop \in [Loops -> LoopRecords]
    BY DEF Handle, IInv, TypeOK, LoopRecords
  <1>9. ASSUME /\ loop' \in [Loops -> LoopRecords] /\ cur' \in 0 .. MaxLoops
               /\ CurrentRuns' /\ FlagExact' /\ SleepersMay'
        PROVE  IInv'
    BY <1>0, <1>9 DEF IInv, TypeOK, LoopRecords, Numbered
  <1>1. CASE HandleReady
    <2>1. cur' = 0 /\ loop' = Cancel({cur})
      BY <1>1 DEF HandleReady
    <2>2. /\ loop' \in [Loops -> LoopRecords]
          /\ CurrentRuns' /\ FlagExact' /\ SleepersMay'
      BY <1>0, <2>1, CancelCurrent
    <2> QED BY <2>1, <2>2, <1>9, BoundsAssumption
  <1>2. CASE HandleFailed /\ Wanted
    <2> PICK k \in Loops : /\ loop[k].at = "unused"
                           /\ cur' = k
                           /\ loop' = [loop EXCEPT ![k] = Started]
      BY <1>2 DEF HandleFailed
    <2>1. ASSUME NEW j \in Loops, loop[j].at \in Running, ~loop[j].cancelled
          PROVE  FALSE
      <3>1. j = cur /\ cur # 0
        BY <2>1, BoundsAssumption DEF IInv, CurrentRuns, Loops
      <3> QED BY <3>1, <2>1, <1>2 DEF Wanted, IInv, FlagExact
    <2>0. Started \in LoopRecords /\ Started.at = "top" /\ Started.inFlight = TRUE
      <3>1. 0 \in 0 .. MaxAttempts
        BY BoundsAssumption
      <3> QED BY <3>1 DEF Started, LoopRecords, Places
    <2>2. /\ loop' \in [Loops -> LoopRecords]
          /\ loop'[k].at = "top" /\ loop'[k].inFlight
          /\ \A j \in Loops : j # k => loop'[j] = loop[j]
      BY <1>0, <2>0
    <2>3. CurrentRuns' /\ FlagExact'
      BY <2>1, <2>2 DEF CurrentRuns, FlagExact, Running
    <2>4. SleepersMay'
      BY <2>2 DEF SleepersMay, IInv
    <2> QED BY <2>2, <2>3, <2>4, <1>9, BoundsAssumption DEF Loops
  <1>3. CASE UNCHANGED <<cur, loop>>
    BY <1>0, <1>3, <1>9 DEF IInv, CurrentRuns, FlagExact, SleepersMay
  <1> QED BY <1>1, <1>2, <1>3 DEF Handle, HandleFailed

LEMMA NextKeeps == IInv /\ [Next]_vars => IInv'
  <1> SUFFICES ASSUME IInv, [Next]_vars PROVE IInv'
    OBVIOUS
  <1>1. ASSUME UNCHANGED <<cur, loop>>,
               UNCHANGED <<dep, relaunches>> \/ Numbered',
               TypeOK'
        PROVE  IInv'
    BY <1>1 DEF IInv, CurrentRuns, FlagExact, SleepersMay, Numbered
  <1>2. CASE Ready
    <2>1. TypeOK'
      BY <1>2, BoundsAssumption DEF Ready, IInv, TypeOK
    <2>2. Numbered'
      BY <1>2 DEF Ready, IInv, TypeOK, Numbered
    <2> QED BY <2>1, <2>2, <1>1, <1>2 DEF Ready
  <1>3. CASE Crash
    <2>0. events' \in Seq({"ready", "failed", "operator"})
      BY <1>3 DEF Crash, IInv, TypeOK
    <2>1. TypeOK'
      BY <1>3, <2>0, BoundsAssumption DEF Crash, IInv, TypeOK
    <2>2. Numbered'
      BY <1>3 DEF Crash, IInv, TypeOK, Numbered
    <2> QED BY <2>1, <2>2, <1>1, <1>3 DEF Crash
  <1>4. CASE OperatorStop
    <2>1. TypeOK'
      BY <1>4, BoundsAssumption DEF OperatorStop, IInv, TypeOK
    <2>2. Numbered'
      BY <1>4 DEF OperatorStop, IInv, TypeOK, Numbered
    <2> QED BY <2>1, <2>2, <1>1, <1>4 DEF OperatorStop
  <1>5. CASE OperatorLaunch
    <2>1. TypeOK'
      BY <1>5, BoundsAssumption DEF OperatorLaunch, IInv, TypeOK
    <2>2. Numbered'
      BY <1>5 DEF OperatorLaunch, IInv, TypeOK, Numbered
    <2> QED BY <2>1, <2>2, <1>1, <1>5 DEF OperatorLaunch
  <1>6. CASE Toggle
    <2>1. TypeOK'
      BY <1>6, BoundsAssumption DEF Toggle, IInv, TypeOK
    <2> QED BY <2>1, <1>1, <1>6 DEF Toggle
  <1>7. CASE Handle
    BY <1>7, HandleKeeps
  <1>8. CASE Stop
    <2>1. /\ loop' \in [Loops -> LoopRecords]
          /\ CurrentRuns' /\ FlagExact' /\ SleepersMay'
      BY <1>8, CancelCurrent DEF Stop
    <2>2. cur' \in 0 .. MaxLoops
      BY <1>8, BoundsAssumption DEF Stop
    <2>3. TypeOK' /\ Numbered'
      BY <2>1, <2>2, <1>8 DEF Stop, IInv, TypeOK, Numbered
    <2> QED BY <2>1, <2>3 DEF IInv
  <1>9. CASE \E k \in Loops : Step(k)
    BY <1>9, StepKeeps
  <1>10. CASE UNCHANGED vars
    BY <1>10 DEF vars, IInv, TypeOK, CurrentRuns, FlagExact, SleepersMay, Numbered
  <1> QED BY <1>2, <1>3, <1>4, <1>5, <1>6, <1>7, <1>8, <1>9, <1>10 DEF Next

LEMMA IInvHolds == Spec => []IInv
  BY InitIInv, NextKeeps, PTL DEF Spec

(* The coordinator's state is well typed: in particular no loop makes more *)
(* than MaxAttempts attempts.                                              *)
THEOREM RestartTypes == Spec => []TypeOK
  <1>1. IInv => TypeOK
    BY DEF IInv
  <1> QED BY <1>1, IInvHolds, PTL

(* However READY and FAILED events, cancellations that have not unwound    *)
(* yet and threads that cannot be cancelled interleave, at most one retry  *)
(* loop is at work for a served name.                                      *)
THEOREM OneLoopAtWork == Spec => []OneLoop
  <1>1. IInv => OneLoop
    BY DEF IInv, OneLoop, CurrentRuns
  <1> QED BY <1>1, IInvHolds, PTL

(* in_flight of the current state object tells whether its loop runs.      *)
THEOREM FlagIsExact == Spec => []FlagExact
  <1>1. IInv => FlagExact
    BY DEF IInv
  <1> QED BY <1>1, IInvHolds, PTL

(* The three together, as the run checks them.                             *)
THEOREM LoopsAreBooked == Spec => []LoopBooks
  <1>1. TypeOK /\ OneLoop /\ FlagExact <=> LoopBooks
    BY DEF LoopBooks
  <1> QED BY <1>1, RestartTypes, OneLoopAtWork, FlagIsExact, PTL

(* list.remove() of a ticket that is in the line once.                     *)
Closes(q, r, i) ==
    /\ Len(r) = Len(q) - 1
    /\ \A k \in 1 .. Len(r) : r[k] = IF k < i THEN q[k] ELSE q[k + 1]

LEMMA RemoveAtCloses ==
    ASSUME NEW S, NEW q \in Seq(S), NEW i \in 1 .. Len(q)
    PROVE  RemoveAt(q, i) \in Seq(S) /\ Closes(q, RemoveAt(q, i), i)
  <1> DEFINE a == SubSeq(q, 1, i - 1)
             b == SubSeq(q, i + 1, Len(q))
  <1>1. a \in Seq(S) /\ Len(a) = i - 1 /\ \A k \in 1 .. i - 1 : a[k] = q[k]
    OBVIOUS
  <1>2. b \in Seq(S) /\ Len(b) = Len(q) - i /\ \A k \in 1 .. Len(q) - i : b[k] = q[i + k]
    OBVIOUS
  <1>3. RemoveAt(q, i) = a \o b
    BY DEF RemoveAt
  <1> HIDE DEF a, b
  <1>4. a \o b \in Seq(S) /\ Len(a \o b) = Len(q) - 1
    <2>1. a \o b \in Seq(S) /\ Len(a \o b) = Len(a) + Len(b)
      BY <1>1, <1>2, ConcatProperties
    <2> QED BY <1>1, <1>2, <2>1
  <1>5. \A k \in 1 .. Len(q) - 1 : (a \o b)[k] = IF k <= Len(a) THEN a[k] ELSE b[k - Len(a)]
    <2>1. Len(a) + Len(b) = Len(q) - 1
      BY <1>1, <1>2
    <2> QED BY ONLY <1>1, <1>2, <2>1, ConcatProperties
  <1> DEFINE c == a \o b
  <1>6. /\ RemoveAt(q, i) = c /\ c \in Seq(S) /\ Len(c) = Len(q) - 1
        /\ \A k \in 1 .. Len(q) - 1 : c[k] = IF k <= Len(a) THEN a[k] ELSE b[k - Len(a)]
    BY <1>3, <1>4, <1>5
  <1> HIDE DEF c
  <1>7. ASSUME NEW k \in 1 .. Len(q) - 1, k < i PROVE c[k] = q[k]
    <2>1. k \in 1 .. i - 1 /\ k <= Len(a)
      BY <1>1, <1>7
    <2> QED BY <1>1, <1>6, <2>1
  <1>8. ASSUME NEW k \in 1 .. Len(q) - 1, ~(k < i) PROVE c[k] = q[k + 1]
    <2> DEFINE j == k - Len(a)
    <2>1. j \in 1 .. Len(q) - i /\ i + j = k + 1
      BY <1>1, <1>8
    <2>2. ~(k <= Len(a))
      BY <1>1, <1>8
    <2>3. c[k] = b[j]
      BY <1>6, <2>2
    <2> HIDE DEF j
    <2>4. b[j] = q[i + j]
      BY <1>2, <2>1
    <2> QED BY <2>1, <2>3, <2>4
  <1> QED BY <1>6, <1>7, <1>8 DEF Closes

LEMMA RemoveFirstCloses ==
    ASSUME NEW S, NEW q \in Seq(S), IsInjective(q), NEW i \in 1 .. Len(q)
    PROVE  RemoveFirst(q, q[i]) \in Seq(S) /\ Closes(q, RemoveFirst(q, q[i]), i)
  <1> DEFINE I == {j \in 1 .. Len(q) : q[j] = q[i]}
  <1>1. I = {i}
    BY DEF IsInjective
  <1>2. Min(I) = i
    BY <1>1 DEF Min
  <1>3. SelectInSeq(q, LAMBDA v : v = q[i]) = i
    BY <1>1, <1>2 DEF SelectInSeq
  <1>4. RemoveFirst(q, q[i]) = RemoveAt(q, i)
    BY <1>3 DEF RemoveFirst
  <1>5. RemoveAt(q, i) \in Seq(S) /\ Closes(q, RemoveAt(q, i), i)
    BY RemoveAtCloses
  <1> QED BY <1>4, <1>5

LEMMA ClosedLine ==
    ASSUME NEW S, NEW q \in Seq(S), NEW r \in Seq(S), IsInjective(q), NEW i \in 1 .. Len(q), Closes(q, r, i)
    PROVE  ToSet(r) = ToSet(q) \ {q[i]} /\ IsInjective(r)
  <1>1. ASSUME NEW k \in 1 .. Len(r) PROVE r[k] \in ToSet(q) \ {q[i]}
    BY DEF Closes, IsInjective, ToSet
  <1>2. ASSUME NEW j \in 1 .. Len(q), j # i PROVE q[j] \in ToSet(r)
    <2>1. CASE j < i
      <3>1. j \in 1 .. Len(r) /\ r[j] = q[j]
        BY <2>1 DEF Closes
      <3> QED BY <3>1 DEF ToSet
    <2>2. CASE j > i
      <3>1. j - 1 \in 1 .. Len(r) /\ r[j - 1] = q[j]
        BY <2>2 DEF Closes
      <3> QED BY <3>1 DEF ToSet
    <2> QED BY <1>2, <2>1, <2>2
  <1>3. IsInjective(r)
    BY DEF Closes, IsInjective
  <1> QED BY <1>1, <1>2, <1>3 DEF ToSet

LEMMA LongerLine ==
    ASSUME NEW S, NEW q \in Seq(S), NEW w \in S
    PROVE  /\ Append(q, w) \in Seq(S) /\ Len(Append(q, w)) = Len(q) + 1
           /\ ToSet(Append(q, w)) = ToSet(q) \cup {w}
           /\ IsInjective(q) /\ w \notin ToSet(q) => IsInjective(Append(q, w))
  <1>1. Append(q, w) \in Seq(S) /\ Len(Append(q, w)) = Len(q) + 1
    OBVIOUS
  <1>2. \A k \in 1 .. Len(q) + 1 : Append(q, w)[k] = IF k = Len(q) + 1 THEN w ELSE q[k]
    OBVIOUS
  <1> DEFINE a == Append(q, w)
  <1> HIDE DEF a
  <1>3. a \in Seq(S) /\ Len(a) = Len(q) + 1 /\ \A k \in 1 .. Len(q) + 1 : a[k] = IF k = Len(q) + 1 THEN w ELSE q[k]
    BY <1>1, <1>2 DEF a
  <1>4. ToSet(a) = ToSet(q) \cup {w}
    BY <1>3 DEF ToSet
  <1>5. IsInjective(q) /\ w \notin ToSet(q) => IsInjective(a)
    BY <1>3 DEF ToSet, IsInjective
  <1> QED BY <1>1, <1>4, <1>5 DEF a

(***************************************************************************)
(* The parking lot.                                                        *)
(***************************************************************************)

LotPlaces == Inside \cup {"idle", "served", "out"}
Insiders(a) == {w \in Waiters : a[w] \in Inside}
InLine(a, m) == {w \in Waiters : a[w] \in Inside /\ ModelOf[w] = m}

(* A line is the requests of its model that are inside, each once.         *)
LineIs(q, a, m) ==
    /\ q[m] \in Seq(Waiters) /\ ToSet(q[m]) = InLine(a, m)
    /\ IsInjective(q[m]) /\ Len(q[m]) <= MaxPerModel

LotBooks(q, n, a) ==
    /\ q = [m \in Models |-> q[m]] /\ \A m \in Models : LineIs(q, a, m)
    /\ a \in [Waiters -> LotPlaces]
    /\ IsFiniteSet(Insiders(a)) /\ n = Cardinality(Insiders(a)) /\ n <= MaxWaiters

LotInv ==
    /\ LotBooks(queue, parked, at)
    /\ closed \in BOOLEAN /\ late \subseteq Waiters /\ asked \subseteq Waiters /\ up \subseteq Models

(* Nobody comes or goes.                                                   *)
NobodyMoves(a, b) ==
    /\ b \in [Waiters -> LotPlaces]
    /\ \A w \in Waiters : (b[w] \in Inside) = (a[w] \in Inside)

(* Nobody leaves with a target.                                            *)
NoneServed == \A w \in Waiters : at'[w] = "served" => at[w] = "served"

LEMMA StayingKeeps ==
    ASSUME NEW q, NEW n, NEW a, LotBooks(q, n, a), NEW b, NobodyMoves(a, b)
    PROVE  LotBooks(q, n, b)
  <1>1. Insiders(b) = Insiders(a) /\ \A m \in Models : InLine(b, m) = InLine(a, m)
    BY DEF Insiders, InLine, NobodyMoves
  <1> QED BY <1>1 DEF LotBooks, LineIs, NobodyMoves

LEMMA WokenStays ==
    ASSUME at \in [Waiters -> LotPlaces], NEW M
    PROVE  NobodyMoves(at, Woken(M)) /\ \A w \in Waiters : Woken(M)[w] = "served" => at[w] = "served"
  <1>1. Woken(M) \in [Waiters -> LotPlaces]
    BY DEF Woken, LotPlaces, Inside
  <1>2. \A w \in Waiters : (Woken(M)[w] \in Inside) = (at[w] \in Inside)
    BY DEF Woken, Inside
  <1>3. \A w \in Waiters : Woken(M)[w] = "served" => at[w] = "served"
    BY DEF Woken
  <1> QED BY <1>1, <1>2, <1>3 DEF NobodyMoves

LEMMA StepsStay ==
    ASSUME at \in [Waiters -> LotPlaces], NEW w \in Waiters, NEW to \in LotPlaces,
           (at[w] \in Inside) = (to \in Inside)
    PROVE  NobodyMoves(at, [at EXCEPT ![w] = to])
  <1> DEFINE b == [at EXCEPT ![w] = to]
  <1>1. b \in [Waiters -> LotPlaces] /\ b[w] = to /\ \A v \in Waiters \ {w} : b[v] = at[v]
    OBVIOUS
  <1> HIDE DEF b
  <1>2. NobodyMoves(at, b)
    BY <1>1 DEF NobodyMoves
  <1> QED BY <1>2 DEF b

(* A request comes in.                                                     *)
LEMMA ParkKeeps ==
    ASSUME LotInv, NEW w \in Waiters, Park(w)
    PROVE  LotInv' /\ NoneServed
  <1> DEFINE m == ModelOf[w]
  <1>1. /\ at[w] = "idle" /\ parked < MaxWaiters /\ Len(queue[m]) < MaxPerModel
        /\ queue' = [queue EXCEPT ![m] = Append(queue[m], w)]
        /\ parked' = parked + 1 /\ at' = [at EXCEPT ![w] = "top"]
        /\ UNCHANGED <<closed, late, asked, up>>
    BY DEF Park, Accepts
  <1>2. /\ LotBooks(queue, parked, at) /\ at \in [Waiters -> LotPlaces] /\ m \in Models
        /\ LineIs(queue, at, m) /\ IsFiniteSet(Insiders(at)) /\ parked = Cardinality(Insiders(at))
    BY ModelAssumption DEF LotInv, LotBooks
  <1>3. /\ at' \in [Waiters -> LotPlaces] /\ at'[w] = "top" /\ \A v \in Waiters \ {w} : at'[v] = at[v]
    BY <1>1, <1>2 DEF LotPlaces, Inside
  <1>4. /\ queue' = [k \in Models |-> queue'[k]] /\ queue'[m] = Append(queue[m], w)
        /\ \A k \in Models \ {m} : queue'[k] = queue[k]
    BY <1>1, <1>2 DEF LotBooks
  <1>5. w \notin Insiders(at) /\ Insiders(at') = Insiders(at) \cup {w}
    BY <1>1, <1>3 DEF Insiders, Inside
  <1>6. /\ InLine(at', m) = InLine(at, m) \cup {w} /\ w \notin InLine(at, m)
        /\ \A k \in Models \ {m} : InLine(at', k) = InLine(at, k)
    BY <1>1, <1>3 DEF InLine, Inside
  <1> HIDE DEF m
  <1>7. IsFiniteSet(Insiders(at')) /\ parked' = Cardinality(Insiders(at')) /\ parked' <= MaxWaiters
    <2>1. /\ IsFiniteSet(Insiders(at) \cup {w}) /\ Cardinality(Insiders(at) \cup {w}) = Cardinality(Insiders(at)) + 1
          /\ Cardinality(Insiders(at)) \in Nat
      BY <1>2, <1>5, FS_AddElement, FS_CardinalityType
    <2>2. parked' = Cardinality(Insiders(at'))
      BY <1>1, <1>2, <1>5, <2>1
    <2>3. parked \in Nat /\ parked' <= MaxWaiters
      BY <1>1, <1>2, <2>1, LotBoundsAssumption
    <2> QED BY <1>5, <2>1, <2>2, <2>3
  <1>8. LineIs(queue', at', m)
    <2>1. queue[m] \in Seq(Waiters) /\ ToSet(queue[m]) = InLine(at, m) /\ IsInjective(queue[m])
      BY <1>2 DEF LineIs
    <2>2. /\ queue'[m] \in Seq(Waiters) /\ Len(queue'[m]) = Len(queue[m]) + 1
          /\ ToSet(queue'[m]) = ToSet(queue[m]) \cup {w} /\ IsInjective(queue'[m])
      BY <1>4, <1>6, <2>1, LongerLine
    <2>3. Len(queue'[m]) <= MaxPerModel
      BY <1>1, <2>1, <2>2, LotBoundsAssumption
    <2> QED BY <1>6, <2>1, <2>2, <2>3 DEF LineIs
  <1>9. ASSUME NEW k \in Models \ {m} PROVE LineIs(queue', at', k)
    BY <1>2, <1>4, <1>6, <1>9 DEF LotBooks, LineIs
  <1>10. LotBooks(queue', parked', at')
    BY <1>3, <1>4, <1>7, <1>8, <1>9 DEF LotBooks
  <1>11. NoneServed
    BY <1>3 DEF NoneServed
  <1> QED BY <1>1, <1>10, <1>11 DEF LotInv

(* Leave() of a request that is inside.                                    *)
LEMMA LeaveKeeps ==
    ASSUME LotInv, NEW w \in Waiters, at[w] \in Inside, NEW how \in {"served", "out"}, Leave(w, how),
           UNCHANGED <<closed, up>>
    PROVE  /\ LotInv'
           /\ \A v \in Waiters \ {w} : at'[v] = "served" => at[v] = "served"
           /\ how = "out" => at'[w] = "out"
           /\ ToSet(queue'[ModelOf[w]]) \subseteq ToSet(queue[ModelOf[w]])
  <1> DEFINE m == ModelOf[w]
             b == Woken({m})
  <1>1. /\ queue' = [queue EXCEPT ![m] = RemoveFirst(queue[m], w)]
        /\ parked' = parked - 1 /\ at' = [b EXCEPT ![w] = how]
        /\ late' = late \ {w} /\ asked' = asked \ {w}
    BY DEF Leave
  <1>2. /\ LotBooks(queue, parked, at) /\ at \in [Waiters -> LotPlaces] /\ m \in Models
        /\ LineIs(queue, at, m)
    BY ModelAssumption DEF LotInv, LotBooks
  <1>3. /\ NobodyMoves(at, b) /\ b \in [Waiters -> LotPlaces]
        /\ \A v \in Waiters : b[v] = "served" => at[v] = "served"
    BY <1>2, WokenStays DEF NobodyMoves
  <1>4. LotBooks(queue, parked, b) /\ LineIs(queue, b, m) /\ b[w] \in Inside
    <2> HIDE DEF b
    <2>1. LotBooks(queue, parked, b)
      BY ONLY <1>2, <1>3, StayingKeeps
    <2>2. LineIs(queue, b, m)
      BY <1>2, <2>1 DEF LotBooks
    <2>3. b[w] \in Inside
      BY <1>3 DEF NobodyMoves
    <2> QED BY <2>1, <2>2, <2>3
  <1> HIDE DEF b
  <1>5. /\ at' \in [Waiters -> LotPlaces] /\ at'[w] = how /\ \A v \in Waiters \ {w} : at'[v] = b[v]
    BY <1>1, <1>3 DEF LotPlaces, Inside
  <1>6. w \in Insiders(b) /\ Insiders(at') = Insiders(b) \ {w}
    BY <1>4, <1>5 DEF Insiders, Inside
  <1>7. /\ InLine(at', m) = InLine(b, m) \ {w} /\ w \in InLine(b, m)
        /\ \A k \in Models \ {m} : InLine(at', k) = InLine(b, k)
    BY <1>4, <1>5 DEF InLine, Inside
  <1> HIDE DEF m
  <1>8. /\ queue' = [k \in Models |-> queue'[k]] /\ queue'[m] = RemoveFirst(queue[m], w)
        /\ \A k \in Models \ {m} : queue'[k] = queue[k]
    BY <1>1, <1>2 DEF LotBooks
  <1>9. IsFiniteSet(Insiders(at')) /\ parked' = Cardinality(Insiders(at')) /\ parked' <= MaxWaiters
    <2>1. IsFiniteSet(Insiders(b)) /\ parked = Cardinality(Insiders(b)) /\ parked <= MaxWaiters
      BY <1>4 DEF LotBooks
    <2>2. /\ IsFiniteSet(Insiders(b) \ {w}) /\ Cardinality(Insiders(b) \ {w}) = Cardinality(Insiders(b)) - 1
          /\ Cardinality(Insiders(b)) \in Nat
      BY <1>6, <2>1, FS_RemoveElement, FS_CardinalityType
    <2>3. parked' = Cardinality(Insiders(at'))
      BY <1>1, <1>6, <2>1, <2>2
    <2>4. parked' <= MaxWaiters
      BY <1>1, <2>1, <2>2, LotBoundsAssumption
    <2> QED BY <1>6, <2>2, <2>3, <2>4
  <1>10. LineIs(queue', at', m) /\ ToSet(queue'[m]) \subseteq ToSet(queue[m])
    <2>1. /\ queue[m] \in Seq(Waiters) /\ ToSet(queue[m]) = InLine(b, m) /\ IsInjective(queue[m])
          /\ Len(queue[m]) <= MaxPerModel
      BY <1>4 DEF LineIs
    <2>2. PICK i \in 1 .. Len(queue[m]) : queue[m][i] = w
      BY <1>7, <2>1 DEF ToSet
    <2>3. queue'[m] \in Seq(Waiters) /\ Closes(queue[m], queue'[m], i)
      BY <1>8, <2>1, <2>2, RemoveFirstCloses
    <2>4. ToSet(queue'[m]) = ToSet(queue[m]) \ {w} /\ IsInjective(queue'[m])
      BY <2>1, <2>2, <2>3, ClosedLine
    <2>5. Len(queue'[m]) = Len(queue[m]) - 1
      BY <2>3 DEF Closes
    <2>6. Len(queue'[m]) <= MaxPerModel
      BY <2>1, <2>5, LotBoundsAssumption
    <2> QED BY <1>7, <2>1, <2>3, <2>4, <2>6 DEF LineIs
  <1>11. ASSUME NEW k \in Models \ {m} PROVE LineIs(queue', at', k)
    BY <1>4, <1>7, <1>8, <1>11 DEF LotBooks, LineIs
  <1>12. LotBooks(queue', parked', at')
    BY <1>5, <1>8, <1>9, <1>10, <1>11 DEF LotBooks
  <1>13. closed' \in BOOLEAN /\ late' \subseteq Waiters /\ asked' \subseteq Waiters /\ up' \subseteq Models
    BY <1>1 DEF LotInv
  <1> QED BY <1>3, <1>5, <1>10, <1>12, <1>13 DEF LotInv, m

(* LongestFirst of one step.                                               *)
TakesTheHead ==
    \A w \in Waiters : at[w] # "served" /\ at'[w] = "served" =>
        \A v \in ToSet(queue'[ModelOf[w]]) \ {w} :
            \E i, j \in 1 .. Len(queue[ModelOf[w]]) :
                i < j /\ queue[ModelOf[w]][i] = w /\ queue[ModelOf[w]][j] = v

LEMMA NoneTakes == NoneServed => TakesTheHead
  BY DEF NoneServed, TakesTheHead

LEMMA HeadTakes ==
    ASSUME LotInv, NEW w \in Waiters, at[w] \in Inside, IsHead(w), LotInv',
           ToSet(queue'[ModelOf[w]]) \subseteq ToSet(queue[ModelOf[w]]),
           \A v \in Waiters \ {w} : at'[v] = "served" => at[v] = "served"
    PROVE  TakesTheHead
  <1> DEFINE q == queue[ModelOf[w]]
  <1>1. q \in Seq(Waiters) /\ w \in ToSet(q)
    BY ModelAssumption DEF LotInv, LotBooks, LineIs, InLine
  <1>2. 1 \in 1 .. Len(q) /\ q[1] = w
    <2>1. PICK i \in 1 .. Len(q) : q[i] = w
      BY <1>1 DEF ToSet
    <2>2. Head(q) = q[1] /\ 1 \in 1 .. Len(q)
      BY <1>1, <2>1
    <2> QED BY <2>2 DEF IsHead
  <1>3. ASSUME NEW v \in ToSet(queue'[ModelOf[w]]) \ {w}
        PROVE  \E i, j \in 1 .. Len(q) : i < j /\ q[i] = w /\ q[j] = v
    <2>1. PICK j \in 1 .. Len(q) : q[j] = v
      <3>1. v \in ToSet(q)
        BY <1>3
      <3> QED BY <1>1, <3>1 DEF ToSet
    <2>2. 1 < j
      BY <1>2, <1>3, <2>1
    <2> QED BY <1>2, <2>1, <2>2
  <1> QED BY <1>3 DEF TakesTheHead

LEMMA LotStep == ASSUME LotInv, [LotNext]_lotVars PROVE LotInv' /\ TakesTheHead
  <1>1. LotBooks(queue, parked, at) /\ at \in [Waiters -> LotPlaces]
    BY DEF LotInv, LotBooks
  <1>2. ASSUME NEW w \in Waiters, Park(w) PROVE LotInv' /\ TakesTheHead
    BY <1>2, ParkKeeps, NoneTakes
  <1>3. ASSUME NEW w \in Waiters, NEW to \in LotPlaces \ {"served"}, (at[w] \in Inside) = (to \in Inside),
               at' = [at EXCEPT ![w] = to], asked' \subseteq Waiters, UNCHANGED <<queue, parked, closed, late, up>>
        PROVE  LotInv' /\ TakesTheHead
    <2>1. NobodyMoves(at, at')
      BY <1>1, <1>3, StepsStay
    <2>2. LotBooks(queue, parked, at')
      BY <1>1, <2>1, StayingKeeps
    <2>3. NoneServed
      BY <1>1, <1>3 DEF NoneServed
    <2> QED BY <1>3, <2>2, <2>3, NoneTakes DEF LotInv
  <1>4. ASSUME NEW w \in Waiters, TurnAway(w) PROVE LotInv' /\ TakesTheHead
    <2>1. /\ at[w] = "idle" /\ at' = [at EXCEPT ![w] = "out"] /\ asked' = asked
          /\ UNCHANGED <<queue, parked, closed, late, up>>
      BY <1>4 DEF TurnAway
    <2>2. "out" \in LotPlaces \ {"served"} /\ (at[w] \in Inside) = ("out" \in Inside)
      BY <2>1 DEF LotPlaces, Inside
    <2>3. asked' \subseteq Waiters
      BY <2>1 DEF LotInv
    <2> QED BY <1>3, <2>1, <2>2, <2>3
  <1>5. ASSUME NEW w \in Waiters, at[w] \in Inside, Leave(w, "out"), UNCHANGED <<closed, up>>
        PROVE  LotInv' /\ TakesTheHead
    <2>1. LotInv' /\ NoneServed
      BY <1>5, LeaveKeeps DEF NoneServed
    <2> QED BY <2>1, NoneTakes
  <1>6. ASSUME NEW w \in Waiters, LineTop(w) PROVE LotInv' /\ TakesTheHead
    <2>1. at[w] = "top" /\ at[w] \in Inside /\ UNCHANGED <<closed, up>>
      BY <1>6 DEF LineTop, Inside
    <2>2. CASE closed
      BY <1>5, <1>6, <2>1, <2>2 DEF LineTop
    <2>3. CASE ~closed /\ IsHead(w) /\ ModelOf[w] \in up
      <3>1. Leave(w, "served")
        BY <1>6, <2>3 DEF LineTop
      <3>2. /\ LotInv' /\ \A v \in Waiters \ {w} : at'[v] = "served" => at[v] = "served"
            /\ ToSet(queue'[ModelOf[w]]) \subseteq ToSet(queue[ModelOf[w]])
        BY <2>1, <3>1, LeaveKeeps
      <3> QED BY <2>1, <2>3, <3>2, HeadTakes
    <2>4. CASE ~closed /\ ~(IsHead(w) /\ ModelOf[w] \in up)
      <3>1. /\ at' = [at EXCEPT ![w] = "ask"] /\ asked' \subseteq Waiters
            /\ UNCHANGED <<queue, parked, closed, late, up>>
        BY <1>6, <2>4 DEF LineTop, LotInv
      <3> QED BY <1>3, <2>1, <3>1 DEF LotPlaces, Inside
    <2> QED BY <2>2, <2>3, <2>4
  <1>7. ASSUME NEW w \in Waiters, Answered(w) PROVE LotInv' /\ TakesTheHead
    <2>1. at[w] = "ask" /\ at[w] \in Inside /\ UNCHANGED <<closed, up>>
      BY <1>7 DEF Answered, Inside
    <2>2. CASE w \in late
      BY <1>5, <1>7, <2>1, <2>2 DEF Answered
    <2>3. CASE w \notin late
      <3>1. at' = [at EXCEPT ![w] = "wait"] /\ asked' \subseteq Waiters /\ UNCHANGED <<queue, parked, closed, late, up>>
        BY <1>7, <2>3 DEF Answered, LotInv
      <3> QED BY <1>3, <2>1, <3>1 DEF LotPlaces, Inside
    <2> QED BY <2>2, <2>3
  <1>8. ASSUME NEW w \in Waiters, Disconnected(w) PROVE LotInv' /\ TakesTheHead
    BY <1>5, <1>8 DEF Disconnected, Inside
  <1>9. ASSUME NEW w \in Waiters, Poll(w) PROVE LotInv' /\ TakesTheHead
    <2>1. /\ at[w] = "wait" /\ at' = [at EXCEPT ![w] = "top"] /\ asked' = asked
          /\ UNCHANGED <<queue, parked, closed, late, up>>
      BY <1>9 DEF Poll
    <2>2. "top" \in LotPlaces \ {"served"} /\ (at[w] \in Inside) = ("top" \in Inside)
      BY <2>1 DEF LotPlaces, Inside
    <2>3. asked' \subseteq Waiters
      BY <2>1 DEF LotInv
    <2> QED BY <1>3, <2>1, <2>2, <2>3
  <1>10. ASSUME NEW w \in Waiters, DeadlinePasses(w) PROVE LotInv' /\ TakesTheHead
    <2>1. UNCHANGED <<queue, parked, closed, at, asked, up>> /\ late' \subseteq Waiters
      BY <1>10 DEF DeadlinePasses, LotInv
    <2> QED BY <2>1, NoneTakes DEF LotInv, NoneServed
  <1>11. CASE CloseLot
    <2>1. closed' = TRUE /\ at' = Woken(Models) /\ UNCHANGED <<queue, parked, late, asked, up>>
      BY <1>11 DEF CloseLot
    <2>2. NobodyMoves(at, at') /\ NoneServed
      BY <1>1, <2>1, WokenStays DEF NoneServed
    <2>3. LotBooks(queue, parked, at')
      BY <1>1, <2>2, StayingKeeps
    <2> QED BY <2>1, <2>2, <2>3, NoneTakes DEF LotInv
  <1>12. ASSUME NEW m \in Models, Flap(m) PROVE LotInv' /\ TakesTheHead
    <2>1. UNCHANGED <<queue, parked, closed, at, late, asked>> /\ up' \subseteq Models
      BY <1>12 DEF Flap, LotInv
    <2> QED BY <2>1, NoneTakes DEF LotInv, NoneServed
  <1>13. CASE UNCHANGED lotVars
    BY <1>13, NoneTakes DEF lotVars, LotInv, NoneServed
  <1> QED BY <1>2, <1>4, <1>6, <1>7, <1>8, <1>9, <1>10, <1>11, <1>12, <1>13 DEF LotNext, Run

LEMMA InitLotInv == LotInit => LotInv
  <1> SUFFICES ASSUME LotInit PROVE LotInv
    OBVIOUS
  <1>1. /\ queue = [m \in Models |-> << >>] /\ parked = 0 /\ closed = FALSE
        /\ at = [w \in Waiters |-> "idle"] /\ late = {} /\ asked = {} /\ up = {}
    BY DEF LotInit
  <1>2. Insiders(at) = {} /\ (\A m \in Models : InLine(at, m) = {}) /\ at \in [Waiters -> LotPlaces]
    BY <1>1 DEF Insiders, InLine, Inside, LotPlaces
  <1>3. IsFiniteSet({}) /\ Cardinality({}) = 0
    BY FS_EmptySet
  <1>4. ASSUME NEW m \in Models PROVE LineIs(queue, at, m)
    <2>1. queue[m] = << >> /\ << >> \in Seq(Waiters) /\ Len(<< >>) = 0
      BY <1>1
    <2>2. ToSet(queue[m]) = {} /\ IsInjective(queue[m])
      BY <2>1 DEF ToSet, IsInjective
    <2>3. Len(queue[m]) <= MaxPerModel
      BY <2>1, LotBoundsAssumption
    <2> QED BY <1>2, <2>1, <2>2, <2>3 DEF LineIs
  <1>5. LotBooks(queue, parked, at)
    <2>1. parked = Cardinality(Insiders(at)) /\ IsFiniteSet(Insiders(at))
      BY <1>1, <1>2, <1>3
    <2>2. parked <= MaxWaiters
      BY <1>1, LotBoundsAssumption
    <2>3. queue = [m \in Models |-> queue[m]]
      BY <1>1
    <2> QED BY <1>2, <1>4, <2>1, <2>2, <2>3 DEF LotBooks
  <1> QED BY <1>1, <1>5 DEF LotInv

LEMMA LotIsFine == LotInv => LotTypeOK /\ CountExact /\ WithinBounds
  <1> SUFFICES ASSUME LotInv PROVE LotTypeOK /\ CountExact /\ WithinBounds
    OBVIOUS
  <1>1. LotBooks(queue, parked, at)
    BY DEF LotInv
  <1>2. parked \in 0 .. MaxWaiters
    BY <1>1, FS_CardinalityType, LotBoundsAssumption DEF LotBooks
  <1>3. queue \in [Models -> Seq(Waiters)]
    BY <1>1 DEF LotBooks, LineIs
  <1>4. LotTypeOK
    BY <1>1, <1>2, <1>3 DEF LotInv, LotBooks, LotTypeOK, LotPlaces
  <1>5. CountExact
    BY <1>1 DEF CountExact, LotBooks, LineIs, Insiders, InLine
  <1>6. WithinBounds
    BY <1>1 DEF WithinBounds, LotBooks, LineIs
  <1> QED BY <1>4, <1>5, <1>6

(* The parking lot keeps its promise for any number of requests, models    *)
(* and places: the count is exact and within both bounds, and a target     *)
(* goes to whoever has waited longest (gateway/parking.py, park()).        *)
THEOREM LotKeepsItsPromise == LotSpec => LotPromise
  <1>1. LotInv /\ [LotNext]_lotVars => [TakesTheHead]_lotVars
    BY LotStep
  <1>2. [TakesTheHead]_lotVars => [\A w \in Waiters : at[w] # "served" /\ at'[w] = "served" =>
          \A v \in ToSet(queue'[ModelOf[w]]) \ {w} :
              \E i, j \in 1 .. Len(queue[ModelOf[w]]) :
                  i < j /\ queue[ModelOf[w]][i] = w /\ queue[ModelOf[w]][j] = v]_lotVars
    BY DEF TakesTheHead
  <1>3. LotInv /\ [LotNext]_lotVars => LotInv'
    BY LotStep
  <1> QED BY <1>1, <1>2, <1>3, InitLotInv, LotIsFine, PTL DEF LotSpec, LotPromise, LongestFirst

(***************************************************************************)
(* The providers.                                                          *)
(***************************************************************************)

(* The requests a provider's entry is used by, and those that are out.     *)
Using(q, p) == {r \in Sends : q[r].p = p /\ q[r].attached}
OutOn(q, p) == {r \in Sends : q[r].p = p /\ q[r].attached /\ q[r].at \in {"sent", "body"}}

EntryRecords ==
    [ref: Refs \cup {"none"}, enabled: BOOLEAN, autoOff: BOOLEAN, missing: BOOLEAN,
     healthy: BOOLEAN, rejected: BOOLEAN, backoff: {"none", "running", "over"},
     limited: BOOLEAN, listed: BOOLEAN, spend: Nat, outstanding: Nat]
FileRecords == [ref: Refs \cup {"none"}, enabled: BOOLEAN, listed: BOOLEAN, spend: Nat]
SendRecords == [at: SendStages, p: Provs \cup {"none"}, attached: BOOLEAN, tries: 0 .. Retries]

NamesOf(p) == OwnNames \cup {"none", MintedRef[p]}
Most == Budget - 1 + Cardinality(Sends)

(* What is true of p's entry e, beside the requests q.                     *)
EntryIs(p, e, q, w, t) ==
    /\ e \in EntryRecords /\ e.ref \in NamesOf(p)
    /\ e.outstanding = Cardinality(OutOn(q, p))
    /\ e.spend + Cardinality(Using(q, p)) <= Most
    /\ p \notin t => (e.enabled \/ e.autoOff => p \in w)

(* And of its record f on file.                                            *)
FileIs(p, f, w, t) ==
    /\ f \in FileRecords /\ f.ref \in NamesOf(p)
    /\ f.spend <= Most
    /\ p \notin t => (f.enabled => p \in w)

(* What a look at the key, the model list or the clock leaves alone.       *)
Like(e, f) ==
    /\ f \in EntryRecords /\ f.ref = e.ref /\ f.spend = e.spend /\ f.outstanding = e.outstanding
    /\ f.enabled \/ f.autoOff => e.enabled \/ e.autoOff

LEMMA RefsNamed ==
    /\ "none" \notin Refs /\ "absent" \notin Refs
    /\ \A p \in Provs : MintedRef[p] \in Refs
    /\ OwnNames \subseteq Refs /\ \A p \in Provs : MintedRef[p] \notin OwnNames
  BY RefsAssumption, ProvsAssumption DEF OwnNames

LEMMA MostIs == Cardinality(Sends) \in Nat /\ Budget \in Nat \ {0} /\ Most \in Nat /\ Most >= Cardinality(Sends)
  BY BudgetAssumption, FS_CardinalityType DEF Most

LEMMA NotAbsent ==
    /\ \A e \in EntryRecords : e # Absent
    /\ \A f \in FileRecords : f # Absent
  BY RefsAssumption DEF EntryRecords, FileRecords, Absent

LEMMA HalfOpenLike == ASSUME NEW e \in EntryRecords PROVE Like(e, HalfOpen(e))
  BY DEF Like, HalfOpen, EntryRecords

LEMMA CheckKeyLike == ASSUME NEW p, NEW keys, NEW e \in EntryRecords PROVE Like(e, CheckKey(p, e, keys))
  BY DEF Like, CheckKey, EntryRecords

LEMMA FetchedLike ==
    ASSUME NEW e \in EntryRecords, NEW answer \in {"list", "401", "bad"} PROVE Like(e, Fetched(e, answer))
  BY DEF Like, Fetched, EntryRecords

LEMMA NotedLike ==
    ASSUME NEW e \in EntryRecords, NEW outcome \in {"down", "429", "401", "4xx", "ok"}
    PROVE  Like(e, Noted(e, outcome))
  BY DEF Like, Noted, EntryRecords

LEMMA LikeIs ==
    ASSUME NEW p, NEW e, NEW f, NEW q, NEW w, NEW t, EntryIs(p, e, q, w, t), Like(e, f)
    PROVE  EntryIs(p, f, q, w, t)
  BY DEF EntryIs, Like

LEMMA RecordIs ==
    ASSUME NEW p, NEW e, NEW q, NEW w, NEW t, EntryIs(p, e, q, w, t), IsFiniteSet(Using(q, p))
    PROVE  FileIs(p, Record(e), w, t) /\ Record(e).spend = e.spend
  <1>1. Cardinality(Using(q, p)) \in Nat
    BY FS_CardinalityType
  <1>2. Record(e) \in FileRecords /\ Record(e).ref = e.ref /\ Record(e).spend = e.spend /\ Record(e).enabled = e.enabled
    BY DEF EntryIs, Record, EntryRecords, FileRecords
  <1>3. e.spend \in Nat
    BY DEF EntryIs, EntryRecords
  <1>4. e.spend <= Most
    BY <1>1, <1>3, MostIs DEF EntryIs
  <1> QED BY <1>2, <1>4 DEF EntryIs, FileIs

(* Requests.                                                               *)
SendsOK(q, e) ==
    /\ q \in [Sends -> SendRecords]
    /\ \A r \in Sends : /\ q[r].at # "idle" => q[r].p \in Provs
                        /\ q[r].attached => q[r].at # "idle" /\ e[q[r].p] # Absent

(* The entries e and the file f, with d for what is owed to it.            *)
Books(e, f, d, q, w, t) ==
    /\ e = [p \in Provs |-> e[p]] /\ f = [p \in Provs |-> f[p]] /\ d \in BOOLEAN
    /\ \A p \in Provs : /\ e[p] # Absent => EntryIs(p, e[p], q, w, t)
                        /\ f[p] # Absent => FileIs(p, f[p], w, t)
                        /\ f[p] = Absent <=> e[p] = Absent
                        /\ ~d /\ e[p] # Absent => f[p].spend = e[p].spend

(* Refreshes.                                                              *)
FetchOK(g, e) ==
    /\ g \in [Provs -> {"no", "attached", "detached"}]
    /\ \A p \in Provs : g[p] = "attached" => e[p] # Absent

ProvidersInv ==
    /\ Books(entry, saved, dirty, send, wanted, torn)
    /\ SendsOK(send, entry) /\ FetchOK(fetch, entry)
    /\ keyed \subseteq Refs /\ wanted \subseteq Provs /\ torn \subseteq Provs /\ works \subseteq Provs

LEMMA SetsFinite ==
    ASSUME NEW q, NEW p
    PROVE  /\ IsFiniteSet(Using(q, p)) /\ Cardinality(Using(q, p)) \in 0 .. Cardinality(Sends)
           /\ IsFiniteSet(OutOn(q, p)) /\ Cardinality(OutOn(q, p)) \in 0 .. Cardinality(Sends)
  <1>1. IsFiniteSet(Sends) /\ Using(q, p) \subseteq Sends /\ OutOn(q, p) \subseteq Sends
    BY BudgetAssumption DEF Using, OutOn
  <1>2. /\ IsFiniteSet(Using(q, p)) /\ Cardinality(Using(q, p)) <= Cardinality(Sends)
        /\ IsFiniteSet(OutOn(q, p)) /\ Cardinality(OutOn(q, p)) <= Cardinality(Sends)
    BY <1>1, FS_Subset
  <1> QED BY <1>1, <1>2, FS_CardinalityType

(* _persist() of entries that are right makes the books right.             *)
LEMMA PersistKeeps ==
    ASSUME NEW es, es = [p \in Provs |-> es[p]], PersistAll(es), NEW q, NEW w, NEW t,
           \A p \in Provs : es[p] # Absent => EntryIs(p, es[p], q, w, t)
    PROVE  /\ Books(entry', saved', dirty', q, w, t)
           /\ \A p \in Provs : entry'[p] = Absent <=> es[p] = Absent
           /\ \A p \in Provs : es[p] # Absent => entry'[p].ref = es[p].ref
  <1>1. /\ entry' = [p \in Provs |-> IF es[p] = Absent THEN Absent ELSE HalfOpen(es[p])]
        /\ saved' = [p \in Provs |-> IF es[p] = Absent THEN Absent ELSE Record(es[p])]
        /\ dirty' = FALSE
    BY DEF PersistAll
  <1>2. entry' = [p \in Provs |-> entry'[p]] /\ saved' = [p \in Provs |-> saved'[p]]
    BY <1>1
  <1>3. ASSUME NEW p \in Provs, es[p] = Absent PROVE entry'[p] = Absent /\ saved'[p] = Absent
    BY <1>1, <1>3
  <1>4. ASSUME NEW p \in Provs, es[p] # Absent
        PROVE  /\ EntryIs(p, entry'[p], q, w, t) /\ FileIs(p, saved'[p], w, t)
               /\ entry'[p].spend = saved'[p].spend /\ entry'[p] # Absent /\ saved'[p] # Absent
               /\ entry'[p].ref = es[p].ref
    <2>1. entry'[p] = HalfOpen(es[p]) /\ saved'[p] = Record(es[p])
      BY <1>1, <1>4
    <2>2. EntryIs(p, es[p], q, w, t) /\ es[p] \in EntryRecords
      BY <1>4 DEF EntryIs
    <2>3. Like(es[p], entry'[p])
      BY <2>1, <2>2, HalfOpenLike
    <2>4. EntryIs(p, entry'[p], q, w, t)
      BY <2>2, <2>3, LikeIs
    <2>5. FileIs(p, saved'[p], w, t) /\ saved'[p].spend = es[p].spend
      BY <2>1, <2>2, RecordIs, SetsFinite
    <2>6. entry'[p].spend = es[p].spend /\ entry'[p].ref = es[p].ref
      BY <2>3 DEF Like
    <2>7. entry'[p] # Absent /\ saved'[p] # Absent
      BY <2>4, <2>5, NotAbsent DEF EntryIs, FileIs
    <2> QED BY <2>4, <2>5, <2>6, <2>7
  <1> QED BY <1>1, <1>2, <1>3, <1>4 DEF Books

(* What is true of an entry stays true while its requests are the same and *)
(* the operator has not changed his mind about it.                         *)
Same(q, b, w, u, t, v, s) ==
    /\ Using(b, s) = Using(q, s) /\ OutOn(b, s) = OutOn(q, s)
    /\ s \notin v => s \notin t /\ (s \in w => s \in u)

OthersSame(p, q, b, w, u, t, v) == \A s \in Provs \ {p} : Same(q, b, w, u, t, v, s)

LEMMA EntryMoves ==
    ASSUME NEW q, NEW b, NEW w, NEW u, NEW t, NEW v, NEW s, NEW e,
           Same(q, b, w, u, t, v, s), EntryIs(s, e, q, w, t)
    PROVE  EntryIs(s, e, b, u, v)
  BY DEF EntryIs, Same

(* d is remembered, and a change of the cost is.                           *)
Owed(c, d, e, h) == c \in BOOLEAN /\ (~c => ~d /\ e.spend = h.spend)

(* A step that leaves the file alone and gives p another entry e.          *)
LEMMA EntryKeeps ==
    ASSUME NEW a, NEW f, NEW d, NEW q, NEW w, NEW t, Books(a, f, d, q, w, t),
           NEW b, NEW v, NEW c, NEW p \in Provs, a[p] # Absent, NEW e,
           EntryIs(p, e, b, w, v), Owed(c, d, e, a[p]),
           OthersSame(p, q, b, w, w, t, v), t \subseteq v
    PROVE  Books([a EXCEPT ![p] = e], f, c, b, w, v)
  <1> DEFINE h == [a EXCEPT ![p] = e]
  <1>1. h = [s \in Provs |-> h[s]] /\ h[p] = e /\ \A s \in Provs \ {p} : h[s] = a[s]
    BY DEF Books
  <1>2. e # Absent
    BY NotAbsent DEF EntryIs
  <1> HIDE DEF h
  <1>3. ASSUME NEW s \in Provs
        PROVE  /\ h[s] # Absent => EntryIs(s, h[s], b, w, v)
               /\ f[s] # Absent => FileIs(s, f[s], w, v)
               /\ f[s] = Absent <=> h[s] = Absent
               /\ ~c /\ h[s] # Absent => f[s].spend = h[s].spend
    <2>0. f[s] # Absent => FileIs(s, f[s], w, v)
      BY DEF Books, FileIs
    <2>1. CASE s = p
      BY <1>1, <1>2, <2>0, <2>1 DEF Books, Owed
    <2>2. CASE s # p
      <3>1. h[s] = a[s] /\ Same(q, b, w, w, t, v, s)
        BY <1>1, <2>2 DEF OthersSame
      <3>2. h[s] # Absent => EntryIs(s, h[s], b, w, v)
        BY <3>1, EntryMoves DEF Books
      <3> QED BY <2>0, <3>1, <3>2 DEF Books, Owed
    <2> QED BY <2>1, <2>2
  <1>4. Books(h, f, c, b, w, v)
    BY <1>1, <1>3 DEF Books, Owed
  <1> QED BY <1>4 DEF h

(* A step that changes neither.                                            *)
LEMMA RestKeeps ==
    ASSUME NEW a, NEW f, NEW d, NEW q, NEW w, NEW t, Books(a, f, d, q, w, t), NEW b,
           NEW c \in BOOLEAN, ~c => ~d,
           \A s \in Provs : Using(b, s) = Using(q, s) /\ OutOn(b, s) = OutOn(q, s)
    PROVE  Books(a, f, c, b, w, t)
  <1>1. ASSUME NEW s \in Provs, a[s] # Absent PROVE EntryIs(s, a[s], b, w, t)
    BY <1>1 DEF Books, EntryIs
  <1> QED BY <1>1 DEF Books

(* One request moves on.                                                   *)
SetsMove(q, b, r, m) ==
    \A s \in Provs :
        /\ Using(b, s) = (Using(q, s) \ {r}) \cup (IF m.p = s /\ m.attached THEN {r} ELSE {})
        /\ OutOn(b, s) = (OutOn(q, s) \ {r})
                \cup (IF m.p = s /\ m.attached /\ m.at \in {"sent", "body"} THEN {r} ELSE {})

LEMMA SendMoves ==
    ASSUME NEW q \in [Sends -> SendRecords], NEW r \in Sends, NEW m \in SendRecords,
           NEW b, b = [q EXCEPT ![r] = m]
    PROVE  /\ b \in [Sends -> SendRecords] /\ b[r] = m /\ \A k \in Sends \ {r} : b[k] = q[k]
           /\ SetsMove(q, b, r, m)
  <1>1. b \in [Sends -> SendRecords] /\ b[r] = m /\ \A k \in Sends \ {r} : b[k] = q[k]
    OBVIOUS
  <1>2. ASSUME NEW s \in Provs
        PROVE  Using(b, s) = (Using(q, s) \ {r}) \cup (IF m.p = s /\ m.attached THEN {r} ELSE {})
    BY ONLY <1>1, r \in Sends DEF Using
  <1>3. ASSUME NEW s \in Provs
        PROVE  OutOn(b, s) = (OutOn(q, s) \ {r})
                    \cup (IF m.p = s /\ m.attached /\ m.at \in {"sent", "body"} THEN {r} ELSE {})
    BY ONLY <1>1, r \in Sends DEF OutOn
  <1>4. QED BY <1>1, <1>2, <1>3 DEF SetsMove

LEMMA Adds == ASSUME NEW S, IsFiniteSet(S), NEW r, r \notin S
              PROVE  Cardinality(S \cup {r}) = Cardinality(S) + 1 /\ Cardinality(S) \in Nat
  BY FS_AddElement, FS_CardinalityType
LEMMA Takes == ASSUME NEW S, IsFiniteSet(S), NEW r \in S
               PROVE  Cardinality(S \ {r}) = Cardinality(S) - 1 /\ Cardinality(S) \in Nat
  BY FS_RemoveElement, FS_CardinalityType

LEMMA HereIs ==
    ASSUME ProvidersInv, NEW p \in Here
    PROVE  /\ p \in Provs /\ entry[p] # Absent /\ EntryIs(p, entry[p], send, wanted, torn)
           /\ entry[p] \in EntryRecords
  <1>1. p \in Provs /\ entry[p] # Absent
    BY DEF Here
  <1>2. EntryIs(p, entry[p], send, wanted, torn)
    BY <1>1 DEF ProvidersInv, Books
  <1> QED BY <1>1, <1>2 DEF EntryIs

OthersStay(p, a, h) ==
    \A s \in Provs \ {p} : (h[s] = Absent <=> a[s] = Absent) /\ (a[s] # Absent => h[s].ref = a[s].ref)

(* Nobody's entry goes.                                                    *)
AllStay == \A s \in Provs : entry[s] # Absent => entry'[s] # Absent

(* p is given the entry e, or none, and everything is written.             *)
LEMMA PersistOne ==
    ASSUME ProvidersInv, NEW p \in Provs, NEW e, PersistAll([entry EXCEPT ![p] = e]), NEW b, NEW u, NEW v,
           e # Absent => EntryIs(p, e, b, u, v),
           OthersSame(p, send, b, wanted, u, torn, v)
    PROVE  /\ Books(entry', saved', dirty', b, u, v)
           /\ entry'[p] = Absent <=> e = Absent
           /\ OthersStay(p, entry, entry')
  <1> DEFINE es == [entry EXCEPT ![p] = e]
  <1>1. es = [s \in Provs |-> es[s]] /\ es[p] = e /\ \A s \in Provs \ {p} : es[s] = entry[s]
    BY DEF ProvidersInv, Books
  <1>2. PersistAll(es)
    OBVIOUS
  <1> HIDE DEF es
  <1>3. ASSUME NEW s \in Provs, es[s] # Absent PROVE EntryIs(s, es[s], b, u, v)
    <2>1. CASE s = p
      BY <1>1, <1>3, <2>1
    <2>2. CASE s # p
      <3>1. es[s] = entry[s] /\ Same(send, b, wanted, u, torn, v, s) /\ EntryIs(s, entry[s], send, wanted, torn)
        BY <1>1, <1>3, <2>2 DEF ProvidersInv, Books, OthersSame
      <3> QED BY <3>1, EntryMoves
    <2> QED BY <2>1, <2>2
  <1>4. /\ Books(entry', saved', dirty', b, u, v)
        /\ \A s \in Provs : entry'[s] = Absent <=> es[s] = Absent
        /\ \A s \in Provs : es[s] # Absent => entry'[s].ref = es[s].ref
    BY <1>1, <1>2, <1>3, PersistKeeps
  <1> QED BY <1>1, <1>4 DEF OthersStay

(* Nobody is without a provider who had one.                               *)
LEMMA SendsStay ==
    ASSUME ProvidersInv, NEW h, \A s \in Provs : entry[s] # Absent => h[s] # Absent
    PROVE  SendsOK(send, h) /\ \A g : FetchOK(g, entry) => FetchOK(g, h)
  BY DEF ProvidersInv, SendsOK, FetchOK

LEMMA RegisterKeeps ==
    ASSUME ProvidersInv, NEW p \in Provs, NEW ref \in OwnNames \cup {"none"}, NEW k \in BOOLEAN, NEW on \in BOOLEAN,
           Register(p, ref, k, on)
    PROVE  ProvidersInv' /\ AllStay
  <1> DEFINE r == IF ref = "none" /\ k THEN MintedRef[p] ELSE ref
             e == CheckKey(p, Fresh(r, on), keyed')
  <1>1. /\ entry[p] = Absent /\ keyed' = IF k THEN keyed \cup {r} ELSE keyed
        /\ PersistAll([entry EXCEPT ![p] = e])
        /\ wanted' = IF on THEN wanted \cup {p} ELSE wanted \ {p}
        /\ torn' = torn \ {p}
        /\ UNCHANGED <<send, fetch, works>>
    BY DEF Register
  <1>2. r \in NamesOf(p) /\ (k => r \in Refs) /\ r \in Refs \cup {"none"}
    BY RefsNamed DEF NamesOf
  <1> HIDE DEF r
  <1>3. Using(send, p) = {} /\ OutOn(send, p) = {}
    BY <1>1 DEF ProvidersInv, SendsOK, Using, OutOn
  <1>4. /\ Fresh(r, on) \in EntryRecords /\ Fresh(r, on).ref = r /\ Fresh(r, on).enabled = on
        /\ Fresh(r, on).autoOff = FALSE /\ Fresh(r, on).spend = 0 /\ Fresh(r, on).outstanding = 0
    BY <1>2 DEF Fresh, EntryRecords
  <1>5. EntryIs(p, Fresh(r, on), send, wanted', torn')
    BY <1>1, <1>2, <1>3, <1>4, MostIs, FS_EmptySet DEF EntryIs
  <1>6. EntryIs(p, e, send, wanted', torn') /\ e # Absent
    <2>1. Like(Fresh(r, on), e)
      BY <1>4, CheckKeyLike
    <2>2. EntryIs(p, e, send, wanted', torn')
      BY <2>1, <1>5, LikeIs
    <2> QED BY <2>2, NotAbsent DEF EntryIs
  <1> HIDE DEF e
  <1>7. OthersSame(p, send, send, wanted, wanted', torn, torn')
    BY <1>1 DEF Same, OthersSame
  <1>8. /\ Books(entry', saved', dirty', send, wanted', torn') /\ entry'[p] # Absent
        /\ OthersStay(p, entry, entry')
    BY <1>1, <1>6, <1>7, PersistOne
  <1>9. SendsOK(send, entry') /\ FetchOK(fetch, entry')
    <2>1. \A s \in Provs : entry[s] # Absent => entry'[s] # Absent
      BY <1>8 DEF OthersStay
    <2> QED BY <2>1, SendsStay DEF ProvidersInv, AllStay
  <1>10. keyed' \subseteq Refs /\ wanted' \subseteq Provs /\ torn' \subseteq Provs
    BY <1>1, <1>2 DEF ProvidersInv
  <1> QED BY <1>1, <1>8, <1>9, <1>10 DEF ProvidersInv, AllStay, OthersStay

(* update() in any of its forms, a refresh and its answer: p's entry is    *)
(* one that is right, and everything is written.                           *)
LEMMA WriteKeeps ==
    ASSUME ProvidersInv, NEW p \in Here, NEW e, PersistAll([entry EXCEPT ![p] = e]),
           EntryIs(p, e, send, wanted', torn'), send' = send,
           wanted' \subseteq Provs, torn' \subseteq Provs,
           \A s \in Provs \ {p} : (s \in wanted <=> s \in wanted') /\ (s \in torn <=> s \in torn'),
           keyed' \subseteq Refs, works' = works, FetchOK(fetch', entry)
    PROVE  ProvidersInv' /\ AllStay
  <1>1. p \in Provs /\ e # Absent
    BY HereIs, NotAbsent DEF EntryIs
  <1>2. OthersSame(p, send, send, wanted, wanted', torn, torn')
    BY DEF Same, OthersSame
  <1>3. /\ Books(entry', saved', dirty', send, wanted', torn') /\ entry'[p] # Absent
        /\ OthersStay(p, entry, entry')
    BY <1>1, <1>2, PersistOne
  <1>4. SendsOK(send, entry') /\ FetchOK(fetch', entry')
    <2>1. \A s \in Provs : entry[s] # Absent => entry'[s] # Absent
      BY <1>3 DEF OthersStay
    <2> QED BY <2>1, SendsStay
  <1> QED BY <1>3, <1>4 DEF ProvidersInv, AllStay, OthersStay

LEMMA EnableKeeps ==
    ASSUME ProvidersInv, NEW p \in Provs, NEW on \in BOOLEAN, Enable(p, on) PROVE ProvidersInv' /\ AllStay
  <1> DEFINE a == [entry[p] EXCEPT !.enabled = on, !.autoOff = FALSE]
             e == IF on THEN CheckKey(p, a, keyed) ELSE a
  <1>1. /\ p \in Here /\ PersistAll([entry EXCEPT ![p] = e])
        /\ wanted' = IF on THEN wanted \cup {p} ELSE wanted \ {p}
        /\ torn' = torn \ {p}
        /\ UNCHANGED <<keyed, send, fetch, works>>
    BY DEF Enable
  <1>2. EntryIs(p, entry[p], send, wanted, torn) /\ entry[p] \in EntryRecords
    BY <1>1, HereIs
  <1>3. /\ a \in EntryRecords /\ a.ref = entry[p].ref /\ a.spend = entry[p].spend
        /\ a.outstanding = entry[p].outstanding /\ a.enabled = on /\ a.autoOff = FALSE
    BY <1>2 DEF EntryRecords
  <1> HIDE DEF a
  <1>4. EntryIs(p, a, send, wanted', torn')
    BY <1>1, <1>2, <1>3 DEF EntryIs
  <1>5. EntryIs(p, e, send, wanted', torn')
    <2>1. Like(a, CheckKey(p, a, keyed))
      BY <1>3, CheckKeyLike
    <2>2. EntryIs(p, CheckKey(p, a, keyed), send, wanted', torn')
      BY <1>4, <2>1, LikeIs
    <2> QED BY <1>4, <2>2
  <1> HIDE DEF e
  <1>6. wanted' \subseteq Provs /\ torn' \subseteq Provs /\ keyed' \subseteq Refs
        /\ FetchOK(fetch', entry)
    BY <1>1 DEF ProvidersInv
  <1>7. \A s \in Provs \ {p} : (s \in wanted <=> s \in wanted') /\ (s \in torn <=> s \in torn')
    BY <1>1
  <1> QED BY <1>1, <1>5, <1>6, <1>7, WriteKeeps

LEMMA SetRefKeeps ==
    ASSUME ProvidersInv, NEW p \in Provs, NEW ref \in NamesOf(p), NEW k \in BOOLEAN, k => ref # "none",
           SetRef(p, ref, k)
    PROVE  ProvidersInv' /\ AllStay
  <1> DEFINE a == [entry[p] EXCEPT !.ref = ref]
             e == IF a.enabled \/ a.autoOff THEN CheckKey(p, a, keyed') ELSE a
  <1>1. /\ p \in Here /\ PersistAll([entry EXCEPT ![p] = e])
        /\ keyed' = IF k THEN keyed \cup {ref} ELSE keyed
        /\ UNCHANGED <<send, fetch, wanted, torn, works>>
    BY DEF SetRef
  <1>2. EntryIs(p, entry[p], send, wanted, torn) /\ entry[p] \in EntryRecords
    BY <1>1, HereIs
  <1>n. ref \in Refs \cup {"none"}
    BY RefsNamed DEF NamesOf
  <1>3. /\ a \in EntryRecords /\ a.ref = ref /\ a.spend = entry[p].spend
        /\ a.outstanding = entry[p].outstanding /\ a.enabled = entry[p].enabled /\ a.autoOff = entry[p].autoOff
    BY <1>2, <1>n DEF EntryRecords
  <1> HIDE DEF a
  <1>4. EntryIs(p, a, send, wanted, torn)
    BY <1>1, <1>2, <1>3 DEF EntryIs
  <1>5. EntryIs(p, e, send, wanted, torn)
    <2>1. Like(a, CheckKey(p, a, keyed'))
      BY <1>3, CheckKeyLike
    <2>2. EntryIs(p, CheckKey(p, a, keyed'), send, wanted, torn)
      BY <1>4, <2>1, LikeIs
    <2> QED BY <1>4, <2>2
  <1> HIDE DEF e
  <1>6. wanted' \subseteq Provs /\ torn' \subseteq Provs /\ keyed' \subseteq Refs
        /\ FetchOK(fetch', entry)
    BY <1>1, <1>n DEF ProvidersInv
  <1>7. \A s \in Provs \ {p} : (s \in wanted <=> s \in wanted') /\ (s \in torn <=> s \in torn')
    BY <1>1
  <1>8. wanted' = wanted /\ torn' = torn
    BY <1>1
  <1> QED BY <1>1, <1>5, <1>6, <1>7, <1>8, WriteKeeps

(* A step that changes p's entry only.                                     *)
LEMMA LookKeeps ==
    ASSUME ProvidersInv, NEW p \in Here, NEW e, entry' = [entry EXCEPT ![p] = e],
           EntryIs(p, e, send, wanted, torn'), e.spend = entry[p].spend,
           torn' = torn \/ torn' = torn \cup {p},
           FetchOK(fetch', entry),
           UNCHANGED <<keyed, saved, dirty, send, wanted, works>>
    PROVE  ProvidersInv' /\ AllStay
  <1>1. p \in Provs /\ entry[p] # Absent /\ e # Absent
    BY HereIs, NotAbsent DEF EntryIs
  <1>2. Books(entry, saved, dirty, send, wanted, torn) /\ dirty \in BOOLEAN
    BY DEF ProvidersInv, Books
  <1>3. OthersSame(p, send, send, wanted, wanted, torn, torn') /\ torn \subseteq torn'
    BY DEF Same, OthersSame
  <1>s. EntryIs(p, e, send, wanted, torn') /\ Owed(dirty, dirty, e, entry[p])
    BY <1>2 DEF Owed
  <1>4. Books([entry EXCEPT ![p] = e], saved, dirty, send, wanted, torn')
    BY ONLY <1>1, <1>2, <1>3, <1>s, EntryKeeps
  <1>5. \A s \in Provs : entry[s] # Absent => entry'[s] # Absent
    BY <1>1 DEF ProvidersInv, Books
  <1>6. SendsOK(send, entry') /\ FetchOK(fetch', entry')
    BY <1>5, SendsStay
  <1>7. torn' \subseteq Provs
    BY <1>1 DEF ProvidersInv
  <1> QED BY <1>4, <1>5, <1>6, <1>7 DEF ProvidersInv, AllStay

LEMMA UpdateRefusedKeeps ==
    ASSUME ProvidersInv, NEW p \in Provs, NEW on \in BOOLEAN, UpdateRefused(p, on) PROVE ProvidersInv' /\ AllStay
  <1> DEFINE e == [entry[p] EXCEPT !.enabled = on, !.autoOff = FALSE]
  <1>1. /\ p \in Here /\ torn' = torn \cup {p}
        /\ UNCHANGED <<keyed, saved, dirty, send, fetch, wanted, works>>
    BY DEF UpdateRefused
  <1>2. EntryIs(p, entry[p], send, wanted, torn) /\ entry[p] \in EntryRecords
    BY <1>1, HereIs
  <1>3. entry' = [entry EXCEPT ![p] = e]
    <2>1. entry' = [entry EXCEPT ![p].enabled = on, ![p].autoOff = FALSE] /\ entry = [s \in Provs |-> entry[s]]
      BY DEF UpdateRefused, ProvidersInv, Books
    <2> QED BY <2>1
  <1>4. /\ e \in EntryRecords /\ e.ref = entry[p].ref /\ e.spend = entry[p].spend
        /\ e.outstanding = entry[p].outstanding
    BY <1>2 DEF EntryRecords
  <1> HIDE DEF e
  <1>5. EntryIs(p, e, send, wanted, torn')
    BY <1>1, <1>2, <1>4 DEF EntryIs
  <1>6. FetchOK(fetch', entry)
    BY <1>1 DEF ProvidersInv
  <1> QED BY <1>1, <1>3, <1>4, <1>5, <1>6, LookKeeps

LEMMA ReadKeeps ==
    ASSUME ProvidersInv, NEW p \in Here, NEW e, Like(entry[p], e), entry' = [entry EXCEPT ![p] = e],
           FetchOK(fetch', entry),
           UNCHANGED <<keyed, saved, dirty, send, wanted, torn, works>>
    PROVE  ProvidersInv' /\ AllStay
  <1>1. EntryIs(p, entry[p], send, wanted, torn)
    BY HereIs
  <1>2. EntryIs(p, e, send, wanted, torn) /\ e.spend = entry[p].spend
    BY <1>1, LikeIs DEF Like
  <1>3. EntryIs(p, e, send, wanted, torn')
    BY <1>2
  <1> QED BY <1>2, <1>3, LookKeeps

LEMMA RefreshModelsKeeps == ASSUME ProvidersInv, NEW p \in Provs, RefreshModels(p) PROVE ProvidersInv' /\ AllStay
  <1> DEFINE e == CheckKey(p, entry[p], keyed)
  <1>1. p \in Here /\ UNCHANGED <<keyed, send, wanted, torn, works>>
    BY DEF RefreshModels
  <1>2. EntryIs(p, entry[p], send, wanted, torn) /\ entry[p] \in EntryRecords
    BY <1>1, HereIs
  <1>3. Like(entry[p], e)
    BY <1>2, CheckKeyLike
  <1>4. EntryIs(p, e, send, wanted, torn)
    BY <1>2, <1>3, LikeIs
  <1>5. \/ e.missing /\ PersistAll([entry EXCEPT ![p] = e]) /\ UNCHANGED fetch
        \/ entry' = [entry EXCEPT ![p] = e] /\ fetch' = [fetch EXCEPT ![p] = "attached"] /\ UNCHANGED <<saved, dirty>>
    BY DEF RefreshModels
  <1> HIDE DEF e
  <1>6. FetchOK(fetch', entry)
    BY <1>1, <1>5 DEF ProvidersInv, FetchOK, Here
  <1>7. CASE PersistAll([entry EXCEPT ![p] = e])
    <2>1. keyed' \subseteq Refs /\ wanted' \subseteq Provs /\ torn' \subseteq Provs /\ wanted' = wanted /\ torn' = torn
      BY <1>1 DEF ProvidersInv
    <2> QED BY <1>1, <1>4, <1>6, <1>7, <2>1, WriteKeeps
  <1>8. CASE entry' = [entry EXCEPT ![p] = e] /\ UNCHANGED <<saved, dirty>>
    BY <1>1, <1>3, <1>6, <1>8, ReadKeeps
  <1> QED BY <1>5, <1>7, <1>8

LEMMA ModelsAnsweredKeeps ==
    ASSUME ProvidersInv, NEW p \in Provs, NEW a \in {"list", "401", "bad"}, ModelsAnswered(p, a)
    PROVE  ProvidersInv' /\ AllStay
  <1>1. /\ fetch' = [fetch EXCEPT ![p] = "no"] /\ UNCHANGED <<keyed, send, wanted, torn, works>>
        /\ IF fetch[p] = "attached" THEN PersistAll([entry EXCEPT ![p] = Fetched(@, a)]) ELSE PersistAll(entry)
    BY DEF ModelsAnswered
  <1>2. FetchOK(fetch', entry) /\ keyed' \subseteq Refs
        /\ wanted' \subseteq Provs /\ torn' \subseteq Provs /\ wanted' = wanted /\ torn' = torn
    BY <1>1 DEF ProvidersInv, FetchOK
  <1>3. CASE fetch[p] = "attached"
    <2> DEFINE e == Fetched(entry[p], a)
    <2>1. EntryIs(p, entry[p], send, wanted, torn) /\ entry[p] \in EntryRecords /\ p \in Here
      BY <1>3, HereIs DEF ProvidersInv, FetchOK, Here
    <2>2. Like(entry[p], e)
      BY <2>1, FetchedLike
    <2>3. EntryIs(p, e, send, wanted, torn)
      BY <2>1, <2>2, LikeIs
    <2>4. PersistAll([entry EXCEPT ![p] = e])
      BY <1>1, <1>3
    <2> HIDE DEF e
    <2> QED BY <1>1, <1>2, <2>1, <2>3, <2>4, WriteKeeps
  <1>4. CASE fetch[p] # "attached"
    <2>1. /\ entry = [s \in Provs |-> entry[s]] /\ PersistAll(entry)
          /\ \A s \in Provs : entry[s] # Absent => EntryIs(s, entry[s], send, wanted, torn)
      BY <1>1, <1>4 DEF ProvidersInv, Books
    <2>2. /\ Books(entry', saved', dirty', send, wanted, torn)
          /\ \A s \in Provs : entry'[s] = Absent <=> entry[s] = Absent
      BY <2>1, PersistKeeps
    <2>3. SendsOK(send, entry') /\ FetchOK(fetch', entry')
      BY <1>2, <2>2, SendsStay
    <2> QED BY <1>1, <1>2, <2>2, <2>3 DEF ProvidersInv, AllStay
  <1> QED BY <1>3, <1>4

(* Requests.  A request that goes on, as one of the same provider or no    *)
(* longer attached, and leaves the entries alone.                          *)
LEMMA SendTyped ==
    ASSUME ProvidersInv, NEW r \in Sends
    PROVE  /\ send \in [Sends -> SendRecords] /\ send[r] \in SendRecords
           /\ send[r].at # "idle" => send[r].p \in Provs
           /\ send[r].attached => send[r].at # "idle" /\ send[r].p \in Here
  BY DEF ProvidersInv, SendsOK, Here

LEMMA MovedOK ==
    ASSUME ProvidersInv, NEW r \in Sends, NEW m \in SendRecords, NEW h,
           m.at # "idle" => m.p \in Provs, m.attached => m.at # "idle" /\ m.p \in Here,
           \A s \in Provs : entry[s] # Absent => h[s] # Absent
    PROVE  SendsOK([send EXCEPT ![r] = m], h)
  <1> DEFINE b == [send EXCEPT ![r] = m]
  <1>1. b \in [Sends -> SendRecords] /\ b[r] = m /\ \A k \in Sends \ {r} : b[k] = send[k]
    BY SendMoves DEF ProvidersInv, SendsOK
  <1> HIDE DEF b
  <1>2. ASSUME NEW k \in Sends
        PROVE  /\ b[k].at # "idle" => b[k].p \in Provs
               /\ b[k].attached => b[k].at # "idle" /\ h[b[k].p] # Absent
    <2>1. CASE k = r
      BY <1>1, <2>1 DEF Here
    <2>2. CASE k # r
      BY <1>1, <2>2 DEF ProvidersInv, SendsOK
    <2> QED BY <2>1, <2>2
  <1>3. SendsOK(b, h)
    BY <1>1, <1>2 DEF SendsOK
  <1> QED BY <1>3 DEF b

LEMMA GoesOnKeeps ==
    ASSUME ProvidersInv, NEW r \in Sends, NEW m \in SendRecords, send' = [send EXCEPT ![r] = m],
           m.p = send[r].p, m.attached = send[r].attached, send[r].at # "idle", m.at # "idle",
           m.attached => (m.at \in {"sent", "body"} <=> send[r].at \in {"sent", "body"}),
           UNCHANGED <<entry, keyed, saved, dirty, fetch, wanted, torn, works>>
    PROVE  ProvidersInv' /\ AllStay
  <1>1. send \in [Sends -> SendRecords] /\ send[r].p \in Provs
        /\ (m.attached => m.p \in Here)
    BY SendTyped
  <1>2. \A s \in Provs : Using(send', s) = Using(send, s) /\ OutOn(send', s) = OutOn(send, s)
    <2>2. \A k \in Sends : send'[k].p = send[k].p /\ send'[k].attached = send[k].attached
      BY <1>1, SendMoves
    <2>3. ASSUME NEW s \in Provs PROVE Using(send', s) = Using(send, s)
      BY ONLY <2>2 DEF Using
    <2>4. ASSUME NEW s \in Provs PROVE OutOn(send', s) = OutOn(send, s)
      <3>1. \A k \in Sends : send'[k].attached => (send'[k].at \in {"sent", "body"} <=> send[k].at \in {"sent", "body"})
        BY <1>1, SendMoves
      <3> QED BY ONLY <2>2, <3>1 DEF OutOn
    <2> QED BY <2>3, <2>4
  <1>3. Books(entry, saved, dirty, send, wanted, torn) /\ dirty \in BOOLEAN
    BY DEF ProvidersInv, Books
  <1>4. Books(entry, saved, dirty, send', wanted, torn)
    BY <1>2, <1>3, RestKeeps
  <1>5. SendsOK(send', entry)
    BY <1>1, MovedOK
  <1> QED BY <1>4, <1>5 DEF ProvidersInv, AllStay

LEMMA RetryKeeps == ASSUME ProvidersInv, NEW r \in Sends, Retry(r) PROVE ProvidersInv' /\ AllStay
  <1> DEFINE m == [send[r] EXCEPT !.tries = send[r].tries + 1]
  <1>1. /\ send[r].at = "sent" /\ send[r].tries < Retries
        /\ UNCHANGED <<entry, keyed, saved, dirty, fetch, wanted, torn, works>>
    BY DEF Retry
  <1>2. send \in [Sends -> SendRecords] /\ send[r] \in SendRecords
    BY SendTyped
  <1>3. m \in SendRecords /\ m.p = send[r].p /\ m.attached = send[r].attached /\ m.at = send[r].at
    BY <1>1, <1>2, BudgetAssumption DEF SendRecords
  <1>4. send' = [send EXCEPT ![r] = m]
    BY <1>2 DEF Retry
  <1> HIDE DEF m
  <1> QED BY <1>1, <1>3, <1>4, GoesOnKeeps

LEMMA StreamsKeeps == ASSUME ProvidersInv, NEW r \in Sends, Streams(r) PROVE ProvidersInv' /\ AllStay
  <1> DEFINE m == [send[r] EXCEPT !.at = "body"]
  <1>1. send[r].at = "sent" /\ UNCHANGED <<entry, keyed, saved, dirty, fetch, wanted, torn, works>>
    BY DEF Streams
  <1>2. send \in [Sends -> SendRecords] /\ send[r] \in SendRecords
    BY SendTyped
  <1>3. m \in SendRecords /\ m.p = send[r].p /\ m.attached = send[r].attached /\ m.at = "body"
    BY <1>1, <1>2 DEF SendRecords, SendStages
  <1>4. send' = [send EXCEPT ![r] = m]
    BY <1>2 DEF Streams
  <1> HIDE DEF m
  <1> QED BY <1>1, <1>3, <1>4, GoesOnKeeps

(* A request that has no entry to write to.                                *)
LEMMA DetachedKeeps ==
    ASSUME ProvidersInv, NEW r \in Sends, NEW m \in SendRecords, ~send[r].attached, ~m.attached,
           m.at # "idle" => m.p \in Provs
    PROVE  /\ \A s \in Provs : Using([send EXCEPT ![r] = m], s) = Using(send, s)
                               /\ OutOn([send EXCEPT ![r] = m], s) = OutOn(send, s)
           /\ SendsOK([send EXCEPT ![r] = m], entry)
  <1> DEFINE b == [send EXCEPT ![r] = m]
  <1>1. send \in [Sends -> SendRecords]
    BY SendTyped
  <1>2. SetsMove(send, b, r, m)
    BY <1>1, SendMoves
  <1>3. \A s \in Provs : r \notin Using(send, s) /\ r \notin OutOn(send, s)
    BY DEF Using, OutOn
  <1>4. SendsOK(b, entry)
    BY MovedOK
  <1> HIDE DEF b
  <1>5. \A s \in Provs : Using(b, s) = Using(send, s) /\ OutOn(b, s) = OutOn(send, s)
    BY <1>2, <1>3 DEF SetsMove
  <1> QED BY <1>4, <1>5 DEF b

LEMMA PrepareKeeps == ASSUME ProvidersInv, NEW r \in Sends, NEW p \in Provs, Prepare(r, p) PROVE ProvidersInv' /\ AllStay
  <1> DEFINE m == [at |-> "prepared", p |-> p, attached |-> TRUE, tries |-> 0]
  <1>1. /\ send[r].at = "idle" /\ p \in Here /\ ~OverBudget(entry[p]) /\ send' = [send EXCEPT ![r] = m]
        /\ UNCHANGED <<entry, keyed, saved, dirty, fetch, wanted, torn, works>>
    BY DEF Prepare
  <1>2. send \in [Sends -> SendRecords] /\ ~send[r].attached
    BY <1>1, SendTyped
  <1>3. m \in SendRecords /\ m.p = p /\ m.attached /\ m.at = "prepared"
    BY BudgetAssumption DEF SendRecords, SendStages
  <1> HIDE DEF m
  <1>4. SetsMove(send, send', r, m)
    BY <1>1, <1>2, <1>3, SendMoves
  <1>5. \A s \in Provs : r \notin Using(send, s) /\ r \notin OutOn(send, s)
    BY <1>2 DEF Using, OutOn
  <1>6. OthersSame(p, send, send', wanted, wanted, torn, torn) /\ OutOn(send', p) = OutOn(send, p)
    <2>1. ASSUME NEW s \in Provs PROVE OutOn(send', s) = OutOn(send, s) /\ (s # p => Using(send', s) = Using(send, s))
      <3>1. /\ Using(send', s) = (Using(send, s) \ {r}) \cup (IF m.p = s /\ m.attached THEN {r} ELSE {})
            /\ OutOn(send', s) = (OutOn(send, s) \ {r})
                    \cup (IF m.p = s /\ m.attached /\ m.at \in {"sent", "body"} THEN {r} ELSE {})
        BY <1>4 DEF SetsMove
      <3> QED BY ONLY <3>1, <1>3, <1>5, s \in Provs
    <2> QED BY <2>1 DEF OthersSame, Same
  <1>7. EntryIs(p, entry[p], send, wanted, torn)
    BY <1>1, HereIs
  <1>8. EntryIs(p, entry[p], send', wanted, torn)
    <2>1. entry[p].spend \in Nat /\ entry[p].spend < Budget
      BY <1>1, <1>7, BudgetAssumption DEF EntryIs, EntryRecords, OverBudget
    <2>2. Cardinality(Using(send', p)) \in 0 .. Cardinality(Sends)
      BY SetsFinite
    <2>3. entry[p].spend + Cardinality(Using(send', p)) <= Most
      BY <2>1, <2>2, MostIs DEF Most
    <2> QED BY <1>6, <1>7, <2>3 DEF EntryIs
  <1>9. Books(entry, saved, dirty, send', wanted, torn)
    <2>1. Books(entry, saved, dirty, send, wanted, torn)
      BY DEF ProvidersInv
    <2>2. ASSUME NEW s \in Provs, entry[s] # Absent PROVE EntryIs(s, entry[s], send', wanted, torn)
      <3>1. CASE s = p
        BY <1>8, <3>1
      <3>2. CASE s # p
        <4>1. EntryIs(s, entry[s], send, wanted, torn) /\ Same(send, send', wanted, wanted, torn, torn, s)
          BY <1>6, <2>1, <2>2, <3>2 DEF Books, OthersSame
        <4> QED BY <4>1, EntryMoves
      <3> QED BY <3>1, <3>2
    <2> QED BY <2>1, <2>2 DEF Books
  <1>10. SendsOK(send', entry)
    BY <1>1, <1>3, MovedOK
  <1> QED BY <1>1, <1>9, <1>10 DEF ProvidersInv, AllStay

(* A request of p, and no other provider's, moves on.                      *)
LEMMA OthersUntouched ==
    ASSUME ProvidersInv, NEW r \in Sends, NEW m \in SendRecords, NEW b, b = [send EXCEPT ![r] = m],
           NEW p, send[r].p = p, m.attached => m.p = p
    PROVE  OthersSame(p, send, b, wanted, wanted, torn, torn)
  <1>1. send \in [Sends -> SendRecords]
    BY SendTyped
  <1>2. SetsMove(send, b, r, m)
    BY <1>1, SendMoves
  <1>3. ASSUME NEW s \in Provs \ {p} PROVE Using(b, s) = Using(send, s) /\ OutOn(b, s) = OutOn(send, s)
    <2>1. r \notin Using(send, s) /\ r \notin OutOn(send, s) /\ ~(m.p = s /\ m.attached)
      BY <1>3 DEF Using, OutOn
    <2>2. /\ Using(b, s) = (Using(send, s) \ {r}) \cup (IF m.p = s /\ m.attached THEN {r} ELSE {})
          /\ OutOn(b, s) = (OutOn(send, s) \ {r})
                    \cup (IF m.p = s /\ m.attached /\ m.at \in {"sent", "body"} THEN {r} ELSE {})
      BY <1>2 DEF SetsMove
    <2> QED BY ONLY <2>1, <2>2
  <1> QED BY <1>3 DEF OthersSame, Same

LEMMA NotSentIs == NotSent \in SendRecords /\ NotSent.at = "idle" /\ ~NotSent.attached /\ NotSent.attached = FALSE
  BY BudgetAssumption DEF NotSent, SendRecords, SendStages

LEMMA ChargeKeeps ==
    ASSUME ProvidersInv, NEW r \in Sends, NEW m \in SendRecords, send' = [send EXCEPT ![r] = m],
           send[r].attached, m.attached => m.at # "idle" /\ m.p = send[r].p, m.at # "idle" => m.p = send[r].p,
           NEW e, entry' = [entry EXCEPT ![send[r].p] = e], EntryIs(send[r].p, e, send', wanted, torn),
           Owed(dirty', dirty, e, entry[send[r].p]),
           UNCHANGED <<keyed, saved, fetch, wanted, torn, works>>
    PROVE  ProvidersInv' /\ AllStay
  <1> DEFINE p == send[r].p
  <1>1. p \in Provs /\ p \in Here /\ send[r].at # "idle" /\ entry[p] # Absent /\ e # Absent
    BY SendTyped, NotAbsent DEF Here, EntryIs
  <1>2. OthersSame(p, send, send', wanted, wanted, torn, torn)
    BY OthersUntouched
  <1>3. Books(entry, saved, dirty, send, wanted, torn)
    BY DEF ProvidersInv
  <1>4. EntryIs(p, e, send', wanted, torn) /\ Owed(dirty', dirty, e, entry[p]) /\ torn \subseteq torn
        /\ entry' = [entry EXCEPT ![p] = e]
    OBVIOUS
  <1> HIDE DEF p
  <1>5. Books([entry EXCEPT ![p] = e], saved, dirty', send', wanted, torn)
    BY ONLY <1>1, <1>2, <1>3, <1>4, EntryKeeps
  <1>6. \A s \in Provs : entry[s] # Absent => entry'[s] # Absent
    BY <1>1, <1>4 DEF ProvidersInv, Books
  <1>7. SendsOK(send', entry')
    BY <1>1, <1>6, MovedOK DEF p
  <1>8. FetchOK(fetch', entry')
    BY <1>6, SendsStay DEF ProvidersInv
  <1> QED BY <1>4, <1>5, <1>6, <1>7, <1>8 DEF ProvidersInv, AllStay

(* A request that has ended is not counted any more.                       *)
LEMMA EndedCounts ==
    ASSUME ProvidersInv, NEW r \in Sends, send[r].attached, NEW b, b = [send EXCEPT ![r] = NotSent]
    PROVE  /\ Cardinality(Using(b, send[r].p)) = Cardinality(Using(send, send[r].p)) - 1
           /\ send[r].at \in {"sent", "body"} =>
                Cardinality(OutOn(b, send[r].p)) = Cardinality(OutOn(send, send[r].p)) - 1
  <1> DEFINE p == send[r].p
  <1>1. send \in [Sends -> SendRecords] /\ p \in Provs
    BY SendTyped
  <1>2. SetsMove(send, b, r, NotSent)
    BY <1>1, NotSentIs, SendMoves
  <1>3. Using(b, p) = Using(send, p) \ {r} /\ OutOn(b, p) = OutOn(send, p) \ {r}
    BY <1>1, <1>2, NotSentIs DEF SetsMove
  <1>4. r \in Using(send, p) /\ (send[r].at \in {"sent", "body"} => r \in OutOn(send, p))
    BY DEF Using, OutOn
  <1>5. IsFiniteSet(Using(send, p)) /\ IsFiniteSet(OutOn(send, p))
    BY SetsFinite
  <1> QED BY <1>3, <1>4, <1>5, Takes

LEMMA SendKeeps == ASSUME ProvidersInv, NEW r \in Sends, Send(r) PROVE ProvidersInv' /\ AllStay
  <1> DEFINE m == [send[r] EXCEPT !.at = "sent"]  p == send[r].p
             e == [entry[p] EXCEPT !.outstanding = entry[p].outstanding + 1]
  <1>1. /\ send[r].at = "prepared" /\ UNCHANGED <<keyed, saved, dirty, fetch, wanted, torn, works>>
        /\ send' = [send EXCEPT ![r] = [send[r] EXCEPT !.at = "sent"]]
        /\ entry' = IF send[r].attached THEN [entry EXCEPT ![p] = e] ELSE entry
    <2>1. send \in [Sends -> SendRecords]
      BY SendTyped
    <2>2. send[r].attached => entry = [s \in Provs |-> entry[s]] /\ p \in Provs
      BY SendTyped DEF ProvidersInv, Books
    <2> QED BY <2>1, <2>2 DEF Send
  <1>2. send \in [Sends -> SendRecords] /\ send[r] \in SendRecords /\ p \in Provs
    BY <1>1, SendTyped
  <1>3. m \in SendRecords /\ m.p = p /\ m.attached = send[r].attached /\ m.at = "sent"
    BY <1>2 DEF SendRecords, SendStages
  <1>4. send' = [send EXCEPT ![r] = m]
    BY <1>1
  <1> HIDE DEF m
  <1>5. CASE ~send[r].attached
    <2>1. send[r].attached = FALSE /\ m.attached = FALSE /\ entry' = entry
      BY <1>1, <1>2, <1>3, <1>5 DEF SendRecords
    <2>2. (\A s \in Provs : Using(send', s) = Using(send, s) /\ OutOn(send', s) = OutOn(send, s)) /\ SendsOK(send', entry)
      BY <1>2, <1>3, <1>4, <2>1, DetachedKeeps
    <2>3. Books(entry, saved, dirty, send, wanted, torn) /\ dirty \in BOOLEAN
      BY DEF ProvidersInv, Books
    <2>4. Books(entry, saved, dirty, send', wanted, torn)
      BY <2>2, <2>3, RestKeeps
    <2> QED BY <1>1, <2>1, <2>2, <2>4 DEF ProvidersInv, AllStay
  <1>6. CASE send[r].attached
    <2>1. EntryIs(p, entry[p], send, wanted, torn) /\ entry[p] \in EntryRecords
      BY <1>6, SendTyped, HereIs
    <2>2. /\ e \in EntryRecords /\ e.ref = entry[p].ref /\ e.spend = entry[p].spend
          /\ e.outstanding = entry[p].outstanding + 1 /\ e.enabled = entry[p].enabled /\ e.autoOff = entry[p].autoOff
      BY <2>1 DEF EntryRecords
    <2>3. entry' = [entry EXCEPT ![p] = e]
      BY <1>1, <1>6
    <2> HIDE DEF e
    <2>4. Using(send', p) = Using(send, p) /\ OutOn(send', p) = OutOn(send, p) \cup {r} /\ r \notin OutOn(send, p)
      <3>1. SetsMove(send, send', r, m)
        BY <1>2, <1>3, <1>4, SendMoves
      <3>2. /\ Using(send', p) = (Using(send, p) \ {r}) \cup {r}
            /\ OutOn(send', p) = (OutOn(send, p) \ {r}) \cup {r}
        BY <1>2, <1>3, <1>6, <3>1 DEF SetsMove
      <3>3. r \in Using(send, p) /\ r \notin OutOn(send, p)
        BY <1>1, <1>6 DEF Using, OutOn
      <3> QED BY <3>2, <3>3
    <2>5. Cardinality(OutOn(send', p)) = Cardinality(OutOn(send, p)) + 1
      BY <2>4, Adds, SetsFinite
    <2>6. EntryIs(p, e, send', wanted, torn)
      BY <2>1, <2>2, <2>4, <2>5 DEF EntryIs
    <2>7. Owed(dirty', dirty, e, entry[p])
      BY <1>1, <2>2 DEF ProvidersInv, Books, Owed
    <2> QED BY <1>1, <1>3, <1>4, <1>6, <2>3, <2>6, <2>7, ChargeKeeps
  <1> QED BY <1>5, <1>6

(* A request ends: of one that is attached, the entry is written to.       *)
LEMMA DetachedEnds ==
    ASSUME ProvidersInv, NEW r \in Sends, ~send[r].attached, send' = [send EXCEPT ![r] = NotSent], entry' = entry,
           dirty' = dirty \/ dirty' = TRUE, UNCHANGED <<keyed, saved, fetch, wanted, torn, works>>
    PROVE  ProvidersInv' /\ AllStay
  <1>1. (\A s \in Provs : Using(send', s) = Using(send, s) /\ OutOn(send', s) = OutOn(send, s)) /\ SendsOK(send', entry)
    BY NotSentIs, DetachedKeeps
  <1>2. Books(entry, saved, dirty, send, wanted, torn) /\ dirty' \in BOOLEAN /\ (~dirty' => ~dirty)
    BY DEF ProvidersInv, Books
  <1>3. Books(entry, saved, dirty', send', wanted, torn)
    BY <1>1, <1>2, RestKeeps
  <1> QED BY <1>1, <1>3 DEF ProvidersInv, AllStay

LEMMA UncountedIs ==
    ASSUME NEW e \in EntryRecords, e.outstanding # 0
    PROVE  LET f == Uncounted(e) IN
           /\ f \in EntryRecords /\ f.ref = e.ref /\ f.spend = e.spend /\ f.outstanding = e.outstanding - 1
           /\ f.enabled = e.enabled /\ f.autoOff = e.autoOff
  BY DEF Uncounted, EntryRecords

(* The entry of a provider of whose requests one has ended, at no cost.    *)
LEMMA EndedIs ==
    ASSUME ProvidersInv, NEW r \in Sends, send[r].attached, send[r].at \in {"sent", "body"},
           NEW b, b = [send EXCEPT ![r] = NotSent], NEW f, Like(entry[send[r].p], f)
    PROVE  /\ EntryIs(send[r].p, Uncounted(f), b, wanted, torn)
           /\ Uncounted(f).spend = entry[send[r].p].spend /\ Uncounted(f) \in EntryRecords
           /\ Uncounted(f).spend + 1 + Cardinality(Using(b, send[r].p)) <= Most
  <1> DEFINE p == send[r].p  g == Uncounted(f)
  <1>1. EntryIs(p, entry[p], send, wanted, torn)
    BY SendTyped, HereIs
  <1>2. EntryIs(p, f, send, wanted, torn) /\ f \in EntryRecords /\ f.spend = entry[p].spend
    BY <1>1, LikeIs DEF Like
  <1>3. /\ Cardinality(Using(b, p)) = Cardinality(Using(send, p)) - 1
        /\ Cardinality(OutOn(b, p)) = Cardinality(OutOn(send, p)) - 1
    BY EndedCounts
  <1>4. Cardinality(Using(b, p)) \in Nat /\ Cardinality(OutOn(b, p)) \in Nat
        /\ Cardinality(Using(send, p)) \in Nat /\ Cardinality(OutOn(send, p)) \in Nat /\ Most \in Nat
    BY SetsFinite, MostIs, FS_CardinalityType
  <1>5. f.outstanding # 0
    BY <1>2, <1>3, <1>4 DEF EntryIs
  <1>6. /\ g \in EntryRecords /\ g.ref = f.ref /\ g.spend = f.spend /\ g.outstanding = f.outstanding - 1
        /\ g.enabled = f.enabled /\ g.autoOff = f.autoOff
    BY <1>2, <1>5, UncountedIs
  <1> HIDE DEF g
  <1>7. g.spend \in Nat /\ g.outstanding \in Nat
    BY <1>6 DEF EntryRecords
  <1>8. g.spend + 1 + Cardinality(Using(b, p)) <= Most /\ g.spend + Cardinality(Using(b, p)) <= Most
        /\ g.outstanding = Cardinality(OutOn(b, p))
    BY <1>2, <1>3, <1>4, <1>6, <1>7 DEF EntryIs
  <1>9. EntryIs(p, g, b, wanted, torn)
    BY <1>2, <1>6, <1>8 DEF EntryIs
  <1> QED BY <1>2, <1>6, <1>8, <1>9 DEF g

LEMMA SelfLike == ASSUME NEW e \in EntryRecords PROVE Like(e, e)
  BY DEF Like

LEMMA FailedKeeps ==
    ASSUME ProvidersInv, NEW r \in Sends, NEW o \in {"down", "429", "401", "4xx"}, Failed(r, o) PROVE ProvidersInv' /\ AllStay
  <1> DEFINE p == send[r].p  e == Uncounted(Noted(entry[p], o))
  <1>1. /\ send[r].at = "sent" /\ send' = [send EXCEPT ![r] = NotSent]
        /\ entry' = IF send[r].attached THEN [entry EXCEPT ![p] = e] ELSE entry
        /\ UNCHANGED <<keyed, saved, dirty, fetch, wanted, torn, works>>
    <2>1. send[r].attached => entry = [s \in Provs |-> entry[s]] /\ p \in Provs
      BY SendTyped DEF ProvidersInv, Books
    <2> QED BY <2>1 DEF Failed
  <1>2. CASE ~send[r].attached
    BY <1>1, <1>2, DetachedEnds
  <1>3. CASE send[r].attached
    <2>1. entry[p] \in EntryRecords
      BY <1>3, SendTyped, HereIs
    <2>2. Like(entry[p], Noted(entry[p], o))
      BY <2>1, NotedLike
    <2>3. EntryIs(p, e, send', wanted, torn) /\ e.spend = entry[p].spend
      BY <1>1, <1>3, <2>2, EndedIs
    <2>4. entry' = [entry EXCEPT ![p] = e]
      BY <1>1, <1>3
    <2> HIDE DEF e
    <2>5. Owed(dirty', dirty, e, entry[p])
      BY <1>1, <2>3 DEF ProvidersInv, Books, Owed
    <2> QED BY <1>1, <1>3, <2>3, <2>4, <2>5, NotSentIs, ChargeKeeps
  <1> QED BY <1>2, <1>3

LEMMA AbandonedKeeps == ASSUME ProvidersInv, NEW r \in Sends, Abandoned(r) PROVE ProvidersInv' /\ AllStay
  <1> DEFINE p == send[r].p  e == Uncounted(entry[p])
  <1>1. /\ send[r].at = "body" /\ send' = [send EXCEPT ![r] = NotSent]
        /\ entry' = IF send[r].attached THEN [entry EXCEPT ![p] = e] ELSE entry
        /\ UNCHANGED <<keyed, saved, dirty, fetch, wanted, torn, works>>
    <2>1. send[r].attached => entry = [s \in Provs |-> entry[s]] /\ p \in Provs
      BY SendTyped DEF ProvidersInv, Books
    <2> QED BY <2>1 DEF Abandoned
  <1>2. CASE ~send[r].attached
    BY <1>1, <1>2, DetachedEnds
  <1>3. CASE send[r].attached
    <2>2. Like(entry[p], entry[p])
      BY <1>3, SendTyped, HereIs, SelfLike
    <2>3. EntryIs(p, e, send', wanted, torn) /\ e.spend = entry[p].spend
      BY <1>1, <1>3, <2>2, EndedIs
    <2>4. entry' = [entry EXCEPT ![p] = e]
      BY <1>1, <1>3
    <2> HIDE DEF e
    <2>5. Owed(dirty', dirty, e, entry[p])
      BY <1>1, <2>3 DEF ProvidersInv, Books, Owed
    <2> QED BY <1>1, <1>3, <2>3, <2>4, <2>5, NotSentIs, ChargeKeeps
  <1> QED BY <1>2, <1>3

LEMMA CompletedKeeps ==
    ASSUME ProvidersInv, NEW r \in Sends, NEW due \in BOOLEAN, Completed(r, due) PROVE ProvidersInv' /\ AllStay
  <1> DEFINE p == send[r].p  g == Uncounted(Noted(entry[p], "ok"))  e == Charged(entry[p])
             es == IF send[r].attached THEN [entry EXCEPT ![p] = e] ELSE entry
  <1>1. /\ send[r].at = "body" /\ send' = [send EXCEPT ![r] = NotSent]
        /\ UNCHANGED <<keyed, fetch, wanted, torn, works>>
        /\ \/ PersistAll(es)
           \/ entry' = es /\ dirty' = TRUE /\ UNCHANGED saved
    <2>1. send[r].attached => entry = [s \in Provs |-> entry[s]] /\ p \in Provs
      BY SendTyped DEF ProvidersInv, Books
    <2>2. (IF send[r].attached THEN [entry EXCEPT ![send[r].p] = Charged(@)] ELSE entry) = es
      BY <2>1
    <2> QED BY <2>2 DEF Completed
  <1>2. CASE ~send[r].attached
    <2>1. es = entry
      BY <1>2
    <2> HIDE DEF es
    <2>2. CASE entry' = entry /\ dirty' = TRUE /\ UNCHANGED saved
      BY <1>1, <1>2, <2>2, DetachedEnds
    <2>3. CASE PersistAll(entry)
      <3>1. (\A s \in Provs : Using(send', s) = Using(send, s) /\ OutOn(send', s) = OutOn(send, s)) /\ SendsOK(send', entry)
        BY <1>1, <1>2, NotSentIs, DetachedKeeps
      <3>2. Books(entry, saved, dirty, send, wanted, torn)
        BY DEF ProvidersInv
      <3>3. \A s \in Provs : entry[s] # Absent => EntryIs(s, entry[s], send', wanted, torn)
        BY <3>1, <3>2 DEF Books, EntryIs
      <3>4. /\ Books(entry', saved', dirty', send', wanted, torn)
            /\ \A s \in Provs : entry'[s] = Absent <=> entry[s] = Absent
        BY <2>3, <3>2, <3>3, PersistKeeps DEF Books
      <3>5. SendsOK(send', entry')
        BY <3>1, <3>4 DEF SendsOK
      <3>6. FetchOK(fetch', entry')
        BY <1>1, <3>4 DEF ProvidersInv, FetchOK
      <3> QED BY <1>1, <3>4, <3>5, <3>6 DEF ProvidersInv, AllStay
    <2> QED BY <1>1, <2>1, <2>2, <2>3
  <1>3. CASE send[r].attached
    <2>1. entry[p] \in EntryRecords /\ p \in Here /\ p \in Provs
      BY <1>3, SendTyped, HereIs
    <2>2. Like(entry[p], Noted(entry[p], "ok"))
      BY <2>1, NotedLike
    <2>3. /\ EntryIs(p, g, send', wanted, torn) /\ g \in EntryRecords
          /\ g.spend + 1 + Cardinality(Using(send', p)) <= Most
      BY <1>1, <1>3, <2>2, EndedIs
    <2>4. e = [g EXCEPT !.spend = g.spend + 1]
      BY <2>3 DEF Charged, EntryRecords
    <2> HIDE DEF e, g
    <2>5. /\ e \in EntryRecords /\ e.ref = g.ref /\ e.spend = g.spend + 1 /\ e.outstanding = g.outstanding
          /\ e.enabled = g.enabled /\ e.autoOff = g.autoOff
      BY <2>3, <2>4 DEF EntryRecords
    <2>6. EntryIs(p, e, send', wanted, torn) /\ e # Absent
      BY <2>3, <2>5, NotAbsent DEF EntryIs
    <2>7. es = [entry EXCEPT ![p] = e]
      BY <1>3
    <2> HIDE DEF es
    <2>8. CASE entry' = es /\ dirty' = TRUE /\ UNCHANGED saved
      <3>1. Owed(dirty', dirty, e, entry[p])
        BY <2>8 DEF Owed
      <3> QED BY <1>1, <1>3, <2>6, <2>7, <2>8, <3>1, NotSentIs, ChargeKeeps
    <2>9. CASE PersistAll(es)
      <3>1. OthersSame(p, send, send', wanted, wanted, torn, torn)
        BY <1>1, NotSentIs, OthersUntouched
      <3>2. /\ Books(entry', saved', dirty', send', wanted, torn) /\ entry'[p] # Absent
            /\ OthersStay(p, entry, entry')
        <4>1. PersistAll([entry EXCEPT ![p] = e]) /\ (e # Absent => EntryIs(p, e, send', wanted, torn))
          BY <2>6, <2>7, <2>9
        <4> HIDE DEF p
        <4> QED BY ONLY ProvidersInv, <2>1, <2>6, <3>1, <4>1, PersistOne
      <3>3. \A s \in Provs : entry[s] # Absent => entry'[s] # Absent
        BY <3>2 DEF OthersStay
      <3>4. SendsOK(send', entry')
        BY <1>1, <3>3, NotSentIs, MovedOK
      <3>5. FetchOK(fetch', entry')
        BY <1>1, <3>3, SendsStay DEF ProvidersInv
      <3> QED BY <1>1, <3>2, <3>3, <3>4, <3>5 DEF ProvidersInv, AllStay
    <2> QED BY <1>1, <2>8, <2>9
  <1> QED BY <1>2, <1>3

LEMMA RemoveProviderKeeps ==
    ASSUME ProvidersInv, NEW p \in Provs, RemoveProvider(p)
    PROVE  /\ ProvidersInv' /\ p \in Here /\ OthersStay(p, entry, entry') /\ entry'[p] = Absent
           /\ keyed' = IF entry[p].ref = MintedRef[p] THEN keyed \ {MintedRef[p]} ELSE keyed
  <1>1. /\ p \in Here /\ PersistAll([entry EXCEPT ![p] = Absent])
        /\ keyed' = IF entry[p].ref = MintedRef[p] THEN keyed \ {MintedRef[p]} ELSE keyed
        /\ send' = [r \in Sends |-> IF send[r].p = p THEN [send[r] EXCEPT !.attached = FALSE] ELSE send[r]]
        /\ fetch' = [fetch EXCEPT ![p] = IF fetch[p] = "attached" THEN "detached" ELSE fetch[p]]
        /\ wanted' = wanted \ {p} /\ torn' = torn \ {p} /\ works' = works
    BY DEF RemoveProvider
  <1>2. send \in [Sends -> SendRecords]
    BY DEF ProvidersInv, SendsOK
  <1>3. /\ send' \in [Sends -> SendRecords]
        /\ \A r \in Sends : /\ send'[r].p = send[r].p /\ send'[r].at = send[r].at
                            /\ send[r].p = p => send'[r].attached = FALSE
                            /\ send[r].p # p => send'[r] = send[r]
    <2>1. ASSUME NEW r \in Sends
          PROVE  LET m == [send[r] EXCEPT !.attached = FALSE] IN
                 m \in SendRecords /\ m.p = send[r].p /\ m.at = send[r].at /\ m.attached = FALSE
      BY <1>2 DEF SendRecords
    <2>2. ASSUME NEW r \in Sends
          PROVE  /\ send'[r] \in SendRecords /\ send'[r].p = send[r].p /\ send'[r].at = send[r].at
                 /\ send[r].p = p => send'[r].attached = FALSE
                 /\ send[r].p # p => send'[r] = send[r]
      <3>1. CASE send[r].p = p
        BY <1>1, <2>1, <3>1
      <3>2. CASE send[r].p # p
        BY <1>1, <1>2, <3>2
      <3> QED BY <3>1, <3>2
    <2>3. send' = [r \in Sends |-> send'[r]]
      BY <1>1
    <2> QED BY <2>2, <2>3
  <1>4. OthersSame(p, send, send', wanted, wanted', torn, torn')
    <2>1. ASSUME NEW s \in Provs \ {p} PROVE Using(send', s) = Using(send, s) /\ OutOn(send', s) = OutOn(send, s)
      BY ONLY <1>3, <2>1 DEF Using, OutOn
    <2> QED BY <1>1, <2>1 DEF OthersSame, Same
  <1>5. /\ Books(entry', saved', dirty', send', wanted', torn') /\ entry'[p] = Absent
        /\ OthersStay(p, entry, entry')
    <2>1. p \in Provs /\ (Absent # Absent => EntryIs(p, Absent, send', wanted', torn'))
      OBVIOUS
    <2> QED BY ONLY ProvidersInv, <1>1, <1>4, <2>1, PersistOne
  <1>6. SendsOK(send', entry')
    <2>1. ASSUME NEW r \in Sends
          PROVE  /\ send'[r].at # "idle" => send'[r].p \in Provs
                 /\ send'[r].attached => send'[r].at # "idle" /\ entry'[send'[r].p] # Absent
      <3>1. /\ send[r].at # "idle" => send[r].p \in Provs
            /\ send[r].attached => send[r].at # "idle" /\ entry[send[r].p] # Absent
        BY DEF ProvidersInv, SendsOK
      <3>2. CASE send[r].p = p
        BY <1>3, <3>1, <3>2
      <3>3. CASE send[r].p # p
        BY <1>3, <1>5, <3>1, <3>3 DEF OthersStay
      <3> QED BY <3>2, <3>3
    <2> QED BY <1>3, <2>1 DEF SendsOK
  <1>7. FetchOK(fetch', entry')
    <2>1. fetch' \in [Provs -> {"no", "attached", "detached"}] /\ fetch'[p] # "attached"
          /\ \A s \in Provs \ {p} : fetch'[s] = fetch[s]
      BY <1>1 DEF ProvidersInv, FetchOK
    <2> QED BY <1>5, <2>1 DEF ProvidersInv, FetchOK, OthersStay
  <1>8. keyed' \subseteq Refs /\ wanted' \subseteq Provs /\ torn' \subseteq Provs /\ works' \subseteq Provs
    BY <1>1 DEF ProvidersInv
  <1> QED BY <1>1, <1>5, <1>6, <1>7, <1>8 DEF ProvidersInv, AllStay

LEMMA BackoffOverKeeps == ASSUME ProvidersInv, NEW p \in Provs, BackoffOver(p) PROVE ProvidersInv' /\ AllStay
  <1> DEFINE b == IF entry[p].backoff = "running" THEN "over" ELSE entry[p].backoff
             e == [entry[p] EXCEPT !.backoff = b, !.limited = FALSE]
  <1>1. p \in Here /\ UNCHANGED <<keyed, saved, dirty, send, fetch, wanted, torn, works>>
    BY DEF BackoffOver
  <1>2. entry[p] \in EntryRecords /\ entry = [s \in Provs |-> entry[s]]
    BY <1>1, HereIs DEF ProvidersInv, Books
  <1>3. entry' = [entry EXCEPT ![p] = e]
    BY <1>2 DEF BackoffOver
  <1>4. Like(entry[p], e)
    BY <1>2 DEF Like, EntryRecords
  <1>5. FetchOK(fetch', entry)
    BY <1>1 DEF ProvidersInv
  <1> HIDE DEF e
  <1> QED BY <1>1, <1>3, <1>4, <1>5, ReadKeeps

LEMMA ReadsKeep == ASSUME ProvidersInv, NEW p \in Provs, Read(p) PROVE ProvidersInv' /\ AllStay
  <1>1. p \in Here /\ UNCHANGED <<keyed, saved, dirty, send, fetch, wanted, torn, works>>
        /\ entry' = [entry EXCEPT ![p] = HalfOpen(entry[p])]
    BY DEF Read
  <1>2. Like(entry[p], HalfOpen(entry[p]))
    BY <1>1, HereIs, HalfOpenLike
  <1>3. FetchOK(fetch', entry)
    BY <1>1 DEF ProvidersInv
  <1> QED BY <1>1, <1>2, <1>3, ReadKeeps

LEMMA NewDayKeeps == ASSUME ProvidersInv, NewDay PROVE ProvidersInv' /\ AllStay
  <1>1. /\ entry' = [p \in Provs |-> IF entry[p] # Absent THEN [entry[p] EXCEPT !.spend = 0] ELSE Absent]
        /\ saved' = [p \in Provs |-> IF saved[p] # Absent THEN [saved[p] EXCEPT !.spend = 0] ELSE Absent]
        /\ UNCHANGED <<keyed, dirty, send, fetch, wanted, torn, works>>
    BY DEF NewDay, Here
  <1>2. Books(entry, saved, dirty, send, wanted, torn)
    BY DEF ProvidersInv
  <1>3. ASSUME NEW p \in Provs, entry[p] # Absent
        PROVE  EntryIs(p, entry'[p], send, wanted, torn) /\ entry'[p].spend = 0 /\ entry'[p] # Absent
    <2> DEFINE e == entry[p]  g == [e EXCEPT !.spend = 0]
    <2>1. EntryIs(p, e, send, wanted, torn) /\ e \in EntryRecords
      BY <1>2, <1>3 DEF Books, EntryIs
    <2>2. /\ g \in EntryRecords /\ g.ref = e.ref /\ g.spend = 0 /\ g.outstanding = e.outstanding
          /\ g.enabled = e.enabled /\ g.autoOff = e.autoOff
      BY <2>1 DEF EntryRecords
    <2>3. entry'[p] = g
      BY <1>1, <1>3
    <2> HIDE DEF g
    <2>4. g.spend + Cardinality(Using(send, p)) <= Most
      BY <2>2, SetsFinite, MostIs
    <2> QED BY <2>1, <2>2, <2>3, <2>4, NotAbsent DEF EntryIs
  <1>4. ASSUME NEW p \in Provs, saved[p] # Absent
        PROVE  FileIs(p, saved'[p], wanted, torn) /\ saved'[p].spend = 0 /\ saved'[p] # Absent
    <2> DEFINE e == saved[p]  g == [e EXCEPT !.spend = 0]
    <2>1. FileIs(p, e, wanted, torn) /\ e \in FileRecords
      BY <1>2, <1>4 DEF Books, FileIs
    <2>2. /\ g \in FileRecords /\ g.ref = e.ref /\ g.spend = 0 /\ g.enabled = e.enabled
      BY <2>1 DEF FileRecords
    <2>3. saved'[p] = g
      BY <1>1, <1>4
    <2> HIDE DEF g
    <2> QED BY <2>1, <2>2, <2>3, MostIs, NotAbsent DEF FileIs
  <1>5. Books(entry', saved', dirty', send', wanted', torn')
    <2>1. entry' = [p \in Provs |-> entry'[p]] /\ saved' = [p \in Provs |-> saved'[p]] /\ dirty' \in BOOLEAN
      BY <1>1, <1>2 DEF Books
    <2>2. \A p \in Provs : (entry[p] = Absent => entry'[p] = Absent) /\ (saved[p] = Absent => saved'[p] = Absent)
      BY <1>1
    <2>3. \A p \in Provs : saved[p] = Absent <=> entry[p] = Absent
      BY <1>2 DEF Books
    <2>4. ASSUME NEW p \in Provs
          PROVE  /\ entry'[p] # Absent => EntryIs(p, entry'[p], send', wanted', torn')
                 /\ saved'[p] # Absent => FileIs(p, saved'[p], wanted', torn')
                 /\ saved'[p] = Absent <=> entry'[p] = Absent
                 /\ ~dirty' /\ entry'[p] # Absent => saved'[p].spend = entry'[p].spend
      <3>1. CASE entry[p] = Absent
        BY <2>2, <2>3, <3>1
      <3>2. CASE entry[p] # Absent
        <4>1. saved[p] # Absent /\ send' = send /\ wanted' = wanted /\ torn' = torn
          BY <1>1, <2>3, <3>2
        <4> QED BY <1>3, <1>4, <3>2, <4>1
      <3> QED BY <3>1, <3>2
    <2> QED BY <2>1, <2>4 DEF Books
  <1>6. SendsOK(send', entry') /\ FetchOK(fetch', entry')
    BY <1>1, <1>3, SendsStay DEF ProvidersInv
  <1> QED BY <1>1, <1>3, <1>5, <1>6 DEF ProvidersInv, AllStay

(* _load() of a file that is right.                                        *)
LEMMA RestoredIs ==
    ASSUME NEW f, f = [p \in Provs |-> f[p]], NEW q, NEW w, NEW t,
           \A p \in Provs : f[p] # Absent => FileIs(p, f[p], w, t),
           \A p \in Provs : Using(q, p) = {} /\ OutOn(q, p) = {}
    PROVE  Books(Restored(f), f, FALSE, q, w, t)
  <1> DEFINE h == Restored(f)
  <1>1. h = [p \in Provs |-> h[p]] /\ \A p \in Provs : f[p] = Absent => h[p] = Absent
    BY DEF Restored
  <1>2. ASSUME NEW p \in Provs, f[p] # Absent PROVE EntryIs(p, h[p], q, w, t) /\ h[p].spend = f[p].spend /\ h[p] # Absent
    <2> DEFINE a == [Fresh(f[p].ref, f[p].enabled) EXCEPT !.listed = f[p].listed, !.spend = f[p].spend]
    <2>1. f[p] \in FileRecords /\ FileIs(p, f[p], w, t)
      BY <1>2 DEF FileIs
    <2>2. /\ a \in EntryRecords /\ a.ref = f[p].ref /\ a.spend = f[p].spend /\ a.outstanding = 0
          /\ a.enabled = f[p].enabled /\ a.autoOff = FALSE
      BY <2>1 DEF Fresh, EntryRecords, FileRecords
    <2>3. h[p] = CheckKey(p, a, keyed)
      BY <1>2 DEF Restored
    <2> HIDE DEF a, h
    <2>4. EntryIs(p, a, q, w, t)
      <3>1. Using(q, p) = {} /\ OutOn(q, p) = {} /\ Cardinality({}) = 0
        BY FS_EmptySet
      <3>2. a.spend \in Nat
        BY <2>2 DEF EntryRecords
      <3>3. a.outstanding = Cardinality(OutOn(q, p)) /\ a.spend + Cardinality(Using(q, p)) <= Most
        BY <2>1, <2>2, <3>1, <3>2 DEF FileIs
      <3> QED BY <2>1, <2>2, <3>3 DEF EntryIs, FileIs
    <2>5. Like(a, h[p])
      BY <2>2, <2>3, CheckKeyLike
    <2>6. EntryIs(p, h[p], q, w, t)
      BY <2>4, <2>5, LikeIs
    <2> QED BY <2>2, <2>5, <2>6, NotAbsent DEF Like, EntryIs
  <1> HIDE DEF h
  <1>3. Books(h, f, FALSE, q, w, t)
    BY <1>1, <1>2 DEF Books
  <1> QED BY <1>3 DEF h

LEMMA CloseKeeps == ASSUME ProvidersInv, NEW clean \in BOOLEAN, Close(clean) PROVE ProvidersInv' /\ AllStay
  <1>1. /\ saved' = IF clean /\ dirty THEN [p \in Provs |-> IF entry[p] # Absent THEN Record(entry[p]) ELSE Absent] ELSE saved
        /\ entry' = Restored(saved') /\ dirty' = FALSE
        /\ send' = [r \in Sends |-> NotSent] /\ fetch' = [p \in Provs |-> "no"]
        /\ UNCHANGED <<keyed, wanted, torn, works>>
    BY DEF Close, Here
  <1>2. Books(entry, saved, dirty, send, wanted, torn)
    BY DEF ProvidersInv
  <1>3. saved' = [p \in Provs |-> saved'[p]]
    BY <1>1, <1>2 DEF Books
  <1>4. ASSUME NEW p \in Provs
        PROVE  (saved'[p] # Absent => FileIs(p, saved'[p], wanted, torn)) /\ (entry[p] # Absent => saved'[p] # Absent)
    <2>1. (entry[p] # Absent => EntryIs(p, entry[p], send, wanted, torn)) /\ (saved[p] # Absent => FileIs(p, saved[p], wanted, torn))
          /\ (saved[p] = Absent <=> entry[p] = Absent)
      BY <1>2 DEF Books
    <2>2. CASE clean /\ dirty /\ entry[p] # Absent
      <3>1. saved'[p] = Record(entry[p])
        BY <1>1, <2>2
      <3>2. FileIs(p, Record(entry[p]), wanted, torn)
        BY <2>1, <2>2, RecordIs, SetsFinite
      <3> QED BY <3>1, <3>2, NotAbsent DEF FileIs
    <2>3. CASE clean /\ dirty /\ entry[p] = Absent
      BY <1>1, <2>3
    <2>4. CASE ~(clean /\ dirty)
      BY <1>1, <2>1, <2>4
    <2> QED BY <2>2, <2>3, <2>4
  <1>5. send' \in [Sends -> SendRecords] /\ \A r \in Sends : send'[r].at = "idle" /\ ~send'[r].attached
    BY <1>1, NotSentIs
  <1>6. \A p \in Provs : Using(send', p) = {} /\ OutOn(send', p) = {}
    BY ONLY <1>5 DEF Using, OutOn
  <1>7. Books(entry', saved', FALSE, send', wanted, torn)
    <2>1. Books(Restored(saved'), saved', FALSE, send', wanted, torn)
      BY <1>3, <1>4, <1>6, RestoredIs
    <2> QED BY <1>1, <2>1
  <1>8. SendsOK(send', entry') /\ FetchOK(fetch', entry')
    BY <1>1, <1>5 DEF SendsOK, FetchOK
  <1>9. AllStay
    BY <1>4, <1>7 DEF Books, AllStay
  <1> QED BY <1>1, <1>7, <1>8, <1>9 DEF ProvidersInv

LEMMA InitProvidersInv == ProvidersInit => ProvidersInv
  <1> SUFFICES ASSUME ProvidersInit PROVE ProvidersInv
    OBVIOUS
  <1>1. /\ saved \in [Provs -> {Absent} \cup {Record(Fresh(ref, TRUE)) : ref \in OwnNames}]
        /\ keyed \subseteq Refs /\ entry = Restored(saved) /\ dirty = FALSE
        /\ send = [r \in Sends |-> NotSent] /\ fetch = [p \in Provs |-> "no"]
        /\ wanted = {p \in Provs : saved[p] # Absent} /\ torn = {} /\ works = Provs
    BY DEF ProvidersInit
  <1>2. saved = [p \in Provs |-> saved[p]]
    BY <1>1
  <1>3. ASSUME NEW p \in Provs, saved[p] # Absent PROVE FileIs(p, saved[p], wanted, torn)
    <2>1. PICK ref \in OwnNames : saved[p] = Record(Fresh(ref, TRUE))
      BY <1>1, <1>3
    <2>2. /\ saved[p] \in FileRecords /\ saved[p].ref = ref /\ saved[p].spend = 0
      BY <2>1, RefsNamed DEF Record, Fresh, FileRecords
    <2>3. p \in wanted
      BY <1>1, <1>3
    <2> QED BY <2>2, <2>3, MostIs DEF FileIs, NamesOf
  <1>4. send \in [Sends -> SendRecords] /\ \A r \in Sends : send[r].at = "idle" /\ ~send[r].attached
    BY <1>1, NotSentIs
  <1>5. \A p \in Provs : Using(send, p) = {} /\ OutOn(send, p) = {}
    BY ONLY <1>4 DEF Using, OutOn
  <1>6. Books(entry, saved, FALSE, send, wanted, torn)
    <2>1. Books(Restored(saved), saved, FALSE, send, wanted, torn)
      BY <1>2, <1>3, <1>5, RestoredIs
    <2> QED BY <1>1, <2>1
  <1>7. SendsOK(send, entry) /\ FetchOK(fetch, entry)
    BY <1>1, <1>4 DEF SendsOK, FetchOK
  <1> QED BY <1>1, <1>6, <1>7 DEF ProvidersInv

(* Keys are minted under names of their own.                               *)
DistinctRefs == \A p, q \in Provs : MintedRef[p] = MintedRef[q] => p = q

TakesOwnKey ==
    \A p, q \in Provs : p # q /\ p \in Here /\ q \in Here /\ entry'[q] = Absent
        => (entry[p].ref \in keyed => entry'[p].ref \in keyed')

LEMMA StayTakes == AllStay => TakesOwnKey
  BY DEF AllStay, TakesOwnKey, Here

LEMMA RemovalTakes ==
    ASSUME ProvidersInv, NEW p \in Provs, RemoveProvider(p), DistinctRefs PROVE TakesOwnKey
  <1>1. /\ ProvidersInv' /\ p \in Here /\ OthersStay(p, entry, entry') /\ entry'[p] = Absent
        /\ keyed' = IF entry[p].ref = MintedRef[p] THEN keyed \ {MintedRef[p]} ELSE keyed
    BY RemoveProviderKeeps
  <1>2. ASSUME NEW s \in Provs, NEW q \in Provs, s # q, s \in Here, q \in Here, entry'[q] = Absent, entry[s].ref \in keyed
        PROVE  entry'[s].ref \in keyed'
    <2>1. q = p /\ s # p /\ entry[s] # Absent
      BY <1>1, <1>2 DEF OthersStay, Here
    <2>2. entry'[s].ref = entry[s].ref
      BY <1>1, <2>1 DEF OthersStay
    <2>3. entry[s].ref \in NamesOf(s) /\ entry[s].ref \in Refs
      BY <1>2, HereIs DEF EntryIs, ProvidersInv
    <2>4. entry[s].ref # MintedRef[p]
      BY <2>1, <2>3, RefsNamed DEF NamesOf, DistinctRefs
    <2> QED BY <1>1, <1>2, <2>2, <2>4
  <1> QED BY <1>2 DEF TakesOwnKey

LEMMA StepProvidersInv ==
    ASSUME ProvidersInv, [ProvidersNext]_providerVars
    PROVE  ProvidersInv' /\ (AllStay \/ \E p \in Provs : RemoveProvider(p))
  <1>1. ASSUME NEW p \in Provs, NEW ref \in OwnNames \cup {"none"}, NEW k \in BOOLEAN, NEW on \in BOOLEAN,
               Register(p, ref, k, on)
        PROVE  ProvidersInv' /\ AllStay
    BY <1>1, RegisterKeeps
  <1>2. ASSUME NEW p \in Provs, NEW on \in BOOLEAN, Enable(p, on) PROVE ProvidersInv' /\ AllStay
    BY <1>2, EnableKeeps
  <1>3. ASSUME NEW p \in Provs, NEW on \in BOOLEAN, UpdateRefused(p, on) PROVE ProvidersInv' /\ AllStay
    BY <1>3, UpdateRefusedKeeps
  <1>4. ASSUME NEW p \in Provs, SetKey(p) PROVE ProvidersInv' /\ AllStay
    <2>1. ASSUME NEW ref \in OwnNames \cup {MintedRef[p]}, NEW k \in BOOLEAN, SetRef(p, ref, k)
          PROVE  ProvidersInv' /\ AllStay
      BY <2>1, SetRefKeeps, RefsNamed DEF NamesOf
    <2>2. CASE SetRef(p, "none", FALSE)
      BY <2>2, SetRefKeeps DEF NamesOf
    <2> QED BY <1>4, <2>1, <2>2 DEF SetKey
  <1>5. ASSUME NEW p \in Provs, RemoveProvider(p) PROVE ProvidersInv'
    BY <1>5, RemoveProviderKeeps
  <1>6. ASSUME NEW p \in Provs, UpstreamChanges(p) PROVE ProvidersInv' /\ AllStay
    <2>1. UNCHANGED <<entry, keyed, saved, dirty, send, fetch, wanted, torn>> /\ works' \subseteq Provs
      BY <1>6 DEF UpstreamChanges, ProvidersInv
    <2> QED BY <2>1 DEF ProvidersInv, AllStay
  <1>7. ASSUME NEW ref \in Refs, KeyChanges(ref) PROVE ProvidersInv' /\ AllStay
    <2>1. UNCHANGED <<entry, saved, dirty, send, fetch, wanted, torn, works>> /\ keyed' \subseteq Refs
      BY <1>7 DEF KeyChanges, ProvidersInv
    <2> QED BY <2>1 DEF ProvidersInv, AllStay
  <1>8. ASSUME NewDay PROVE ProvidersInv' /\ AllStay
    BY <1>8, NewDayKeeps
  <1>9. ASSUME NEW clean \in BOOLEAN, Close(clean) PROVE ProvidersInv' /\ AllStay
    BY <1>9, CloseKeeps
  <1>10. ASSUME NEW p \in Provs, RefreshModels(p) \/ BackoffOver(p) \/ Read(p) PROVE ProvidersInv' /\ AllStay
    BY <1>10, RefreshModelsKeeps, BackoffOverKeeps, ReadsKeep
  <1>11. ASSUME NEW p \in Provs, NEW a \in {"list", "401", "bad"}, ModelsAnswered(p, a) PROVE ProvidersInv' /\ AllStay
    BY <1>11, ModelsAnsweredKeeps
  <1>12. ASSUME NEW r \in Sends, NEW p \in Provs, Prepare(r, p) PROVE ProvidersInv' /\ AllStay
    BY <1>12, PrepareKeeps
  <1>13. ASSUME NEW r \in Sends, Send(r) \/ Retry(r) \/ Streams(r) \/ Abandoned(r) PROVE ProvidersInv' /\ AllStay
    BY <1>13, SendKeeps, RetryKeeps, StreamsKeeps, AbandonedKeeps
  <1>14. ASSUME NEW r \in Sends, NEW o \in {"down", "429", "401", "4xx"}, Failed(r, o) PROVE ProvidersInv' /\ AllStay
    BY <1>14, FailedKeeps
  <1>15. ASSUME NEW r \in Sends, NEW due \in BOOLEAN, Completed(r, due) PROVE ProvidersInv' /\ AllStay
    BY <1>15, CompletedKeeps
  <1>16. CASE UNCHANGED providerVars
    BY <1>16 DEF providerVars, ProvidersInv, AllStay
  <1>17. CASE ProvidersOperator
    BY <1>17, <1>1, <1>2, <1>3, <1>4, <1>5, <1>6, <1>7, <1>8, <1>9 DEF ProvidersOperator
  <1>18. CASE ProvidersStep
    BY <1>18, <1>10, <1>11, <1>12, <1>13, <1>14, <1>15 DEF ProvidersStep
  <1> QED BY <1>16, <1>17, <1>18 DEF ProvidersNext

LEMMA ProvidersAreFine ==
    ProvidersInv => ProvidersTypeOK /\ OutstandingExact /\ OperatorsWord /\ OverspendBounded /\ SpendAccounted
  <1> SUFFICES ASSUME ProvidersInv
               PROVE  ProvidersTypeOK /\ OutstandingExact /\ OperatorsWord /\ OverspendBounded /\ SpendAccounted
    OBVIOUS
  <1>1. Books(entry, saved, dirty, send, wanted, torn)
    BY DEF ProvidersInv
  <1>2. ASSUME NEW p \in Provs, entry[p] # Absent
        PROVE  /\ EntryIs(p, entry[p], send, wanted, torn) /\ entry[p] \in Entries
               /\ saved[p] # Absent /\ FileIs(p, saved[p], wanted, torn)
               /\ ~dirty => saved[p].spend = entry[p].spend
    <2>1. /\ EntryIs(p, entry[p], send, wanted, torn) /\ entry[p] \in EntryRecords
          /\ saved[p] # Absent /\ FileIs(p, saved[p], wanted, torn) /\ (~dirty => saved[p].spend = entry[p].spend)
      BY <1>1, <1>2 DEF Books, EntryIs
    <2>2. Cardinality(Using(send, p)) \in 0 .. Cardinality(Sends) /\ Cardinality(OutOn(send, p)) \in 0 .. Cardinality(Sends)
      BY SetsFinite
    <2>3. entry[p].spend \in 0 .. Budget + Cardinality(Sends)
      <3>1. entry[p].spend \in Nat /\ entry[p].spend + Cardinality(Using(send, p)) <= Most
        BY <2>1 DEF EntryIs, EntryRecords
      <3> QED BY <2>2, <3>1, MostIs DEF Most
    <2>4. entry[p].outstanding \in 0 .. Cardinality(Sends)
      BY <2>1, <2>2 DEF EntryIs
    <2>5. entry[p] \in Entries
      BY <2>1, <2>3, <2>4 DEF EntryRecords, Entries
    <2> QED BY <2>1, <2>5
  <1>3. ASSUME NEW p \in Provs, saved[p] # Absent PROVE saved[p] \in OnFileRecords
    <2>1. FileIs(p, saved[p], wanted, torn) /\ saved[p] \in FileRecords /\ saved[p].spend <= Most
      BY <1>1, <1>3 DEF Books, FileIs
    <2>2. saved[p].spend \in 0 .. Budget + Cardinality(Sends)
      BY <2>1, MostIs DEF Most, FileRecords
    <2> QED BY <2>1, <2>2 DEF FileRecords, OnFileRecords
  <1>4. ProvidersTypeOK
    <2>1. entry \in [Provs -> Entries \cup {Absent}] /\ saved \in [Provs -> OnFileRecords \cup {Absent}] /\ dirty \in BOOLEAN
      BY <1>1, <1>2, <1>3 DEF Books
    <2> QED BY <2>1 DEF ProvidersTypeOK, ProvidersInv, SendsOK, SendRecords, FetchOK
  <1>5. OutstandingExact
    BY <1>2 DEF OutstandingExact, Here, EntryIs, OutOn
  <1>6. OperatorsWord
    BY <1>2 DEF OperatorsWord, Here, EntryIs
  <1>7. OverspendBounded
    BY <1>2 DEF OverspendBounded, Here, EntryIs, Using, Most
  <1>8. SpendAccounted
    BY <1>1, <1>2 DEF SpendAccounted, Here, Books
  <1> QED BY <1>4, <1>5, <1>6, <1>7, <1>8

(* The providers keep their promise for any number of providers, requests, *)
(* references, retries and any budget, however requests, refreshes,        *)
(* patches, removals and restarts interleave (providers/service.py).  It   *)
(* takes that no two providers have a key minted under one name, which     *)
(* minted_ref() does not see to for ids that an operator has chosen.       *)
THEOREM ProvidersKeepTheirPromise == ASSUME DistinctRefs PROVE ProvidersSpec => ProvidersPromise
  <1>1. ProvidersInit => ProvidersInv
    BY InitProvidersInv
  <1>2. ProvidersInv /\ [ProvidersNext]_providerVars => ProvidersInv'
    BY StepProvidersInv
  <1>3. ProvidersInv /\ [ProvidersNext]_providerVars
            => [\A p, q \in Provs : p # q /\ p \in Here /\ q \in Here /\ entry'[q] = Absent
                    => (entry[p].ref \in keyed => entry'[p].ref \in keyed')]_providerVars
    <2> SUFFICES ASSUME ProvidersInv, [ProvidersNext]_providerVars PROVE TakesOwnKey
      BY DEF TakesOwnKey
    <2> QED BY StepProvidersInv, StayTakes, RemovalTakes
  <1> QED BY <1>1, <1>2, <1>3, ProvidersAreFine, PTL DEF ProvidersSpec, ProvidersPromise, OwnKeysOnly

----------------------------------------------------------------------------
(***************************************************************************)
(* Retention.                                                              *)
(***************************************************************************)

(* Multiples and the times they divide.                                    *)
Multiple(x, step) == \E k \in Nat : x = k * step

LEMMA RemainderIs ==
    ASSUME NEW x \in Nat, NEW step \in Nat \ {0}
    PROVE  /\ x \div step \in Nat /\ x % step \in 0 .. step - 1
           /\ x = (x \div step) * step + (x % step)
  OBVIOUS

LEMMA FloorIs ==
    ASSUME NEW x \in Nat, NEW step \in Nat \ {0}
    PROVE  /\ Floor(x, step) \in Nat /\ Floor(x, step) <= x /\ x < Floor(x, step) + step
           /\ Multiple(Floor(x, step), step)
  <1> DEFINE q == x \div step  r == x % step
  <1>1. q \in Nat /\ r \in 0 .. step - 1 /\ x = q * step + r
    BY RemainderIs
  <1>2. Floor(x, step) = q * step
    BY DEF Floor
  <1> HIDE DEF q, r
  <1>3. q * step \in Nat
    BY <1>1
  <1>4. Multiple(q * step, step)
    BY <1>1 DEF Multiple
  <1> QED BY <1>1, <1>2, <1>3, <1>4

LEMMA TimesKeepsOrder ==
    ASSUME NEW k \in Nat, NEW l \in Nat, NEW step \in Nat, k <= l PROVE k * step <= l * step
  <1> DEFINE d == l - k
  <1>1. d \in Nat /\ l = k + d
    OBVIOUS
  <1> HIDE DEF d
  <1>2. l * step = k * step + d * step
    BY <1>1
  <1>3. d * step \in Nat /\ k * step \in Nat
    BY <1>1
  <1> QED BY <1>2, <1>3

LEMMA NextMultiple ==
    ASSUME NEW step \in Nat \ {0}, NEW x, NEW y, Multiple(x, step), Multiple(y, step), x < y
    PROVE  x + step <= y
  <1>1. PICK k \in Nat : x = k * step
    BY DEF Multiple
  <1>2. PICK l \in Nat : y = l * step
    BY DEF Multiple
  <1>3. ~(l <= k)
    <2>1. x \in Nat /\ y \in Nat
      BY <1>1, <1>2
    <2>2. l <= k => y <= x
      BY <1>1, <1>2, TimesKeepsOrder
    <2> QED BY <2>1, <2>2
  <1>4. k + 1 \in Nat /\ k + 1 <= l
    BY <1>3
  <1>5. (k + 1) * step <= l * step
    BY <1>4, TimesKeepsOrder
  <1>6. (k + 1) * step = k * step + step
    OBVIOUS
  <1> QED BY <1>1, <1>2, <1>5, <1>6

LEMMA MultipleIsNat == ASSUME NEW step \in Nat \ {0}, NEW x, Multiple(x, step) PROVE x \in Nat
  BY DEF Multiple

LEMMA FloorGreatest ==
    ASSUME NEW step \in Nat \ {0}, NEW x, Multiple(x, step), NEW y \in Nat, x <= y
    PROVE  x <= Floor(y, step)
  <1> DEFINE f == Floor(y, step)
  <1>1. f \in Nat /\ y < f + step /\ Multiple(f, step) /\ x \in Nat
    BY FloorIs, MultipleIsNat
  <1> HIDE DEF f
  <1>2. f < x => f + step <= x
    BY <1>1, NextMultiple
  <1> QED BY <1>1, <1>2 DEF f

LEMMA MultiplePlus ==
    ASSUME NEW step \in Nat \ {0}, NEW x, Multiple(x, step) PROVE Multiple(x + step, step)
  <1>1. PICK k \in Nat : x = k * step
    BY DEF Multiple
  <1>2. (k + 1) * step = k * step + step /\ k + 1 \in Nat
    OBVIOUS
  <1> QED BY <1>1, <1>2 DEF Multiple

LEMMA BucketsAre ==
    ASSUME NEW step \in Nat \ {0}
    PROVE  /\ \A b \in Buckets(step) : b \in 0 .. MaxNow /\ Multiple(b, step)
           /\ \A b \in 0 .. MaxNow : Multiple(b, step) => b \in Buckets(step)
  <1>1. ASSUME NEW b \in Buckets(step) PROVE b \in 0 .. MaxNow /\ Multiple(b, step)
    <2>1. b \in Nat /\ b \in 0 .. MaxNow /\ b % step = 0
      BY HorizonsAssumption DEF Buckets
    <2>2. b = (b \div step) * step + 0 /\ b \div step \in Nat
      BY <2>1, RemainderIs
    <2>3. b = (b \div step) * step
      BY <2>2
    <2> QED BY <2>1, <2>2, <2>3 DEF Multiple
  <1>2. ASSUME NEW b \in 0 .. MaxNow, Multiple(b, step) PROVE b \in Buckets(step)
    <2>1. b \in Nat
      BY HorizonsAssumption
    <2> DEFINE f == Floor(b, step)
    <2>2. f \in Nat /\ f <= b /\ b < f + step
      BY <2>1, FloorIs
    <2>3. b <= f
      BY <1>2, <2>1, FloorGreatest
    <2> HIDE DEF f
    <2>4. f = b
      BY <2>1, <2>2, <2>3
    <2>5. (b \div step) * step = b
      BY <2>4 DEF f, Floor
    <2> DEFINE q == b \div step  r == b % step
    <2>6. q * step = b /\ r \in 0 .. step - 1 /\ b = q * step + r
      BY <2>1, <2>5, RemainderIs
    <2> HIDE DEF q, r
    <2>7. r = 0
      BY <2>6, <2>1
    <2> QED BY <2>7 DEF Buckets, r
  <1> QED BY <1>1, <1>2

(* An hour is a number of minutes, so its multiples are theirs.            *)
LEMMA HourIs ==
    /\ Hour \div Minute \in Nat \ {0} /\ Hour = (Hour \div Minute) * Minute
    /\ \A x : Multiple(x, Hour) => Multiple(x, Minute)
  <1> DEFINE q == Hour \div Minute
  <1>1. Hour \in Nat \ {0} /\ Minute \in Nat \ {0} /\ Hour % Minute = 0
    BY StepsNest
  <1>2. q \in Nat /\ Hour = q * Minute
    BY <1>1, RemainderIs
  <1> HIDE DEF q
  <1>3. q # 0
    BY <1>1, <1>2
  <1>4. ASSUME NEW x, Multiple(x, Hour) PROVE Multiple(x, Minute)
    <2>1. PICK k \in Nat : x = k * Hour
      BY <1>4 DEF Multiple
    <2>2. x = (k * q) * Minute
      BY <1>1, <1>2, <2>1
    <2>3. k * q \in Nat
      BY <1>2
    <2> QED BY <2>2, <2>3 DEF Multiple
  <1> QED BY <1>2, <1>3, <1>4 DEF q

(* What a table of rollups owes the samples, at any moment: its closed     *)
(* buckets count what is there, except those that a row has been ingested  *)
(* into since the mark was taken and those that the pass under way is yet  *)
(* to write.                                                               *)
Awaits(b, step, mark, comp) ==
    (mark # 0 /\ b + step > mark) \/ (comp # NotCompacting /\ b + step > comp)
Counted(rows, step, ss, gone, mark, comp, rolled, t) ==
    \A b \in Buckets(step) :
        /\ b + step <= Floor(rolled, step) /\ In(gone, b, step) = {} /\ b >= t - MinuteKeep
        /\ ~Awaits(b, step, mark, comp)
        => rows[b] = Cardinality(In(ss, b, step))
(* And a row that is not 0 has had something under it.                     *)
Backed(rows, step, ss, gone) ==
    \A b \in Buckets(step) : rows[b] # 0 => In(ss \cup gone, b, step) # {}

Steps == {Minute, Hour}
LEMMA StepsAre ==
    /\ Steps \subseteq Nat \ {0}
    /\ \A step \in Steps : \A x : Multiple(x, Hour) => Multiple(x, step)
  BY StepsNest, HourIs DEF Steps

LEMMA BackedGrows ==
    ASSUME NEW rows, NEW step, NEW ss, NEW gone, NEW ss2, NEW gone2,
           Backed(rows, step, ss, gone), ss \cup gone \subseteq ss2 \cup gone2
    PROVE  Backed(rows, step, ss2, gone2)
  BY DEF Backed, In

(* A row arrives and is marked.                                            *)
LEMMA CountedIngest ==
    ASSUME NEW rows, NEW step \in Steps, NEW ss, NEW gone, NEW mark \in Nat, NEW comp, NEW rolled, NEW t,
           NEW ts \in Nat \ {0}, NEW mark2 \in Nat \ {0}, mark2 <= ts, mark # 0 => mark2 <= mark,
           NEW ss2, ss2 \subseteq ss \cup {ts}, ss \subseteq ss2,
           Counted(rows, step, ss, gone, mark, comp, rolled, t)
    PROVE  Counted(rows, step, ss2, gone, mark2, comp, rolled, t)
  <1> SUFFICES ASSUME NEW b \in Buckets(step),
                      b + step <= Floor(rolled, step), In(gone, b, step) = {}, b >= t - MinuteKeep,
                      ~Awaits(b, step, mark2, comp)
               PROVE  rows[b] = Cardinality(In(ss2, b, step))
    BY DEF Counted
  <1>1. step \in Nat \ {0} /\ b \in Nat
    BY StepsAre, BucketsAre, HorizonsAssumption
  <1>2. b + step <= mark2
    BY <1>1 DEF Awaits
  <1>3. ~Awaits(b, step, mark, comp)
    BY <1>1, <1>2 DEF Awaits
  <1>4. rows[b] = Cardinality(In(ss, b, step))
    BY <1>3 DEF Counted
  <1>5. ~(ts < b + step)
    BY <1>1, <1>2
  <1>6. In(ss2, b, step) = In(ss, b, step)
    BY <1>5 DEF In
  <1> QED BY <1>4, <1>6

(* The mark is taken: what it is about is before the pass's first bucket.  *)
LEMMA CountedTaken ==
    ASSUME NEW rows, NEW step \in Steps, NEW ss, NEW gone, NEW mark \in Nat, NEW comp \in Nat, NEW rolled, NEW t,
           mark # 0 => comp <= mark, Counted(rows, step, ss, gone, mark, NotCompacting, rolled, t)
    PROVE  Counted(rows, step, ss, gone, 0, comp, rolled, t)
  <1> SUFFICES ASSUME NEW b \in Buckets(step),
                      b + step <= Floor(rolled, step), In(gone, b, step) = {}, b >= t - MinuteKeep,
                      ~Awaits(b, step, 0, comp)
               PROVE  rows[b] = Cardinality(In(ss, b, step))
    BY DEF Counted
  <1>1. step \in Nat \ {0} /\ b \in Nat
    BY StepsAre, BucketsAre, HorizonsAssumption
  <1>2. comp # NotCompacting
    BY DEF NotCompacting
  <1>3. b + step <= comp
    BY <1>1, <1>2 DEF Awaits
  <1>4. ~Awaits(b, step, mark, NotCompacting)
    BY <1>1, <1>3 DEF Awaits
  <1> QED BY <1>4 DEF Counted

LEMMA CountedLater ==
    ASSUME NEW rows, NEW step \in Steps, NEW ss, NEW gone, NEW mark, NEW comp, NEW rolled, NEW t \in Nat,
           Counted(rows, step, ss, gone, mark, comp, rolled, t)
    PROVE  Counted(rows, step, ss, gone, mark, comp, rolled, t + 1)
  <1>1. \A b \in Buckets(step) : b \in Nat
    BY StepsAre, BucketsAre, HorizonsAssumption
  <1>2. \A b \in Buckets(step) : b >= (t + 1) - MinuteKeep => b >= t - MinuteKeep
    BY <1>1, HorizonsAssumption
  <1> QED BY <1>2 DEF Counted

(* The pass writes every bucket that has closed from its first one on, and *)
(* rows go: those that are too old and those that do not fit.  What it     *)
(* found in a bucket, Value, is right where nothing is missing.            *)
Written(rows, step, Value, comp, rolled) ==
    [b \in Buckets(step) |->
        IF comp <= b /\ b + step <= Floor(rolled, step) /\ Value[b] > 0 THEN Value[b] ELSE rows[b]]
Expired(rows, step, keep, t) == [b \in Buckets(step) |-> IF b < t - keep THEN 0 ELSE rows[b]]

LEMMA CountedWritten ==
    ASSUME NEW step \in Steps, NEW rows \in [Buckets(step) -> Nat], NEW Value \in [Buckets(step) -> Nat],
           NEW ss, IsFiniteSet(ss), NEW gone, NEW mark \in Nat, NEW comp \in Nat, NEW before \in Nat, NEW rolled \in Nat,
           NEW t \in Nat, NEW keep \in Nat, MinuteKeep <= keep,
           Multiple(comp, Hour), comp <= before,
           Counted(rows, step, ss, gone, mark, comp, before, t), Backed(rows, step, ss, gone),
           \A b \in Buckets(step) : comp <= b /\ b + step <= Floor(rolled, step) /\ In(gone, b, step) = {}
                => Value[b] = Cardinality(In(ss, b, step)),
           NEW left, left \subseteq ss, NEW gone2, gone2 = gone \cup (ss \ left)
    PROVE  Counted(Expired(Written(rows, step, Value, comp, rolled), step, keep, t), step, left, gone2, mark,
                   NotCompacting, rolled, t)
  <1> DEFINE new == Expired(Written(rows, step, Value, comp, rolled), step, keep, t)
  <1> SUFFICES ASSUME NEW b \in Buckets(step),
                      b + step <= Floor(rolled, step), In(gone2, b, step) = {}, b >= t - MinuteKeep,
                      ~Awaits(b, step, mark, NotCompacting)
               PROVE  new[b] = Cardinality(In(left, b, step))
    BY DEF Counted
  <1>1. step \in Nat \ {0} /\ b \in Nat /\ Multiple(b, step) /\ Multiple(comp, step)
    BY StepsAre, BucketsAre, HorizonsAssumption
  <1>2. In(gone, b, step) = {} /\ In(left, b, step) = In(ss, b, step)
    BY DEF In
  <1>3. ~(b < t - keep)
    BY <1>1, HorizonsAssumption
  <1>4. new[b] = Written(rows, step, Value, comp, rolled)[b]
    BY <1>3 DEF Expired
  <1> HIDE DEF new
  <1>5. CASE comp <= b
    <2>1. Value[b] = Cardinality(In(ss, b, step)) /\ Value[b] \in Nat
      BY <1>2, <1>5
    <2>2. CASE Value[b] > 0
      BY <1>2, <1>4, <1>5, <2>1, <2>2 DEF Written
    <2>3. CASE Value[b] = 0
      <3>1. IsFiniteSet(In(ss, b, step))
        BY FS_Subset DEF In
      <3>2. In(ss, b, step) = {}
        BY <2>1, <2>3, <3>1, FS_EmptySet
      <3>3. In(ss \cup gone, b, step) = {}
        BY <1>2, <3>2 DEF In
      <3>4. rows[b] = 0
        BY <3>3 DEF Backed
      <3>5. ~(Value[b] > 0)
        BY <2>3
      <3>6. new[b] = rows[b]
        BY <1>4, <3>5 DEF Written
      <3> QED BY <1>2, <2>1, <2>3, <3>4, <3>6
    <2> QED BY <2>1, <2>2, <2>3
  <1>6. CASE ~(comp <= b)
    <2>1. new[b] = rows[b]
      BY <1>4, <1>6 DEF Written
    <2>2. b < comp
      BY <1>1, <1>6
    <2>3. b + step <= comp
      BY <1>1, <2>2, NextMultiple
    <2>4. Multiple(b + step, step) /\ b + step <= before
      BY <1>1, <2>3, MultiplePlus
    <2>5. b + step <= Floor(before, step)
      BY <1>1, <2>4, FloorGreatest
    <2>6. ~Awaits(b, step, mark, comp)
      BY <1>1, <2>3 DEF Awaits
    <2>7. rows[b] = Cardinality(In(ss, b, step))
      BY <1>2, <2>5, <2>6 DEF Counted
    <2> QED BY <1>2, <2>1, <2>7
  <1> QED BY <1>5, <1>6

LEMMA BackedWritten ==
    ASSUME NEW step \in Steps, NEW rows \in [Buckets(step) -> Nat], NEW Value \in [Buckets(step) -> Nat],
           NEW ss, NEW gone, NEW comp, NEW rolled, Backed(rows, step, ss, gone),
           \A b \in Buckets(step) : comp <= b /\ b + step <= Floor(rolled, step) /\ Value[b] > 0
               => In(ss \cup gone, b, step) # {}
    PROVE  /\ Written(rows, step, Value, comp, rolled) \in [Buckets(step) -> Nat]
           /\ Backed(Written(rows, step, Value, comp, rolled), step, ss, gone)
  BY DEF Written, Backed

LEMMA BackedExpired ==
    ASSUME NEW step, NEW rows \in [Buckets(step) -> Nat], NEW keep, NEW t, NEW ss, NEW gone,
           Backed(rows, step, ss, gone)
    PROVE  /\ Expired(rows, step, keep, t) \in [Buckets(step) -> Nat]
           /\ Backed(Expired(rows, step, keep, t), step, ss, gone)
  BY DEF Expired, Backed

----------------------------------------------------------------------------
(* An hour's row is the sum of its minutes'.                               *)
RowAt(rows, b, n) == IF b + (n - 1) * Minute \in DOMAIN rows THEN rows[b + (n - 1) * Minute] ELSE 0
SumsIn(f, rows, b) ==
    f = [n \in 0 .. Hour \div Minute |->
            IF n = 0 THEN 0
            ELSE f[n - 1] + (IF b + (n - 1) * Minute \in DOMAIN rows THEN rows[b + (n - 1) * Minute] ELSE 0)]
Sums(rows, b) == CHOOSE f : SumsIn(f, rows, b)

LEMMA MinutesUnfold == ASSUME NEW rows, NEW b PROVE SumMinutes(rows, b) = Sums(rows, b)[Hour \div Minute]
  BY DEF SumMinutes, Sums, SumsIn

LEMMA SumsAre ==
    ASSUME NEW rows, NEW b, \A n \in Nat : RowAt(rows, b, n) \in Nat
    PROVE  /\ Sums(rows, b)[0] = 0
           /\ \A n \in 1 .. Hour \div Minute : Sums(rows, b)[n] = Sums(rows, b)[n - 1] + RowAt(rows, b, n)
  <1> DEFINE L == Hour \div Minute
             G == [k \in 1 .. L |-> [v \in Nat |-> v + RowAt(rows, b, k)]]
             a == Sums(rows, b)
  <1>1. L \in Nat
    BY HourIs
  <1>2. \A k \in 1 .. L : RowAt(rows, b, k) \in Nat
    BY <1>1
  <1>3. G \in [1 .. L -> [Nat -> Nat]]
    <2> HIDE DEF L
    <2> QED BY <1>2
  <1>4. \A k \in 1 .. L, v \in Nat : G[k][v] = v + RowAt(rows, b, k)
    OBVIOUS
  <1> HIDE DEF G
  <1>5. PICK f : Follows(f, L, Nat, 0, G)
    <2> HIDE DEF L
    <2> QED BY <1>1, <1>3, RecursionHolds
  <1>6. SumsIn(f, rows, b)
    <2>1. f \in [0 .. L -> Nat] /\ f[0] = 0 /\ \A k \in 1 .. L : f[k] = G[k][f[k - 1]]
      <3> HIDE DEF L
      <3> QED BY <1>5 DEF Follows
    <2>2. \A k \in 1 .. L : f[k - 1] \in Nat
      <3> HIDE DEF L
      <3> QED BY <1>1, <2>1
    <2>3. \A k \in 1 .. L : f[k] = f[k - 1] + RowAt(rows, b, k)
      <3> HIDE DEF L
      <3> QED BY <1>4, <2>1, <2>2
    <2>4. \A k \in 0 .. L : f[k] = IF k = 0 THEN 0 ELSE f[k - 1] + RowAt(rows, b, k)
      <3> HIDE DEF L
      <3>1. \A k \in 0 .. L : k = 0 \/ (k # 0 /\ k \in 1 .. L)
        BY <1>1
      <3> QED BY <3>1, <2>1, <2>3
    <2>5. f = [k \in 0 .. L |-> IF k = 0 THEN 0 ELSE f[k - 1] + RowAt(rows, b, k)]
      <3> HIDE DEF L
      <3> QED BY <2>1, <2>4
    <2> QED BY <2>5 DEF SumsIn, RowAt
  <1>7. SumsIn(a, rows, b)
    <2> HIDE DEF SumsIn
    <2> QED BY <1>6 DEF Sums
  <1> HIDE DEF a
  <1>8. \A k \in 0 .. L : a[k] = IF k = 0 THEN 0 ELSE a[k - 1] + RowAt(rows, b, k)
    BY <1>7 DEF SumsIn, RowAt
  <1>9. a[0] = 0 /\ \A k \in 1 .. L : a[k] = a[k - 1] + RowAt(rows, b, k)
    <2> HIDE DEF L
    <2> QED BY <1>1, <1>8
  <1> QED BY <1>9 DEF a, L

LEMMA SumIsNat ==
    ASSUME NEW rows, NEW b, \A n \in Nat : RowAt(rows, b, n) \in Nat
    PROVE  SumMinutes(rows, b) \in Nat
  <1> DEFINE L == Hour \div Minute  a == Sums(rows, b)
  <1>1. L \in Nat
    BY HourIs
  <1>2. a[0] = 0 /\ \A k \in 1 .. L : a[k] = a[k - 1] + RowAt(rows, b, k)
    BY SumsAre
  <1>3. \A k \in 1 .. L : RowAt(rows, b, k) \in Nat
    BY <1>1
  <1> HIDE DEF L, a
  <1>4. \A k \in 0 .. L : a[k] \in Nat
    <2>1. \A k \in 1 .. L : a[k - 1] \in Nat => a[k] \in Nat
      BY <1>2, <1>3
    <2>2. a[0] \in Nat
      BY <1>2
    <2> QED BY <1>1, <2>1, <2>2, Along
  <1>5. a[L] \in Nat
    BY <1>1, <1>4
  <1> QED BY <1>5, MinutesUnfold DEF a, L

(* If every minute's row counts its samples, so does the sum.              *)
LEMMA SumCounts ==
    ASSUME NEW ss, IsFiniteSet(ss), ss \subseteq Nat, NEW rows, NEW b \in Nat,
           \A n \in 1 .. Hour \div Minute :
               RowAt(rows, b, n) = Cardinality(In(ss, b + (n - 1) * Minute, Minute)),
           \A n \in Nat : RowAt(rows, b, n) \in Nat
    PROVE  SumMinutes(rows, b) = Cardinality(In(ss, b, Hour))
  <1> DEFINE L == Hour \div Minute  a == Sums(rows, b)
             Upto(n) == {t \in ss : b <= t /\ t < b + n * Minute}
             X == {n \in Nat : n <= L => a[n] = Cardinality(Upto(n))}
  <1>1. L \in Nat /\ Hour = L * Minute /\ Minute \in Nat \ {0}
    BY HourIs, StepsNest
  <1>2. a[0] = 0 /\ \A k \in 1 .. L : a[k] = a[k - 1] + RowAt(rows, b, k)
    BY SumsAre
  <1>t. \A t \in ss : t \in Nat
    OBVIOUS
  <1>3. 0 \in X
    <2>0. b + 0 * Minute = b
      BY <1>1
    <2>a. \A t \in ss : ~(b <= t /\ t < b)
      BY <1>t
    <2>b. Upto(0) = {t \in ss : b <= t /\ t < b}
      BY <2>0
    <2>1. Upto(0) = {}
      BY <2>a, <2>b
    <2> HIDE DEF a, L, Upto
    <2> QED BY <1>2, <2>1, FS_EmptySet
  <1>4. ASSUME NEW n \in Nat, n \in X PROVE n + 1 \in X
    <2> SUFFICES ASSUME n + 1 <= L PROVE a[n + 1] = Cardinality(Upto(n + 1))
      OBVIOUS
    <2> DEFINE c == b + n * Minute  bucket == In(ss, c, Minute)
    <2>1. n + 1 \in 1 .. L /\ (n + 1) - 1 = n /\ n <= L
      BY <1>1
    <2>2. a[n] = Cardinality(Upto(n))
      BY <1>4, <2>1
    <2>3. a[n + 1] = a[n] + Cardinality(bucket)
      <3>1. a[n + 1] = a[n] + RowAt(rows, b, n + 1)
        <4> HIDE DEF a, L
        <4> QED BY <1>2, <2>1
      <3>2. RowAt(rows, b, n + 1) = Cardinality(In(ss, b + ((n + 1) - 1) * Minute, Minute))
        BY <2>1
      <3> QED BY <3>1, <3>2, <2>1
    <2>4. c \in Nat /\ b + (n + 1) * Minute = c + Minute /\ b <= c
      BY <1>1
    <2>5. Upto(n + 1) = {t \in ss : b <= t /\ t < c + Minute} /\ Upto(n) = {t \in ss : b <= t /\ t < c}
      BY <2>4
    <2> HIDE DEF c, Upto, a, L
    <2>6. Upto(n + 1) = Upto(n) \cup bucket /\ Upto(n) \cap bucket = {}
      <3>1. \A t \in ss : /\ b <= t /\ t < c + Minute <=> (b <= t /\ t < c) \/ (c <= t /\ t < c + Minute)
                          /\ ~(t < c /\ c <= t)
        BY <1>1, <1>t, <2>4
      <3> QED BY <2>5, <3>1 DEF In
    <2>7. IsFiniteSet(Upto(n)) /\ IsFiniteSet(bucket)
      BY <2>5, FS_Subset DEF In
    <2>8. Cardinality(Upto(n + 1)) = Cardinality(Upto(n)) + Cardinality(bucket) - Cardinality(Upto(n) \cap bucket)
      BY <2>6, <2>7, FS_Union
    <2>9. Cardinality(Upto(n) \cap bucket) = 0 /\ Cardinality(Upto(n)) \in Nat /\ Cardinality(bucket) \in Nat
      BY <2>6, <2>7, FS_EmptySet, FS_CardinalityType
    <2> QED BY <2>2, <2>3, <2>8, <2>9
  <1>5. L \in X
    <2> HIDE DEF X, L
    <2> QED BY <1>1, <1>3, <1>4, InductiveSet
  <1>6. a[L] = Cardinality(Upto(L))
    <2> HIDE DEF L, a, Upto
    <2>1. L <= L
      BY <1>1
    <2> QED BY <1>5, <2>1
  <1>7. Upto(L) = In(ss, b, Hour)
    <2> HIDE DEF L
    <2> QED BY <1>1 DEF In
  <1> QED BY <1>6, <1>7, MinutesUnfold

(* A sum of nothing but zeros is zero.                                     *)
LEMMA SumOfNothing ==
    ASSUME NEW rows, NEW b, \A n \in 1 .. Hour \div Minute : RowAt(rows, b, n) = 0,
           \A n \in Nat : RowAt(rows, b, n) \in Nat
    PROVE  SumMinutes(rows, b) = 0
  <1> DEFINE L == Hour \div Minute  a == Sums(rows, b)
  <1>1. L \in Nat
    BY HourIs
  <1>2. a[0] = 0 /\ \A k \in 1 .. L : a[k] = a[k - 1] + RowAt(rows, b, k)
    BY SumsAre
  <1>3. \A k \in 1 .. L : RowAt(rows, b, k) = 0
    OBVIOUS
  <1> HIDE DEF L, a
  <1>4. \A k \in 0 .. L : a[k] \in {0}
    <2>1. \A k \in 1 .. L : a[k - 1] \in {0} => a[k] \in {0}
      BY <1>2, <1>3
    <2>2. a[0] \in {0}
      BY <1>2
    <2> QED BY <1>1, <2>1, <2>2, Along
  <1>5. a[L] = 0
    BY <1>1, <1>4
  <1> QED BY <1>5, MinutesUnfold DEF a, L

----------------------------------------------------------------------------
(* The invariant.                                                          *)
Gaps == {<<a, Floor(a, Day) + Day>> : a \in Nat}
RetentionTypes ==
    /\ now \in Nat /\ now <= MaxNow
    /\ samples \subseteq Nat \ {0} /\ requests \subseteq Nat
    /\ \A t \in samples : t <= now
    /\ dropped \subseteq Nat
    /\ dirtyFrom \in Nat
    /\ perMinute \in [Buckets(Minute) -> Nat] /\ perHour \in [Buckets(Hour) -> Nat]
    /\ gaps \subseteq Gaps
    /\ compaction \in Nat \cup {NotCompacting}
    /\ lastPass \in Nat /\ lastPass <= now /\ rolledTo \in Nat
    /\ evicted \subseteq Nat \X {"sample", "request"}
    /\ broke \in BOOLEAN

(* Passes follow each other closely enough: what the last one left to roll *)
(* is in the window of the next.                                           *)
PassesTogether ==
    /\ compaction # NotCompacting => lastPass = now /\ Multiple(compaction, Hour)
    /\ ~broke => IF compaction = NotCompacting
                 THEN now <= lastPass + Interval /\ rolledTo = IF lastPass > Lag THEN lastPass - Lag ELSE 0
                 ELSE compaction <= rolledTo /\ rolledTo <= RollTo
BothBacked ==
    Backed(perMinute, Minute, samples, dropped) /\ Backed(perHour, Hour, samples, dropped)
BothCounted ==
    ~broke => /\ Counted(perMinute, Minute, samples, dropped, dirtyFrom, compaction, rolledTo, now)
              /\ Counted(perHour, Hour, samples, dropped, dirtyFrom, compaction, rolledTo, now)

RetentionInv == RetentionTypes /\ PassesTogether /\ BothBacked /\ BothCounted /\ EvictionNoted

(* How far apart passes may be.                                            *)
PassesInTime == Interval + Lag <= Window

Numbers == /\ {Minute, Hour, Day} \subseteq Nat \ {0}
           /\ {Lag, Window, GapKeep, MinuteKeep, HourKeep} \subseteq Nat
           /\ {Interval, MaxNow} \subseteq Nat \ {0}
LEMMA NumbersAre == Numbers
  BY StepsNest, HorizonsAssumption DEF Numbers

LEMMA InvAgrees == RetentionInv => RollupsAgree
  <1> SUFFICES ASSUME RetentionInv, dirtyFrom = 0, compaction = NotCompacting, ~broke PROVE
        /\ \A b \in Buckets(Minute) : Closed(b, Minute) /\ Whole(b, Minute) /\ Kept(b, MinuteKeep)
              => perMinute[b] = Cardinality(In(samples, b, Minute))
        /\ \A b \in Buckets(Hour) : Closed(b, Hour) /\ Whole(b, Hour) /\ Kept(b, MinuteKeep)
              => perHour[b] = Cardinality(In(samples, b, Hour))
    BY DEF RollupsAgree
  <1>1. \A b, step : ~Awaits(b, step, dirtyFrom, compaction)
    BY DEF Awaits
  <1>2. /\ Counted(perMinute, Minute, samples, dropped, dirtyFrom, compaction, rolledTo, now)
        /\ Counted(perHour, Hour, samples, dropped, dirtyFrom, compaction, rolledTo, now)
    BY DEF RetentionInv, BothCounted
  <1>3. ASSUME NEW b \in Buckets(Minute), Closed(b, Minute), Whole(b, Minute), Kept(b, MinuteKeep)
        PROVE  perMinute[b] = Cardinality(In(samples, b, Minute))
    BY <1>1, <1>2, <1>3 DEF Counted, Closed, Whole, Kept
  <1>4. ASSUME NEW b \in Buckets(Hour), Closed(b, Hour), Whole(b, Hour), Kept(b, MinuteKeep)
        PROVE  perHour[b] = Cardinality(In(samples, b, Hour))
    BY <1>1, <1>2, <1>4 DEF Counted, Closed, Whole, Kept
  <1> QED BY <1>3, <1>4

LEMMA RetentionStarts == RetentionInit => RetentionInv
  <1> SUFFICES ASSUME RetentionInit PROVE RetentionInv
    OBVIOUS
  <1>1. RetentionTypes
    <2>1. now \in Nat /\ now <= MaxNow
      BY NumbersAre DEF RetentionInit, Numbers
    <2>2. perMinute \in [Buckets(Minute) -> Nat] /\ perHour \in [Buckets(Hour) -> Nat]
      BY DEF RetentionInit
    <2>3. lastPass \in Nat /\ lastPass <= now /\ rolledTo \in Nat /\ dirtyFrom \in Nat
      BY DEF RetentionInit
    <2> QED BY <2>1, <2>2, <2>3 DEF RetentionInit, RetentionTypes
  <1>2. PassesTogether
    BY NumbersAre DEF RetentionInit, PassesTogether, Numbers
  <1>3. BothBacked
    BY DEF RetentionInit, BothBacked, Backed
  <1>4. BothCounted
    <2>1. ASSUME NEW step \in Nat \ {0}, NEW b \in Buckets(step) PROVE ~(b + step <= Floor(0, step))
      <3>1. b \in Nat /\ Floor(0, step) \in Nat /\ Floor(0, step) <= 0
        BY BucketsAre, FloorIs, NumbersAre DEF Numbers
      <3> QED BY <3>1
    <2> QED BY <2>1, NumbersAre DEF RetentionInit, BothCounted, Counted, Numbers
  <1>5. EvictionNoted
    BY DEF RetentionInit, EvictionNoted
  <1> QED BY <1>1, <1>2, <1>3, <1>4, <1>5 DEF RetentionInv

LEMMA IngestKeeps ==
    ASSUME RetentionInv, NEW ts \in SampleStamps \cup RequestStamps, NEW sample \in BOOLEAN, Ingest(ts, sample)
    PROVE  RetentionInv'
  <1>1. /\ ts \in Nat \ {0} /\ ts <= now
        /\ samples' = samples \/ samples' = samples \cup {ts}
        /\ requests' = requests \/ requests' = requests \cup {ts}
        /\ dirtyFrom' = NoteDirty(ts)
        /\ UNCHANGED <<now, perMinute, perHour, gaps, compaction, lastPass, rolledTo, dropped, evicted, broke>>
    BY HorizonsAssumption DEF Ingest
  <1>t. RetentionTypes
    BY DEF RetentionInv
  <1>2. dirtyFrom' \in Nat \ {0} /\ dirtyFrom' <= ts /\ (dirtyFrom # 0 => dirtyFrom' <= dirtyFrom)
    BY <1>1, <1>t DEF NoteDirty, RetentionTypes
  <1>3. RetentionTypes'
    BY <1>1, <1>2, <1>t DEF RetentionTypes
  <1>4. PassesTogether'
    BY <1>1 DEF RetentionInv, PassesTogether, RollTo
  <1>5. BothBacked'
    <2>1. samples \cup dropped \subseteq samples' \cup dropped
      BY <1>1
    <2> QED BY <1>1, <2>1, BackedGrows DEF RetentionInv, BothBacked
  <1>6. BothCounted'
    <2> SUFFICES ASSUME ~broke PROVE BothCounted'
      BY <1>1 DEF BothCounted
    <2>1. /\ Counted(perMinute, Minute, samples, dropped, dirtyFrom, compaction, rolledTo, now)
          /\ Counted(perHour, Hour, samples, dropped, dirtyFrom, compaction, rolledTo, now)
      BY DEF RetentionInv, BothCounted
    <2>2. samples' \subseteq samples \cup {ts} /\ samples \subseteq samples' /\ dirtyFrom \in Nat
          /\ Minute \in Steps /\ Hour \in Steps
      BY <1>1, <1>t DEF RetentionTypes, Steps
    <2>3. Counted(perMinute, Minute, samples', dropped, dirtyFrom', compaction, rolledTo, now)
      BY <1>1, <1>2, <2>1, <2>2, CountedIngest
    <2>4. Counted(perHour, Hour, samples', dropped, dirtyFrom', compaction, rolledTo, now)
      BY <1>1, <1>2, <2>1, <2>2, CountedIngest
    <2> QED BY <1>1, <2>3, <2>4 DEF BothCounted
  <1>7. EvictionNoted'
    BY <1>1 DEF RetentionInv, EvictionNoted
  <1> QED BY <1>3, <1>4, <1>5, <1>6, <1>7 DEF RetentionInv

LEMMA TakeDirtyKeeps ==
    ASSUME PassesInTime, RetentionInv, TakeDirty
    PROVE  RetentionInv'
  <1> DEFINE recent == IF now > Window THEN now - Window ELSE 0
             from == IF dirtyFrom > 0 /\ dirtyFrom < recent THEN dirtyFrom ELSE recent
  <1>t. RetentionTypes /\ PassesTogether
    BY DEF RetentionInv
  <1>1. /\ compaction = NotCompacting /\ compaction' = RollFrom(dirtyFrom) /\ dirtyFrom' = 0 /\ lastPass' = now
        /\ UNCHANGED <<now, samples, requests, perMinute, perHour, gaps, rolledTo, dropped, evicted, broke>>
    BY DEF TakeDirty
  <1>2. recent \in Nat /\ from \in Nat /\ from <= recent /\ (dirtyFrom # 0 => from <= dirtyFrom)
    BY <1>t, NumbersAre DEF RetentionTypes, Numbers
  <1>3. RollFrom(dirtyFrom) = Floor(from, Hour)
    BY DEF RollFrom
  <1>4. /\ compaction' \in Nat /\ compaction' <= from /\ Multiple(compaction', Hour)
        /\ compaction' # NotCompacting
    <2> HIDE DEF from
    <2>1. Floor(from, Hour) \in Nat /\ Floor(from, Hour) <= from /\ Multiple(Floor(from, Hour), Hour)
      BY <1>2, FloorIs, NumbersAre DEF Numbers
    <2> QED BY <1>1, <1>3, <2>1 DEF NotCompacting
  <1>5. RetentionTypes'
    BY <1>1, <1>4, <1>t DEF RetentionTypes
  <1>6. PassesTogether'
    <2> SUFFICES ASSUME ~broke PROVE compaction' <= rolledTo /\ rolledTo <= RollTo
      BY <1>1, <1>4 DEF PassesTogether, RollTo
    <2>1. now <= lastPass + Interval /\ rolledTo = IF lastPass > Lag THEN lastPass - Lag ELSE 0
      BY <1>1, <1>t DEF PassesTogether
    <2>2. recent <= rolledTo /\ rolledTo <= RollTo
      BY <2>1, <1>t, NumbersAre DEF RetentionTypes, Numbers, PassesInTime, RollTo
    <2> HIDE DEF recent, from
    <2> QED BY <1>2, <1>4, <2>2, <1>t DEF RetentionTypes
  <1>7. BothCounted'
    <2> SUFFICES ASSUME ~broke PROVE BothCounted'
      BY <1>1 DEF BothCounted
    <2>1. /\ Counted(perMinute, Minute, samples, dropped, dirtyFrom, NotCompacting, rolledTo, now)
          /\ Counted(perHour, Hour, samples, dropped, dirtyFrom, NotCompacting, rolledTo, now)
      BY <1>1 DEF RetentionInv, BothCounted
    <2>2. dirtyFrom \in Nat /\ (dirtyFrom # 0 => compaction' <= dirtyFrom) /\ Minute \in Steps /\ Hour \in Steps
      <3> HIDE DEF from, recent
      <3> QED BY <1>2, <1>4, <1>t DEF RetentionTypes, Steps
    <2>3. /\ Counted(perMinute, Minute, samples, dropped, 0, compaction', rolledTo, now)
          /\ Counted(perHour, Hour, samples, dropped, 0, compaction', rolledTo, now)
      BY <1>4, <2>1, <2>2, CountedTaken
    <2> QED BY <1>1, <2>3 DEF BothCounted
  <1>8. BothBacked' /\ EvictionNoted'
    BY <1>1 DEF RetentionInv, BothBacked, EvictionNoted
  <1> QED BY <1>5, <1>6, <1>7, <1>8 DEF RetentionInv

LEMMA TimeKeeps ==
    ASSUME RetentionInv, TimePasses
    PROVE  RetentionInv'
  <1>1. /\ now < MaxNow /\ compaction = NotCompacting /\ now - lastPass < Interval /\ now' = now + 1
        /\ UNCHANGED <<samples, requests, dirtyFrom, perMinute, perHour, gaps, compaction, lastPass, rolledTo,
                       dropped, evicted, broke>>
    BY DEF TimePasses
  <1>t. RetentionTypes /\ PassesTogether
    BY DEF RetentionInv
  <1>2. RetentionTypes'
    <2>1. now' \in Nat /\ now' <= MaxNow /\ now <= now'
      BY <1>1, <1>t, NumbersAre DEF RetentionTypes, Numbers
    <2>2. \A t \in samples : t <= now'
      BY <1>1, <1>t DEF RetentionTypes
    <2> QED BY <1>1, <1>t, <2>1, <2>2 DEF RetentionTypes
  <1>3. PassesTogether'
    BY <1>1, <1>t, NumbersAre DEF PassesTogether, RetentionTypes, Numbers
  <1>4. BothBacked'
    BY <1>1 DEF RetentionInv, BothBacked
  <1>5. BothCounted'
    <2>1. Minute \in Steps /\ Hour \in Steps /\ now \in Nat
      BY <1>t DEF Steps, RetentionTypes
    <2>2. ~broke => /\ Counted(perMinute, Minute, samples, dropped, dirtyFrom, compaction, rolledTo, now + 1)
                    /\ Counted(perHour, Hour, samples, dropped, dirtyFrom, compaction, rolledTo, now + 1)
      BY <2>1, CountedLater DEF RetentionInv, BothCounted
    <2> QED BY <1>1, <2>2 DEF BothCounted
  <1>6. EvictionNoted'
    <2>1. \A e \in evicted : e[1] \in Nat
      BY <1>t DEF RetentionTypes
    <2>2. \A e \in evicted : Floor(e[1], Day) + Day \in Nat
      <3>1. Day \in Nat \ {0}
        BY NumbersAre DEF Numbers
      <3>2. \A x \in Nat : Floor(x, Day) \in Nat
        BY <3>1, FloorIs
      <3>3. \A e \in evicted : Floor(e[1], Day) \in Nat
        BY <2>1, <3>2
      <3> HIDE DEF Floor
      <3> QED BY <3>1, <3>3
    <2>3. \A e \in evicted : Floor(e[1], Day) + Day < now - GapKeep => Floor(e[1], Day) + Day < (now + 1) - GapKeep
      BY <2>2, <1>t, NumbersAre DEF RetentionTypes, Numbers
    <2> QED BY <1>1, <2>3 DEF RetentionInv, EvictionNoted
  <1> QED BY <1>2, <1>3, <1>4, <1>5, <1>6 DEF RetentionInv

(* What a pass writes.                                                     *)
MinuteFound == [b \in Buckets(Minute) |-> Cardinality(In(samples, b, Minute))]
HourFound(rows) == [b \in Buckets(Hour) |-> SumMinutes(rows, b)]

LEMMA RowsWritten ==
    /\ MinuteRows = Written(perMinute, Minute, MinuteFound, compaction, RollTo)
    /\ \A rows : HourRows(rows) = Written(perHour, Hour, HourFound(rows), compaction, RollTo)
  <1>1. MinuteRows = Written(perMinute, Minute, MinuteFound, compaction, RollTo)
    BY DEF MinuteRows, Rolled, Written, MinuteFound
  <1>2. ASSUME NEW rows PROVE HourRows(rows) = Written(perHour, Hour, HourFound(rows), compaction, RollTo)
    BY DEF HourRows, Rolled, Written, HourFound
  <1> QED BY <1>1, <1>2

(* The samples are finitely many.                                          *)
LEMMA SamplesFinite == ASSUME RetentionTypes PROVE IsFiniteSet(samples)
  <1>1. samples \subseteq 0 .. now
    BY DEF RetentionTypes
  <1>2. IsFiniteSet(0 .. now)
    BY FS_Interval DEF RetentionTypes
  <1> QED BY <1>1, <1>2, FS_Subset

LEMMA MinuteFoundIs ==
    ASSUME RetentionTypes
    PROVE  /\ MinuteFound \in [Buckets(Minute) -> Nat]
           /\ \A b \in Buckets(Minute) : MinuteFound[b] = Cardinality(In(samples, b, Minute))
           /\ \A b \in Buckets(Minute) : MinuteFound[b] > 0 => In(samples \cup dropped, b, Minute) # {}
  <1>1. ASSUME NEW b \in Buckets(Minute) PROVE IsFiniteSet(In(samples, b, Minute))
    BY SamplesFinite, FS_Subset DEF In
  <1>2. \A b \in Buckets(Minute) : Cardinality(In(samples, b, Minute)) \in Nat
    BY <1>1, FS_CardinalityType
  <1>3. ASSUME NEW b \in Buckets(Minute), In(samples \cup dropped, b, Minute) = {} PROVE ~(MinuteFound[b] > 0)
    <2>1. In(samples, b, Minute) = {}
      BY <1>3 DEF In
    <2>2. MinuteFound[b] = 0
      BY <2>1, FS_EmptySet DEF MinuteFound
    <2> QED BY <2>2
  <1> QED BY <1>2, <1>3 DEF MinuteFound

LEMMA RollToIs == ASSUME RetentionTypes PROVE RollTo \in Nat /\ RollTo <= now /\ RollTo <= MaxNow
  BY NumbersAre DEF RetentionTypes, RollTo, Numbers

(* The n-th minute of an hour that is rolled is a bucket that is rolled.   *)
LEMMA MinuteOfHour ==
    ASSUME RetentionTypes, compaction \in Nat,
           NEW b \in Buckets(Hour), compaction <= b, b + Hour <= Floor(RollTo, Hour),
           NEW n \in 1 .. Hour \div Minute, NEW m, m = b + (n - 1) * Minute
    PROVE  /\ m \in Buckets(Minute) /\ m \in Nat /\ compaction <= m /\ m + Minute <= Floor(RollTo, Minute)
           /\ b <= m /\ m + Minute <= b + Hour
  <1> DEFINE L == Hour \div Minute
  <1>1. Minute \in Nat \ {0} /\ Hour \in Nat \ {0} /\ MaxNow \in Nat
    BY NumbersAre DEF Numbers
  <1>2. L \in Nat /\ Hour = L * Minute /\ n \in 1 .. L
    BY HourIs
  <1> HIDE DEF L
  <1>3. b \in Nat /\ Multiple(b, Hour) /\ Multiple(b, Minute)
    BY <1>1, BucketsAre, HourIs
  <1>4. n \in Nat /\ n - 1 \in Nat /\ n <= L
    BY <1>2
  <1>5. n * Minute <= L * Minute /\ n * Minute = (n - 1) * Minute + Minute /\ (n - 1) * Minute \in Nat
    BY <1>1, <1>2, <1>4, TimesKeepsOrder
  <1>6. m \in Nat /\ b <= m /\ m + Minute <= b + Hour
    BY <1>1, <1>2, <1>3, <1>5
  <1>7. Multiple(m, Minute)
    <2>1. PICK k \in Nat : b = k * Minute
      BY <1>3 DEF Multiple
    <2>2. m = (k + (n - 1)) * Minute /\ k + (n - 1) \in Nat
      BY <1>1, <1>4, <2>1
    <2> QED BY <2>2 DEF Multiple
  <1>8. RollTo \in Nat /\ RollTo <= MaxNow
    BY RollToIs
  <1>9. Floor(RollTo, Hour) \in Nat /\ Floor(RollTo, Hour) <= RollTo
    BY <1>1, <1>8, FloorIs
  <1>10. m + Minute <= RollTo /\ m <= MaxNow
    BY <1>1, <1>3, <1>6, <1>8, <1>9
  <1>11. m + Minute <= Floor(RollTo, Minute)
    BY <1>1, <1>7, <1>8, <1>10, MultiplePlus, FloorGreatest
  <1>12. m \in Buckets(Minute)
    BY <1>1, <1>6, <1>7, <1>10, BucketsAre
  <1> QED BY <1>3, <1>6, <1>11, <1>12

LEMMA HourFoundIs ==
    ASSUME RetentionTypes, BothBacked, compaction \in Nat
    PROVE  /\ HourFound(MinuteRows) \in [Buckets(Hour) -> Nat]
           /\ \A b \in Buckets(Hour) :
                compaction <= b /\ b + Hour <= Floor(RollTo, Hour) /\ In(dropped, b, Hour) = {}
                    => HourFound(MinuteRows)[b] = Cardinality(In(samples, b, Hour))
           /\ \A b \in Buckets(Hour) :
                compaction <= b /\ b + Hour <= Floor(RollTo, Hour) /\ HourFound(MinuteRows)[b] > 0
                    => In(samples \cup dropped, b, Hour) # {}
  <1> DEFINE rows == MinuteRows
  <1>1. rows \in [Buckets(Minute) -> Nat] /\ Backed(rows, Minute, samples, dropped)
    <2>1. perMinute \in [Buckets(Minute) -> Nat] /\ Minute \in Steps /\ Backed(perMinute, Minute, samples, dropped)
      BY DEF RetentionTypes, Steps, BothBacked
    <2> QED BY <2>1, MinuteFoundIs, RowsWritten, BackedWritten
  <1>2. \A b \in Buckets(Minute) :
            compaction <= b /\ b + Minute <= Floor(RollTo, Minute) /\ In(dropped, b, Minute) = {}
                => rows[b] = Cardinality(In(samples, b, Minute))
    <2> SUFFICES ASSUME NEW b \in Buckets(Minute),
                        compaction <= b, b + Minute <= Floor(RollTo, Minute), In(dropped, b, Minute) = {}
                 PROVE  rows[b] = Cardinality(In(samples, b, Minute))
      OBVIOUS
    <2>1. MinuteFound[b] = Cardinality(In(samples, b, Minute)) /\ MinuteFound[b] \in Nat
      BY MinuteFoundIs
    <2>2. rows[b] = IF MinuteFound[b] > 0 THEN MinuteFound[b] ELSE perMinute[b]
      BY RowsWritten DEF Written
    <2>3. CASE MinuteFound[b] = 0
      <3>1. IsFiniteSet(In(samples, b, Minute))
        BY SamplesFinite, FS_Subset DEF In
      <3>2. In(samples, b, Minute) = {}
        BY <2>1, <2>3, <3>1, FS_EmptySet
      <3>3. In(samples \cup dropped, b, Minute) = {}
        BY <3>2 DEF In
      <3>4. perMinute[b] = 0
        BY <3>3 DEF BothBacked, Backed
      <3>5. ~(MinuteFound[b] > 0)
        BY <2>3
      <3> QED BY <2>1, <2>2, <2>3, <3>4, <3>5
    <2> QED BY <2>1, <2>2, <2>3
  <1> HIDE DEF rows
  <1>3. ASSUME NEW b, NEW n \in Nat PROVE RowAt(rows, b, n) \in Nat
    BY <1>1 DEF RowAt
  <1>4. HourFound(rows) \in [Buckets(Hour) -> Nat]
    <2>1. \A b \in Buckets(Hour) : SumMinutes(rows, b) \in Nat
      BY <1>3, SumIsNat
    <2> QED BY <2>1 DEF HourFound
  <1>5. ASSUME NEW b \in Buckets(Hour), compaction <= b, b + Hour <= Floor(RollTo, Hour), In(dropped, b, Hour) = {}
        PROVE  HourFound(rows)[b] = Cardinality(In(samples, b, Hour))
    <2>1. ASSUME NEW n \in 1 .. Hour \div Minute
          PROVE  RowAt(rows, b, n) = Cardinality(In(samples, b + (n - 1) * Minute, Minute))
      <3> DEFINE m == b + (n - 1) * Minute
      <3>1. /\ m \in Buckets(Minute) /\ m \in Nat /\ compaction <= m /\ m + Minute <= Floor(RollTo, Minute)
            /\ b <= m /\ m + Minute <= b + Hour
        BY <1>5, MinuteOfHour
      <3>2. RowAt(rows, b, n) = rows[m]
        BY <1>1, <3>1 DEF RowAt
      <3> HIDE DEF m
      <3>3. In(dropped, m, Minute) = {}
        <4>1. b \in Nat /\ Minute \in Nat /\ Hour \in Nat
          BY BucketsAre, NumbersAre DEF Numbers
        <4>2. ASSUME NEW t \in dropped, m <= t, t < m + Minute PROVE FALSE
          <5>1. t \in Nat
            BY DEF RetentionTypes
          <5>2. b <= t /\ t < b + Hour
            BY <3>1, <4>1, <4>2, <5>1
          <5> QED BY <1>5, <5>2 DEF In
        <4> QED BY <4>2 DEF In
      <3>4. rows[m] = Cardinality(In(samples, m, Minute))
        BY <1>2, <3>1, <3>3
      <3> QED BY <3>2, <3>4 DEF m
    <2>2. b \in Nat
      BY BucketsAre, NumbersAre DEF Numbers
    <2>3. SumMinutes(rows, b) = Cardinality(In(samples, b, Hour))
      BY <1>3, <2>1, <2>2, SamplesFinite, SumCounts DEF RetentionTypes
    <2> QED BY <2>3 DEF HourFound
  <1>6. ASSUME NEW b \in Buckets(Hour), compaction <= b, b + Hour <= Floor(RollTo, Hour),
               In(samples \cup dropped, b, Hour) = {}
        PROVE  ~(HourFound(rows)[b] > 0)
    <2>1. ASSUME NEW n \in 1 .. Hour \div Minute PROVE RowAt(rows, b, n) = 0
      <3> DEFINE m == b + (n - 1) * Minute
      <3>1. /\ m \in Buckets(Minute) /\ m \in Nat /\ b <= m /\ m + Minute <= b + Hour
        BY <1>6, MinuteOfHour
      <3>2. RowAt(rows, b, n) = rows[m]
        BY <1>1, <3>1 DEF RowAt
      <3> HIDE DEF m
      <3>3. In(samples \cup dropped, m, Minute) = {}
        <4>1. b \in Nat /\ Minute \in Nat /\ Hour \in Nat
          BY BucketsAre, NumbersAre DEF Numbers
        <4>2. ASSUME NEW t \in samples \cup dropped, m <= t, t < m + Minute PROVE FALSE
          <5>1. t \in Nat
            BY DEF RetentionTypes
          <5>2. b <= t /\ t < b + Hour
            BY <3>1, <4>1, <4>2, <5>1
          <5> QED BY <1>6, <5>2 DEF In
        <4> QED BY <4>2 DEF In
      <3>4. rows[m] = 0
        BY <1>1, <3>1, <3>3 DEF Backed
      <3> QED BY <3>2, <3>4
    <2>2. SumMinutes(rows, b) = 0
      BY <1>3, <2>1, SumOfNothing
    <2>3. HourFound(rows)[b] = 0
      BY <2>2 DEF HourFound
    <2> QED BY <2>3
  <1> QED BY <1>4, <1>5, <1>6 DEF rows

(* What goes for its size goes with the gap that notes it.                 *)
LEMMA TrimmedIs ==
    ASSUME NEW ss, ss \subseteq Nat, NEW rs
    PROVE  /\ Trimmed(ss, rs).samples \subseteq ss /\ Trimmed(ss, rs).requests \subseteq rs
           /\ Trimmed(ss, rs).gap \subseteq Gaps
           /\ \A t \in ss \ Trimmed(ss, rs).samples : \E g \in Trimmed(ss, rs).gap : g[1] <= t /\ t < g[2]
  <1>1. CASE Fits(ss, rs) \/ ss = {}
    BY <1>1 DEF Trimmed
  <1>2. CASE ~(Fits(ss, rs) \/ ss = {})
    <2> DEFINE oldest == CHOOSE t \in ss : \A u \in ss : t <= u
    <2>1. \E t \in ss : \A u \in ss : t <= u
      BY <1>2, LeastOfNaturals
    <2>2. oldest \in ss /\ \A u \in ss : oldest <= u
      BY <2>1
    <2>3. OldestDay(ss) = <<oldest, Floor(oldest, Day) + Day>>
      BY DEF OldestDay
    <2> HIDE DEF oldest
    <2> DEFINE g == OldestDay(ss)
    <2>4. g \in Gaps /\ g[1] = oldest
      BY <2>2, <2>3 DEF Gaps
    <2>5. g[2] \in Nat
      <3>1. Floor(oldest, Day) \in Nat /\ Day \in Nat
        BY <2>2, FloorIs, NumbersAre DEF Numbers
      <3> QED BY <2>3, <3>1
    <2>6. Trimmed(ss, rs) = [samples |-> {t \in ss : t >= g[2]}, requests |-> {t \in rs : t >= g[2]}, gap |-> {g}]
      BY <1>2 DEF Trimmed
    <2> HIDE DEF g
    <2>7. \A t \in ss : ~(t >= g[2]) => g[1] <= t /\ t < g[2]
      BY <2>2, <2>4, <2>5
    <2> QED BY <2>4, <2>6, <2>7
  <1> QED BY <1>1, <1>2

(* A gap that has a time in it ends with that time's day.                  *)
LEMMA GapEnds ==
    ASSUME NEW g \in Gaps, NEW t \in Nat, g[1] <= t, t < g[2] PROVE Floor(t, Day) + Day = g[2] /\ g[2] > g[1]
  <1>1. PICK a \in Nat : g = <<a, Floor(a, Day) + Day>>
    BY DEF Gaps
  <1> DEFINE f == Floor(a, Day)  h == Floor(t, Day)
  <1>2. Day \in Nat \ {0}
    BY NumbersAre DEF Numbers
  <1>3. /\ f \in Nat /\ f <= a /\ Multiple(f, Day)
        /\ h \in Nat /\ h <= t /\ t < h + Day /\ Multiple(h, Day)
    BY <1>2, FloorIs
  <1>4. f <= h
    BY <1>1, <1>2, <1>3, FloorGreatest
  <1>5. g[1] = a /\ g[2] = f + Day
    BY <1>1
  <1> HIDE DEF f, h
  <1>6. ~(f < h)
    <2>1. f < h => f + Day <= h
      BY <1>2, <1>3, NextMultiple
    <2> QED BY <1>2, <1>3, <1>5, <2>1
  <1>7. f = h
    BY <1>3, <1>4, <1>6
  <1> QED BY <1>1, <1>2, <1>3, <1>5, <1>7 DEF h

(* A pass that has nothing new to write, writes nothing.                   *)
LEMMA NothingWritten ==
    ASSUME NEW step \in Steps, NEW rows \in [Buckets(step) -> Nat], NEW Value, NEW comp \in Nat, NEW r \in Nat, r <= comp
    PROVE  Written(rows, step, Value, comp, r) = rows
  <1>1. ASSUME NEW b \in Buckets(step) PROVE ~(comp <= b /\ b + step <= Floor(r, step))
    <2>1. step \in Nat \ {0}
      BY StepsAre
    <2>2. b \in Nat
      BY <2>1, BucketsAre, HorizonsAssumption
    <2>3. Floor(r, step) \in Nat /\ Floor(r, step) <= r
      BY <2>1, FloorIs
    <2> QED BY <2>1, <2>2, <2>3
  <1> QED BY <1>1 DEF Written

LEMMA CompactedKeeps == ASSUME RetentionInv, Compacted PROVE RetentionInv'
  <1> DEFINE ss == Young(samples, SampleKeep)
             rs == Young(requests, RequestKeep)
             left == Trimmed(ss, rs)
             minutes == Written(perMinute, Minute, MinuteFound, compaction, RollTo)
             hours == Written(perHour, Hour, HourFound(MinuteRows), compaction, RollTo)
  <1>t. RetentionTypes /\ PassesTogether /\ BothBacked
    BY DEF RetentionInv
  <1>1. /\ compaction # NotCompacting /\ compaction' = NotCompacting
        /\ samples' = left.samples /\ requests' = left.requests
        /\ dropped' = dropped \cup (samples \ left.samples)
        /\ evicted' = evicted \cup {<<t, "sample">> : t \in ss \ left.samples}
                              \cup {<<t, "request">> : t \in rs \ left.requests}
        /\ gaps' = {g \in gaps : g[2] >= now - GapKeep /\ g[2] > g[1]} \cup left.gap
        /\ UNCHANGED <<now, dirtyFrom, lastPass, broke>>
    BY DEF Compacted
  <1>2. IF RollTo > compaction
        THEN /\ perMinute' = YoungRows(MinuteRows, MinuteKeep)
             /\ perHour' = YoungRows(HourRows(MinuteRows), HourKeep)
             /\ rolledTo' = RollTo
        ELSE /\ perMinute' = YoungRows(perMinute, MinuteKeep)
             /\ perHour' = YoungRows(perHour, HourKeep)
             /\ UNCHANGED rolledTo
    BY DEF Compacted
  <1>3. compaction \in Nat /\ lastPass = now /\ Multiple(compaction, Hour)
    BY <1>1, <1>t DEF RetentionTypes, PassesTogether
  <1>4. RollTo \in Nat /\ Minute \in Steps /\ Hour \in Steps
    BY <1>t, RollToIs DEF Steps
  <1>5. /\ left.samples \subseteq samples /\ left.samples \subseteq ss /\ left.requests \subseteq requests /\ left.gap \subseteq Gaps
        /\ ss \subseteq samples /\ rs \subseteq requests
        /\ \A t \in ss \ left.samples : \E g \in left.gap : g[1] <= t /\ t < g[2]
    <2>1. ss \subseteq samples /\ rs \subseteq requests /\ ss \subseteq Nat
      BY <1>t DEF Young, RetentionTypes
    <2> HIDE DEF ss, rs
    <2> QED BY <2>1, TrimmedIs
  <1>6. /\ minutes = MinuteRows /\ hours = HourRows(MinuteRows)
        /\ minutes \in [Buckets(Minute) -> Nat] /\ hours \in [Buckets(Hour) -> Nat]
        /\ Backed(minutes, Minute, samples, dropped) /\ Backed(hours, Hour, samples, dropped)
    <2>1. minutes = MinuteRows /\ hours = HourRows(MinuteRows)
      BY RowsWritten
    <2>2. perMinute \in [Buckets(Minute) -> Nat] /\ perHour \in [Buckets(Hour) -> Nat]
      BY <1>t DEF RetentionTypes
    <2>3. minutes \in [Buckets(Minute) -> Nat] /\ Backed(minutes, Minute, samples, dropped)
      BY <1>t, <1>4, <2>2, MinuteFoundIs, BackedWritten DEF BothBacked
    <2>4. hours \in [Buckets(Hour) -> Nat] /\ Backed(hours, Hour, samples, dropped)
      BY <1>t, <1>3, <1>4, <2>2, HourFoundIs, BackedWritten DEF BothBacked
    <2> QED BY <2>1, <2>3, <2>4
  <1>7. /\ perMinute' = Expired(minutes, Minute, MinuteKeep, now)
        /\ perHour' = Expired(hours, Hour, HourKeep, now)
    <2>1. \A rows \in [Buckets(Minute) -> Nat] : \A keep : YoungRows(rows, keep) = Expired(rows, Minute, keep, now)
      BY DEF YoungRows, Expired
    <2>2. \A rows \in [Buckets(Hour) -> Nat] : \A keep : YoungRows(rows, keep) = Expired(rows, Hour, keep, now)
      BY DEF YoungRows, Expired
    <2>3. CASE RollTo > compaction
      BY <1>2, <1>6, <2>1, <2>2, <2>3
    <2>4. CASE ~(RollTo > compaction)
      <3>1. RollTo <= compaction
        BY <1>3, <1>4, <2>4
      <3>2. perMinute \in [Buckets(Minute) -> Nat] /\ perHour \in [Buckets(Hour) -> Nat]
        BY <1>t DEF RetentionTypes
      <3>3. minutes = perMinute /\ hours = perHour
        BY <1>3, <1>4, <3>1, <3>2, NothingWritten
      <3> HIDE DEF minutes, hours
      <3> QED BY <1>2, <2>1, <2>2, <2>4, <3>2, <3>3
    <2> QED BY <2>3, <2>4
  <1>8. ~broke => rolledTo' = RollTo
    <2>1. ~broke => compaction <= rolledTo /\ rolledTo <= RollTo
      BY <1>1, <1>t DEF PassesTogether
    <2> QED BY <1>2, <1>3, <1>4, <1>t, <2>1 DEF RetentionTypes
  <1>9. rolledTo' \in Nat
    BY <1>2, <1>4, <1>t DEF RetentionTypes
  <1> HIDE DEF minutes, hours, left
  <1>10. RetentionTypes'
    <2>1. perMinute' \in [Buckets(Minute) -> Nat] /\ perHour' \in [Buckets(Hour) -> Nat]
      BY <1>6, <1>7, BackedExpired
    <2>2. evicted' \subseteq Nat \X {"sample", "request"}
      <3> DEFINE S == ss \ left.samples  R == rs \ left.requests
      <3>1. S \subseteq Nat /\ R \subseteq Nat
        BY <1>5, <1>t DEF RetentionTypes
      <3>2. evicted' = evicted \cup {<<t, "sample">> : t \in S} \cup {<<t, "request">> : t \in R}
        BY <1>1
      <3> HIDE DEF S, R
      <3> QED BY <1>t, <3>1, <3>2 DEF RetentionTypes
    <2>3. gaps' \subseteq Gaps
      BY <1>1, <1>5, <1>t DEF RetentionTypes
    <2>4. samples' \subseteq Nat \ {0} /\ requests' \subseteq Nat /\ dropped' \subseteq Nat /\ \A t \in samples' : t <= now
      BY <1>1, <1>5, <1>t DEF RetentionTypes
    <2> HIDE DEF ss, rs
    <2> QED BY <1>1, <1>9, <1>t, <2>1, <2>2, <2>3, <2>4 DEF RetentionTypes
  <1>11. PassesTogether'
    <2>1. ~broke => now <= lastPass + Interval /\ RollTo = IF lastPass > Lag THEN lastPass - Lag ELSE 0
      BY <1>3, <1>t, NumbersAre DEF RollTo, RetentionTypes, Numbers
    <2> QED BY <1>1, <1>8, <2>1 DEF PassesTogether
  <1>12. BothBacked'
    <2>1. Backed(perMinute', Minute, samples, dropped) /\ Backed(perHour', Hour, samples, dropped)
      BY <1>6, <1>7, BackedExpired
    <2>2. samples \cup dropped \subseteq samples' \cup dropped'
      BY <1>1
    <2> QED BY <2>1, <2>2, BackedGrows DEF BothBacked
  <1>13. BothCounted'
    <2> SUFFICES ASSUME ~broke PROVE BothCounted'
      BY <1>1 DEF BothCounted
    <2>1. /\ Counted(perMinute, Minute, samples, dropped, dirtyFrom, compaction, rolledTo, now)
          /\ Counted(perHour, Hour, samples, dropped, dirtyFrom, compaction, rolledTo, now)
          /\ Backed(perMinute, Minute, samples, dropped) /\ Backed(perHour, Hour, samples, dropped)
      BY DEF RetentionInv, BothCounted, BothBacked
    <2>2. /\ IsFiniteSet(samples) /\ dirtyFrom \in Nat /\ compaction <= rolledTo /\ rolledTo \in Nat /\ now \in Nat
          /\ perMinute \in [Buckets(Minute) -> Nat] /\ perHour \in [Buckets(Hour) -> Nat]
      BY <1>1, <1>t, SamplesFinite DEF RetentionTypes, PassesTogether
    <2>3. MinuteKeep \in Nat /\ HourKeep \in Nat /\ MinuteKeep <= HourKeep /\ MinuteKeep <= MinuteKeep
      BY HorizonsAssumption
    <2>4. samples' \subseteq samples /\ dropped' = dropped \cup (samples \ samples')
      BY <1>1, <1>5
    <2>5. Counted(perMinute', Minute, samples', dropped', dirtyFrom, NotCompacting, RollTo, now)
      <3>1. MinuteFound \in [Buckets(Minute) -> Nat]
            /\ \A b \in Buckets(Minute) : MinuteFound[b] = Cardinality(In(samples, b, Minute))
        BY <1>t, MinuteFoundIs
      <3> QED BY <1>3, <1>4, <1>7, <2>1, <2>2, <2>3, <2>4, <3>1, CountedWritten DEF minutes
    <2>6. Counted(perHour', Hour, samples', dropped', dirtyFrom, NotCompacting, RollTo, now)
      <3>1. /\ HourFound(MinuteRows) \in [Buckets(Hour) -> Nat]
            /\ \A b \in Buckets(Hour) :
                 compaction <= b /\ b + Hour <= Floor(RollTo, Hour) /\ In(dropped, b, Hour) = {}
                     => HourFound(MinuteRows)[b] = Cardinality(In(samples, b, Hour))
        BY <1>t, <1>3, HourFoundIs
      <3> QED BY <1>3, <1>4, <1>7, <2>1, <2>2, <2>3, <2>4, <3>1, CountedWritten DEF hours
    <2> QED BY <1>1, <1>8, <2>5, <2>6 DEF BothCounted
  <1>14. EvictionNoted'
    <2> SUFFICES ASSUME NEW e \in evicted', e[2] = "sample"
                 PROVE  (\E g \in gaps' : g[1] <= e[1] /\ e[1] < g[2]) \/ Floor(e[1], Day) + Day < now - GapKeep
      BY <1>1 DEF EvictionNoted
    <2>1. CASE e \in evicted
      <3>1. e[1] \in Nat
        BY <1>t, <2>1 DEF RetentionTypes
      <3>2. (\E g \in gaps : g[1] <= e[1] /\ e[1] < g[2]) \/ Floor(e[1], Day) + Day < now - GapKeep
        BY <2>1 DEF RetentionInv, EvictionNoted
      <3>3. ASSUME NEW g \in gaps, g[1] <= e[1], e[1] < g[2]
            PROVE  g \in gaps' \/ Floor(e[1], Day) + Day < now - GapKeep
        <4>1. g \in Gaps
          BY <1>t DEF RetentionTypes
        <4>2. Floor(e[1], Day) + Day = g[2] /\ g[2] > g[1]
          BY <3>1, <3>3, <4>1, GapEnds
        <4>3. g[2] \in Nat /\ now - GapKeep \in Int
          <5>1. Floor(e[1], Day) \in Nat /\ Day \in Nat
            BY <3>1, FloorIs, NumbersAre DEF Numbers
          <5>2. now - GapKeep \in Int
            BY <1>t, NumbersAre DEF RetentionTypes, Numbers
          <5> QED BY <4>2, <5>1, <5>2
        <4>4. g[2] >= now - GapKeep \/ g[2] < now - GapKeep
          BY <4>3
        <4> QED BY <1>1, <4>2, <4>4
      <3> QED BY <3>2, <3>3
    <2>2. CASE e \in {<<t, "sample">> : t \in ss \ left.samples}
      <3>1. PICK t \in ss \ left.samples : e = <<t, "sample">>
        BY <2>2
      <3>2. \E g \in left.gap : g[1] <= e[1] /\ e[1] < g[2]
        BY <1>5, <3>1
      <3> QED BY <1>1, <3>2
    <2>3. e \notin {<<t, "request">> : t \in rs \ left.requests}
      OBVIOUS
    <2> QED BY <1>1, <2>1, <2>2, <2>3
  <1> QED BY <1>10, <1>11, <1>12, <1>13, <1>14 DEF RetentionInv

LEMMA FailureKeeps ==
    ASSUME RetentionInv, NEW minutes \in BOOLEAN, CompactionFails(minutes) PROVE RetentionInv'
  <1>t. RetentionTypes /\ PassesTogether /\ BothBacked
    BY DEF RetentionInv
  <1>1. /\ compaction # NotCompacting /\ compaction' = NotCompacting /\ broke' = TRUE
        /\ perMinute' = perMinute \/ perMinute' = MinuteRows
        /\ UNCHANGED <<now, samples, requests, dirtyFrom, perHour, gaps, lastPass, rolledTo, dropped, evicted>>
    BY DEF CompactionFails
  <1>2. perMinute' \in [Buckets(Minute) -> Nat] /\ Backed(perMinute', Minute, samples, dropped)
    <2>1. perMinute \in [Buckets(Minute) -> Nat] /\ Minute \in Steps /\ Backed(perMinute, Minute, samples, dropped)
      BY <1>t DEF RetentionTypes, Steps, BothBacked
    <2>2. MinuteRows \in [Buckets(Minute) -> Nat] /\ Backed(MinuteRows, Minute, samples, dropped)
      BY <1>t, <2>1, MinuteFoundIs, RowsWritten, BackedWritten
    <2> QED BY <1>1, <2>1, <2>2
  <1>3. RetentionTypes'
    BY <1>1, <1>2, <1>t DEF RetentionTypes
  <1>4. PassesTogether' /\ BothCounted'
    BY <1>1 DEF PassesTogether, BothCounted
  <1>5. BothBacked'
    BY <1>1, <1>2, <1>t DEF BothBacked
  <1>6. EvictionNoted'
    BY <1>1 DEF RetentionInv, EvictionNoted
  <1> QED BY <1>3, <1>4, <1>5, <1>6 DEF RetentionInv

(* telemetry/retention.py, with passes no further apart than the window    *)
(* that each rolls again (COMPACT_INTERVAL_S, ROLL_LAG_S, REROLL_WINDOW_S):*)
(* whatever arrives late or between the mark and the roll, after a pass a  *)
(* closed bucket counts the rows there are, and samples that went for      *)
(* their size lie in a gap.                                                *)
THEOREM RetentionKeepsItsPromise == ASSUME PassesInTime PROVE RetentionSpec => []RetentionPromise
  <1>1. RetentionInv /\ [RetentionNext]_retentionVars => RetentionInv'
    <2> SUFFICES ASSUME RetentionInv, [RetentionNext]_retentionVars PROVE RetentionInv'
      OBVIOUS
    <2>1. CASE UNCHANGED retentionVars
      BY <2>1 DEF retentionVars, RetentionInv, RetentionTypes, PassesTogether, RollTo, BothBacked, BothCounted,
                  EvictionNoted
    <2>2. CASE RetentionNext
      BY <2>2, IngestKeeps, TakeDirtyKeeps, CompactedKeeps, TimeKeeps, FailureKeeps DEF RetentionNext
    <2> QED BY <2>1, <2>2
  <1>2. RetentionInv => RetentionPromise
    BY InvAgrees DEF RetentionInv, RetentionPromise
  <1> QED BY <1>1, <1>2, RetentionStarts, PTL DEF RetentionSpec
=============================================================================
