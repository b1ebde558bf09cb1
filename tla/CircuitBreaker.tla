--------------------------- MODULE CircuitBreaker --------------------------
(***************************************************************************)
(* The gateway's per-target circuit breaker (gateway/breaker.py) as        *)
(* operations on one circuit.  The clock is abstracted to `bench`: a       *)
(* circuit whose opened_at is None is "closed"; an opened one is "cooling" *)
(* (OPEN) until its cooldown has passed, and "cooled" (HALF_OPEN) after.   *)
(* A missing circuit behaves as a fresh one in every operation, so the two *)
(* are one value.                                                          *)
(***************************************************************************)
EXTENDS Integers

CONSTANT Threshold     \* failure_threshold; failures beyond it are not told apart

ASSUME ThresholdAssumption == Threshold \in Nat \ {0}

Circuits == [failures : 0 .. Threshold,
             bench    : {"closed", "cooling", "cooled"},
             probing  : BOOLEAN]

Closed == [failures |-> 0, bench |-> "closed", probing |-> FALSE]

\* is_open(): selection skips the target.
Open(c) == c.bench = "cooling"

\* begin() returns False: half-open, and its one probe is out.
Busy(c) == c.bench = "cooled" /\ c.probing

\* begin() returned True.
Begun(c) == [c EXCEPT !.probing = (c.bench = "cooled")]

Abandoned(c) == [c EXCEPT !.probing = FALSE]

\* A failure opens the circuit at the threshold; one on an open circuit buys
\* it another full cooldown.
Failed(c) ==
    LET n == IF c.failures < Threshold THEN c.failures + 1 ELSE Threshold
    IN  [failures |-> n,
         bench    |-> IF c.bench # "closed" \/ n = Threshold
                      THEN "cooling" ELSE "closed",
         probing  |-> FALSE]

\* record_success(): as good as new, whichever request brought the answer.
Succeeded(c) == Closed

\* The cooldown passes.
Cooled(c) == [c EXCEPT !.bench = "cooled"]
=============================================================================
