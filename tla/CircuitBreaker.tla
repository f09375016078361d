--------------------------- MODULE CircuitBreaker ---------------------------
(***************************************************************************)
(* runtime.CircuitBreaker (codegen/rtsrc/channel.go.txt) as operators on   *)
(* its state: each method holds the mutex, so a call is one step of        *)
(* whoever uses the breaker. Time is the fact that the cooldown elapsed    *)
(* since openedAt (`cooled`).                                              *)
(***************************************************************************)
EXTENDS Naturals

CONSTANT Threshold      \* consecutive failures that open it; 0 is no breaker
ASSUME ThresholdAssumption == Threshold \in Nat

BreakerState == [state : {"closed", "open", "halfOpen"}, failures : Nat,
                 probing : BOOLEAN, cooled : BOOLEAN]

\* NewCircuitBreaker.
ClosedBreaker == [state |-> "closed", failures |-> 0, probing |-> FALSE, cooled |-> FALSE]

\* Whether Allow admits a call, and whether that call is the probe.
Admits(b) == \/ Threshold = 0
             \/ b.state = "closed"
             \/ b.state = "open" /\ b.cooled
             \/ b.state = "halfOpen" /\ ~b.probing
IsProbe(b) == Threshold # 0 /\ b.state # "closed"

\* Mutant: the transition to half-open does not mark the probe.
AfterAllowUnmarkedMutant(b) == IF IsProbe(b) THEN [b EXCEPT !.state = "halfOpen"] ELSE b

\* Allow, when it admits.
AfterAllow(b) ==
    IF IsProbe(b) THEN [b EXCEPT !.state = "halfOpen", !.probing = TRUE] ELSE b

\* Mutant: one failure too many.
AfterRecordOffByOneMutant(b, success) ==
    IF success THEN ClosedBreaker
    ELSE IF b.state = "halfOpen" \/ b.failures + 1 > Threshold
    THEN [state |-> "open", failures |-> b.failures + 1, probing |-> FALSE, cooled |-> FALSE]
    ELSE [b EXCEPT !.failures = @ + 1, !.probing = FALSE]

\* Record: a success closes the breaker; a failure opens it (again) when it is the
\* probe's or the Threshold-th, and openedAt is now.
AfterRecord(b, success) ==
    IF success THEN ClosedBreaker
    ELSE IF b.state = "halfOpen" \/ b.failures + 1 >= Threshold
    THEN [state |-> "open", failures |-> b.failures + 1, probing |-> FALSE, cooled |-> FALSE]
    ELSE [b EXCEPT !.failures = @ + 1, !.probing = FALSE]

CanCool(b) == b.state = "open" /\ ~b.cooled
Cooled(b) == [b EXCEPT !.cooled = TRUE]
=============================================================================
