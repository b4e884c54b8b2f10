--------------------------- MODULE ReasonerHealth ---------------------------
(***************************************************************************)
(* The circuit breaker that every user of one reasoner shares              *)
(* (app/reasoning/health.py), and the provider behind it.  open stands for *)
(* now < _open_until: a failure at or past the threshold arms the whole    *)
(* cooldown again, which is open staying true, and the end of the cooldown *)
(* is a step of its own.                                                   *)
(***************************************************************************)
EXTENDS Integers

CONSTANT FailureThreshold

ASSUME ThresholdAssumption == FailureThreshold \in Nat \ {0}

VARIABLES
    failures, \* consecutive_failures, counted up to the threshold
    open,     \* the cooldown is running
    up        \* the provider answers

healthVars == <<failures, open>>

-----------------------------------------------------------------------------
HealthInit == failures = 0 /\ open = FALSE

\* The failures are remembered after the cooldown.
circuit_open_ByCount == failures >= FailureThreshold

circuit_open == open

record_success ==
    /\ failures' = 0
    /\ open' = FALSE

record_failure ==
    /\ failures' = IF failures < FailureThreshold THEN failures + 1 ELSE failures
    /\ open' = (open \/ failures + 1 >= FailureThreshold)

\* Nobody is told: the next caller simply finds the circuit closed.
CooldownEnds ==
    /\ open
    /\ open' = FALSE
    /\ UNCHANGED failures
=============================================================================
