------------------------------ MODULE MCIncident ------------------------------
(***************************************************************************)
(* One problem of one Deployment: the life of its incidents, through       *)
(* repeat alerts, recurrences, re-checks, restarts and administrators.     *)
(***************************************************************************)
EXTENDS IncidentEngine, TLC

CONSTANTS high_errors, citizen_service

MCTargetOf == [p \in {high_errors} |-> citizen_service]

\* Nothing tells one action from another.
Actions == Permutations(Action)
=============================================================================
