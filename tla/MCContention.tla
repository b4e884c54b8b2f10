----------------------------- MODULE MCContention -----------------------------
(***************************************************************************)
(* Two problems of one Deployment, one occurrence each: what concurrent    *)
(* lifecycles do to each other.                                            *)
(***************************************************************************)
EXTENDS IncidentEngine

CONSTANTS high_errors, high_latency, citizen_service

MCTargetOf == [p \in {high_errors, high_latency} |-> citizen_service]
=============================================================================
