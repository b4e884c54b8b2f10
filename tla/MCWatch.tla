------------------------------- MODULE MCWatch -------------------------------
(***************************************************************************)
(* One Deployment and its availability problem, watched by Kubernetes      *)
(* polls and by Alertmanager at once.                                      *)
(***************************************************************************)
EXTENDS K8sWatch

CONSTANTS citizen_down, citizen_service

MCTargetOf     == [p \in {citizen_down} |-> citizen_service]
MCAvailability == [d \in {citizen_service} |-> citizen_down]
=============================================================================
