--------------------------- MODULE MCAdministration ---------------------------
(***************************************************************************)
(* Two administrators; changes of one field, of two that constrain each    *)
(* other, out of bounds, of a denied Deployment and of an unknown field.   *)
(***************************************************************************)
EXTENDS Administration

CONSTANTS citizen_service, auth_db, old_url, new_url, bad_url, openai, gemini

MCDefaults ==
    [allowed_deployments |-> {citizen_service}, confidence_rollback |-> 90,
     min_replicas |-> 1, max_replicas |-> 3,
     settle_seconds |-> 20, timeout_seconds |-> 180, dry_run |-> FALSE]

MCRequests ==
    [policy      |-> {[min_replicas |-> 2], [max_replicas |-> 1],
                      [min_replicas |-> 4, max_replicas |-> 5],
                      [confidence_rollback |-> 40],
                      [allowed_deployments |-> {citizen_service, auth_db}]},
     rca         |-> {[settle_seconds |-> 200, timeout_seconds |-> 300],
                      [timeout_seconds |-> 20]},
     remediation |-> {[dry_run |-> TRUE], [action_ladder |-> TRUE]},
     ai          |-> {[llm_provider |-> gemini]},
     monitoring  |-> {[prometheus_url |-> new_url],
                      [prometheus_url |-> bad_url]}]

\* One request per category, for the run about a registered environment.
MCFewRequests ==
    [policy      |-> {[max_replicas |-> 1]}, rca |-> {},
     remediation |-> {[dry_run |-> TRUE]}, ai |-> {}, monitoring |-> {}]
=============================================================================
