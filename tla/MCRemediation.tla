---------------------------- MODULE MCRemediation ----------------------------
(***************************************************************************)
(* A Deployment with a good build v1, a broken build v2, a fix v3 and a    *)
(* build whose image is a placeholder.                                     *)
(***************************************************************************)
EXTENDS Remediation

CONSTANTS v1, v2, v3, placeholder

MCContainersOf == [t \in Template |-> t]

MCHistories == {<<v1>>, <<v2, placeholder, v1>>}

AllOn == [api |-> TRUE, health |-> TRUE, chaos |-> TRUE, dry_run |-> FALSE,
          permitted |-> TRUE]

MCSetups == {AllOn, [AllOn EXCEPT !.api = FALSE], [AllOn EXCEPT !.dry_run = TRUE]}

MCOutages == {{}, {"logs"}, {"k8s"}}

MCPictures == {{}, {"errors"}, {"latency", "busy"}, {"memory"}}

\* The same past for every action: none, always failed, a corrupted row.
Past(attempts, validated) ==
    [a \in Remedy |-> [attempts |-> attempts, validated |-> validated]]

MCPastRows  == {Past(0, 0), Past(4, 0), Past(3, 4)}

MCPastVotes == {[count |-> 0, total |-> 0, worked |-> 0]}
=============================================================================
