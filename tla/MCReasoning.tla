----------------------------- MODULE MCReasoning -----------------------------
(***************************************************************************)
(* Proposals that pass every test, and some that fail one of them: a name  *)
(* like a credential, zero replicas, a container nobody has seen, too      *)
(* little confidence.                                                      *)
(***************************************************************************)
EXTENDS DeepInvestigation

CONSTANTS v1, v2, placeholder, on, p1

P(field, value) == [field |-> field, value |-> value, known |-> TRUE,
                    confident |-> TRUE]

MCReply == {P("replicas", 3), P("image", v2), P("env", on), P("secret", on),
            P("replicas", 0), P("image", placeholder),
            [P("argv", Absent) EXCEPT !.known = FALSE],
            [P("env", Absent) EXCEPT !.confident = FALSE]}

MCFirst == [image |-> v1, replicas |-> 1, env |-> Absent, argv |-> on,
            images |-> {v1, v2}]

Policy(max, permitted, dry_run) ==
    [min |-> 1, max |-> max, permitted |-> permitted, dry_run |-> dry_run]

MCFirstPolicy == Policy(3, TRUE, FALSE)

MCPolicies == {MCFirstPolicy, Policy(2, TRUE, FALSE), Policy(3, FALSE, FALSE),
               Policy(3, TRUE, TRUE)}
=============================================================================
