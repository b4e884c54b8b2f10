---------------------------- MODULE DeepProposals ----------------------------
(***************************************************************************)
(* What a reasoner may propose to change, as operators of their arguments: *)
(* the construction of a typed target from evidence                        *)
(* (app/lifecycle/deep_investigation.py), the policy gate on it            *)
(* (policy.py, evaluate_deep_proposal) and the remediation engine's own    *)
(* gate and write (remediation.py, execute_deep).                          *)
(*                                                                         *)
(* A proposal is the field of the Deployment it writes and the value:      *)
(* "env" and "secret" are environment variables, the second with a name    *)
(* that looks like a credential; "argv" is the command or the arguments of *)
(* the container.  Absent unsets.                                          *)
(***************************************************************************)
EXTENDS Integers

CONSTANTS
    Image,      \* container images
    Plausible,  \* those that look like a real reference
    EnvValue,   \* values of the environment variable
    Argv,       \* command lines
    Absent

ASSUME ProposalAssumption ==
    /\ Plausible \subseteq Image
    /\ Absent \notin Image \cup EnvValue \cup Argv

Field == {"env", "secret", "image", "replicas", "argv"}

(***************************************************************************)
(* The Deployment, as evidence shows it: images are those of the revisions *)
(* still in its history, with the current one.                             *)
(***************************************************************************)
Deployment == [image : Image, replicas : Nat, env : EnvValue \cup {Absent},
               argv : Argv \cup {Absent}, images : SUBSET Image]

(***************************************************************************)
(* A proposal as it was parsed: which values a field may be given, whether *)
(* the evidence shows its container, whether its confidence is enough.     *)
(***************************************************************************)
Value(field) ==
    CASE field = "image"             -> Image
      [] field = "replicas"          -> Nat
      [] field = "argv"              -> Argv \cup {Absent}
      [] field \in {"env", "secret"} -> EnvValue \cup {Absent}

Proposal ==
    {p \in [field : Field, value : Image \cup EnvValue \cup Argv \cup {Absent} \cup Nat,
            known : BOOLEAN, confident : BOOLEAN] : p.value \in Value(p.field)}

(***************************************************************************)
(* apply_llm_response and the _build_*_target functions: nothing is        *)
(* patched up, a proposal that fails one test is dropped whole.  known is  *)
(* "the container is one the evidence shows".                              *)
(***************************************************************************)
Grounded(p, seen) ==
    /\ p.field # "secret"
    /\ p.field # "replicas" => p.known
    /\ p.field = "image"    => p.value \in Plausible \cap seen.images
    /\ p.field = "replicas" => p.value \in 0..1000
    /\ p.field \in {"image", "replicas", "argv"} => p.value # seen[p.field]

-----------------------------------------------------------------------------
InBand(n, policy) ==
    IF n < policy.min THEN policy.min
    ELSE IF n > policy.max THEN policy.max ELSE n

(***************************************************************************)
(* evaluate_deep_proposal.  permitted stands for the deny and allow lists  *)
(* and the action cap.  The replica count is clamped in the proposal       *)
(* itself, before the later tests and whatever they say.                   *)
(***************************************************************************)
EligibleTarget(p, policy) ==
    IF p.field = "replicas" /\ p.value >= 1
    THEN [p EXCEPT !.value = InBand(@, policy)] ELSE p

Eligible(p, policy) ==
    /\ p.field # "secret"
    /\ p.field = "replicas" => p.value >= 1
    /\ policy.permitted
    /\ p.confident

\* assert_target_permitted, assert_env_key_permitted and the executors'
\* own tests: the last gate looks at the policy once more.
Refused(p, policy) ==
    \/ ~policy.permitted
    \/ p.field = "secret"
    \/ p.field = "image" /\ p.value \notin Plausible
    \/ p.field = "replicas" /\ p.value < 1

\* The count the policy engine has clamped already is taken as it is.
Written_Trusting(p, deployment, policy) ==
    IF p.field = "image"
    THEN [deployment EXCEPT !.image = p.value, !.images = @ \cup {p.value}]
    ELSE [deployment EXCEPT ![p.field] = p.value]

\* The patches of kubernetes_client.py: one field of one container.  A new
\* image is a new revision.
Written(p, deployment, policy) ==
    IF p.field = "image"
    THEN [deployment EXCEPT !.image = p.value, !.images = @ \cup {p.value}]
    ELSE [deployment EXCEPT ![p.field] =
             IF p.field = "replicas" THEN InBand(p.value, policy) ELSE p.value]
=============================================================================
