-------------------------- MODULE DeepInvestigation --------------------------
(***************************************************************************)
(* Deep investigation (app/lifecycle/deep_investigation.py and             *)
(* deep_investigation_tools.py): a bounded conversation with a reasoner    *)
(* that may read the cluster and may end in one proposal, which a human    *)
(* then authorises (orchestrator.py, _run_deep_investigation and           *)
(* authorize_and_remediate_deep).  Several lifecycles of one Deployment    *)
(* talk to one reasoner, whose circuit breaker they share, while the       *)
(* provider, the cluster and the configuration change.                     *)
(*                                                                         *)
(* The lease of the incident (IncidentEngine) keeps one caller's           *)
(* investigation and its authorised execution apart.                       *)
(***************************************************************************)
EXTENDS ReasonerHealth, DeepProposals, Sequences, FiniteSets

CONSTANTS
    Caller,         \* incidents, each with one lifecycle
    Pod,
    Reply,          \* proposals the reasoner may make
    Policies,       \* configurations an administrator may apply
    FirstDeployment, FirstPod, FirstPolicy,
    MaxIterations, MaxToolCalls, MaxMalformed,
    MaxDigs,        \* bound: deep investigations in all
    MaxDisturbances \* bound: changes of the cluster or the configuration

ASSUME InvestigationAssumption ==
    /\ FirstDeployment \in Deployment /\ FirstPod \in Pod
    /\ Reply \subseteq Proposal
    /\ FirstPolicy \in Policies
    /\ Policies \subseteq [min : Nat, max : Nat, permitted : BOOLEAN,
                           dry_run : BOOLEAN]
    /\ \A q \in Policies : 1 <= q.min /\ q.min <= q.max
    /\ MaxDigs \in Nat /\ MaxDisturbances \in Nat
    /\ MaxIterations \in Nat \ {0}
    /\ MaxToolCalls \in Nat
    /\ MaxMalformed \in Nat \ {0}

VARIABLES
    run,         \* run[c]: what c awaits, and the trace of its investigation
    proposal,    \* proposal[c]: the latest deep proposal of c
    evidence,    \* evidence[c]: the Deployment as c last collected it
    deployment,  \* the Deployment itself
    pod,         \* the Pod it has now
    ran,         \* history: every image it has ever run
    policy,      \* allow-lists, replica band and dry run in force
    digs,        \* deep investigations begun
    disturbances

worldVars == <<deployment, pod, ran, policy, digs, disturbances>>
vars == <<healthVars, up, run, proposal, evidence, worldVars>>

-----------------------------------------------------------------------------
(***************************************************************************)
(* A trace has one entry for each turn the reasoner used: its number, the  *)
(* evidence collected in it and for which Pod.  known is known_pods of the *)
(* ToolContext.  misses counts the unanswered calls in a row.  sick: the   *)
(* provider was down at some moment of the call.                           *)
(***************************************************************************)
NoPod  == "none"
Source == {"pods", "logs", "other"}

Turn(n) == [turn |-> n, source |-> "none", pod |-> NoPod, ok |-> FALSE]

Begun == [pc |-> "idle", iteration |-> 0, malformed |-> 0, tools |-> 0,
          trace |-> <<>>, known |-> {}, misses |-> 0, sick |-> FALSE,
          asked |-> <<"none", NoPod>>, outcome |-> "running"]

Ended(r, outcome) ==
    [r EXCEPT !.pc = "idle", !.outcome = outcome, !.malformed = 0, !.misses = 0,
              !.sick = FALSE, !.asked = <<"none", NoPod>>]

Idle == Ended(Begun, "none")

Calling(r) == [r EXCEPT !.pc = "calling", !.iteration = @ + 1, !.sick = ~up,
                        !.asked = <<"none", NoPod>>]

\* The head of the loop.  The time budget may be spent on any turn but the
\* first; it is looked at nowhere else.
NextTurn(r) ==
    (IF r.iteration < MaxIterations THEN {Calling(r)} ELSE {})
    \cup (IF r.iteration > 0 THEN {Ended(r, "no_safe_fix")} ELSE {})

\* One more than the setting allows.
Malformed_OneMore(r) ==
    LET m == [r EXCEPT !.malformed = @ + 1]
    IN  IF m.malformed <= MaxMalformed THEN NextTurn(m)
        ELSE {Ended(m, "no_safe_fix")}

\* A turn that was of no use; too many in a row end the investigation.
Malformed(r) ==
    LET m == [r EXCEPT !.malformed = @ + 1]
    IN  IF m.malformed < MaxMalformed THEN NextTurn(m)
        ELSE {Ended(m, "no_safe_fix")}

\* The turn goes on the trace.
Noted(r) == [r EXCEPT !.trace = Append(@, Turn(r.iteration)), !.misses = 0]

Becomes(c, records) == \E r \in records : run' = [run EXCEPT ![c] = r]

NoProposal == [status |-> "none"]

InAuthorisation(c) == proposal[c].status \in {"checking", "executing", "executed"}

-----------------------------------------------------------------------------
(***************************************************************************)
(* Beginning.  The circuit is looked at here and not again.  A new context *)
(* knows no Pod.                                                           *)
(***************************************************************************)
StartDeep(c) ==
    /\ run[c].pc = "idle" /\ ~InAuthorisation(c)
    /\ digs < MaxDigs /\ digs' = digs + 1
    /\ evidence' = [evidence EXCEPT ![c] = deployment]
    /\ IF circuit_open
       THEN Becomes(c, {Ended(Begun, "no_safe_fix")})
       ELSE Becomes(c, NextTurn(Begun))
    /\ UNCHANGED <<healthVars, up, proposal, deployment, pod, ran, policy,
                   disturbances>>

\* enrich_with_llm: one call, on behalf of the rules.
StartEnrich(c) ==
    /\ run[c].pc = "idle" /\ ~InAuthorisation(c) /\ ~circuit_open
    /\ run' = [run EXCEPT ![c] = [Begun EXCEPT !.pc = "enriching", !.sick = ~up]]
    /\ UNCHANGED <<healthVars, up, proposal, evidence, worldVars>>

EnrichAnswers(c) ==
    /\ run[c].pc = "enriching"
    /\ \/ up /\ record_success
       \/ run[c].sick /\ record_failure
    /\ run' = [run EXCEPT ![c] = Idle]
    /\ UNCHANGED <<up, proposal, evidence, worldVars>>

-----------------------------------------------------------------------------
(***************************************************************************)
(* The answer of complete_json.  The breaker hears of it first: an answer  *)
(* of no use is still an answer.                                           *)
(***************************************************************************)
\* A call that hangs is never given up.
NoAnswer_Never(c) == FALSE /\ UNCHANGED vars

\* Nobody counts the turn.
NoAnswer_Uncounted(c) ==
    /\ run[c].pc = "calling" /\ run[c].sick
    /\ record_failure
    /\ Becomes(c, NextTurn([run[c] EXCEPT !.misses = @ + 1]))
    /\ UNCHANGED <<up, proposal, evidence, worldVars>>

\* Timeout, refused connection, error status: no text, no entry.
NoAnswer(c) ==
    /\ run[c].pc = "calling" /\ run[c].sick
    /\ record_failure
    /\ Becomes(c, Malformed([run[c] EXCEPT !.misses = @ + 1]))
    /\ UNCHANGED <<up, proposal, evidence, worldVars>>

Answered(c) ==
    /\ run[c].pc = "calling" /\ up
    /\ record_success
    /\ UNCHANGED <<up, evidence, worldVars>>

\* Too long or not JSON: no entry.  An unknown action or an envelope of
\* another protocol: an entry.
Useless(c) ==
    /\ Answered(c)
    /\ \/ Becomes(c, Malformed([run[c] EXCEPT !.misses = 0]))
       \/ Becomes(c, Malformed(Noted(run[c])))
    /\ UNCHANGED proposal

GivesUp(c) ==
    /\ Answered(c)
    /\ Becomes(c, {Ended(Noted(run[c]), "no_safe_fix")})
    /\ UNCHANGED proposal

(***************************************************************************)
(* A proposal: discarded, or built and judged by the policy engine in the  *)
(* same step, which ends the investigation either way.                     *)
(***************************************************************************)
Proposes(c) ==
    /\ Answered(c)
    /\ \E p \in Reply :
          IF Grounded(p, evidence[c])
          THEN /\ Becomes(c, {Ended(Noted(run[c]), "proposal")})
               /\ proposal' = [proposal EXCEPT ![c] =
                     [status |-> IF Eligible(p, policy)
                                 THEN "suggested" ELSE "rejected",
                      target |-> EligibleTarget(p, policy)]]
          ELSE /\ Becomes(c, Malformed(Noted(run[c])))
               /\ UNCHANGED proposal

\* A field of a type the parser does not expect (a validation_plan that is
\* a list) raises out of the loop; the trace is lost with it.
Raises(c) ==
    /\ Answered(c)
    /\ Becomes(c, {Ended(Begun, "raised")})
    /\ UNCHANGED proposal

\* A request for evidence, or one too many.
Requests(c) ==
    /\ Answered(c)
    /\ IF run[c].tools < MaxToolCalls
       THEN \E s \in Source, p \in Pod :
               run' = [run EXCEPT ![c] =
                  [Noted(run[c]) EXCEPT !.pc = "tool",
                      !.asked = <<s, IF s = "logs" THEN p ELSE NoPod>>]]
       ELSE Becomes(c, Malformed(Noted(run[c])))
    /\ UNCHANGED proposal

-----------------------------------------------------------------------------
(***************************************************************************)
(* call_tool.  It may fail whatever is asked; logs are only read of a Pod  *)
(* that this investigation was shown.                                      *)
(***************************************************************************)
\* The Pods an answer may name: a listing has the one there is, or none, since
\* list_pods answers a failure of the API with an empty list.
Shown(r, ok) == IF ok /\ r.asked[1] = "pods" THEN {{}, {pod}} ELSE {{}}

Result(r, ok, shown) ==
    [r EXCEPT !.trace[Len(r.trace)] =
                  [turn |-> r.iteration, source |-> r.asked[1], ok |-> ok,
                   pod |-> IF shown = {} THEN r.asked[2] ELSE pod],
              !.known = @ \cup shown]

\* The test that is enough for containers, which an answer without any
\* container state leaves unknown.
Allows_WhenKnown(r, ok) ==
    ok /\ r.asked[1] = "logs" /\ r.known # {} => r.asked[2] \in r.known

Allows(r, ok) == ok /\ r.asked[1] = "logs" => r.asked[2] \in r.known

\* A failed call is on the trace but is not charged to the budget.
Collected_Free(r, ok, shown) ==
    [Result(r, ok, shown) EXCEPT !.tools = IF ok THEN @ + 1 ELSE @, !.malformed = 0]

Collected(r, ok, shown) ==
    [Result(r, ok, shown) EXCEPT !.tools = @ + 1, !.malformed = 0]

ToolAnswers(c) ==
    /\ run[c].pc = "tool"
    /\ \E ok \in BOOLEAN :
          /\ Allows(run[c], ok)
          /\ \E shown \in Shown(run[c], ok) :
                Becomes(c, NextTurn(Collected(run[c], ok, shown)))
    /\ UNCHANGED <<healthVars, up, proposal, evidence, worldVars>>

-----------------------------------------------------------------------------
(***************************************************************************)
(* An authorised proposal: fresh evidence, the policy gate once more, the  *)
(* engine's gate and the write, which an administrator's change of         *)
(* configuration may separate, and the validation of its effect.           *)
(***************************************************************************)
Mark(c, status) == proposal' = [proposal EXCEPT ![c].status = status]

Authorise(c) ==
    /\ run[c].pc = "idle" /\ proposal[c].status = "suggested"
    /\ Mark(c, "checking")
    /\ run' = [run EXCEPT ![c] = Idle]
    /\ UNCHANGED <<healthVars, up, evidence, worldVars>>

Recheck(c) ==
    /\ proposal[c].status = "checking"
    /\ evidence' = [evidence EXCEPT ![c] = deployment]
    /\ LET p == proposal[c].target
       IN  proposal' = [proposal EXCEPT ![c] =
              [status |-> IF Eligible(p, policy) THEN "executing" ELSE "rejected",
               target |-> EligibleTarget(p, policy)]]
    /\ UNCHANGED <<healthVars, up, run, worldVars>>

\* A call that fails was refused, or applied and only its answer was lost.
Execute(c) ==
    /\ proposal[c].status = "executing"
    /\ LET p == proposal[c].target
       IN  \/ /\ Refused(p, policy) \/ ~policy.dry_run
              /\ Mark(c, "failed")
              /\ UNCHANGED <<deployment, ran>>
           \/ /\ ~Refused(p, policy) /\ policy.dry_run
              /\ Mark(c, "executed")
              /\ UNCHANGED <<deployment, ran>>
           \/ /\ ~Refused(p, policy) /\ ~policy.dry_run
              /\ Mark(c, "executed") \/ Mark(c, "failed")
              /\ deployment' = Written(p, deployment, policy)
              /\ ran' = ran \cup deployment'.images
    /\ UNCHANGED <<healthVars, up, run, evidence, pod, policy, digs, disturbances>>

Validate(c) ==
    /\ proposal[c].status = "executed"
    /\ Mark(c, "validated") \/ Mark(c, "failed")
    /\ UNCHANGED <<healthVars, up, run, evidence, worldVars>>

-----------------------------------------------------------------------------
(***************************************************************************)
(* What happens around it.  A call is sick when the provider fails while   *)
(* it is in flight, even if the provider has recovered by the time the     *)
(* call gives up.                                                          *)
(***************************************************************************)
InFlight(c) == run[c].pc \in {"calling", "enriching"}

ProviderFails ==
    /\ up /\ up' = FALSE
    /\ run' = [c \in Caller |->
                 IF InFlight(c) THEN [run[c] EXCEPT !.sick = TRUE] ELSE run[c]]
    /\ UNCHANGED <<healthVars, proposal, evidence, worldVars>>

ProviderRecovers ==
    /\ ~up /\ up' = TRUE
    /\ UNCHANGED <<healthVars, run, proposal, evidence, worldVars>>

CircuitCools ==
    /\ CooldownEnds
    /\ UNCHANGED <<up, run, proposal, evidence, worldVars>>

Disturb == /\ disturbances < MaxDisturbances
           /\ disturbances' = disturbances + 1
           /\ UNCHANGED <<healthVars, up, run, proposal, evidence, digs>>

\* A release, or the pruning of old revisions.
HistoryChanges ==
    /\ Disturb
    /\ \/ \E i \in Plausible : deployment' = [deployment EXCEPT !.image = i,
                                                 !.images = @ \cup {i}]
       \/ deployment' = [deployment EXCEPT !.images = {deployment.image}]
    /\ ran' = ran \cup deployment'.images
    /\ UNCHANGED <<pod, policy>>

PodReplaced ==
    /\ Disturb
    /\ pod' \in Pod \ {pod}
    /\ UNCHANGED <<deployment, ran, policy>>

PolicyChanges ==
    /\ Disturb
    /\ policy' \in Policies \ {policy}
    /\ UNCHANGED <<deployment, pod, ran>>

-----------------------------------------------------------------------------
Init ==
    /\ HealthInit /\ up = TRUE
    /\ run = [c \in Caller |-> Idle]
    /\ proposal = [c \in Caller |-> NoProposal]
    /\ deployment = FirstDeployment
    /\ evidence = [c \in Caller |-> FirstDeployment]
    /\ pod = FirstPod
    /\ ran = FirstDeployment.images
    /\ policy = FirstPolicy
    /\ digs = 0
    /\ disturbances = 0

Answers(c) == \/ NoAnswer(c) \/ Useless(c) \/ GivesUp(c) \/ Proposes(c)
              \/ Raises(c) \/ Requests(c) \/ EnrichAnswers(c)

Human(c) == Authorise(c) \/ Recheck(c) \/ Execute(c) \/ Validate(c)

World == \/ ProviderFails \/ ProviderRecovers
         \/ HistoryChanges \/ PodReplaced \/ PolicyChanges

Next == \/ World \/ CircuitCools
        \/ \E c \in Caller : \/ StartDeep(c) \/ StartEnrich(c) \/ Answers(c)
                             \/ ToolAnswers(c) \/ Human(c)

Spec == Init /\ [][Next]_vars

(***************************************************************************)
(* The reasoner, metric, log and source clients have timeouts, so their    *)
(* calls are answered or given up.  The tools over Kubernetes have none:   *)
(* that they return is an assumption on its API.  A cooldown is a period   *)
(* of time.  Nothing forces a lifecycle to begin an investigation, the     *)
(* provider to recover or a human to authorise.                            *)
(***************************************************************************)
FairSpec == /\ Spec
            /\ \A c \in Caller : WF_vars(Answers(c) \/ ToolAnswers(c))
            /\ WF_vars(CircuitCools)

-----------------------------------------------------------------------------
\* Every variable keeps its type: in particular no investigation leaves the
\* bounds of its settings, and a target has a value of its field.
TypeOK ==
    /\ failures \in 0..FailureThreshold /\ open \in BOOLEAN /\ up \in BOOLEAN
    /\ \A c \in Caller :
          /\ run[c].pc \in {"idle", "calling", "tool", "enriching"}
          /\ run[c].iteration \in 0..MaxIterations
          /\ run[c].malformed \in 0..(MaxMalformed - 1)
          /\ run[c].known \subseteq Pod
          /\ run[c].outcome \in {"none", "running", "proposal", "no_safe_fix",
                                 "raised"}
          /\ evidence[c] \in Deployment
          /\ \/ proposal[c] = NoProposal
             \/ /\ proposal[c].status \in {"suggested", "rejected", "checking",
                       "executing", "executed", "validated", "failed"}
                /\ proposal[c].target \in Proposal
    /\ deployment \in Deployment /\ pod \in Pod /\ policy \in Policies
    /\ ran \subseteq Image
    /\ digs \in 0..MaxDigs /\ disturbances \in 0..MaxDisturbances

(***************************************************************************)
(* The trace an operator is shown is what happened (deep_investigation.py: *)
(* "every returned result must be recorded"): its evidence count is the    *)
(* number of entries with evidence and within the budget, its turns are in *)
(* order and within the limit, and a proposal comes from the last turn.    *)
(* Whether a call marked as a success really was one it does not say: an   *)
(* empty list of Pods after a failure of the API is marked so too.         *)
(***************************************************************************)
Collections(r) == {k \in DOMAIN r.trace : r.trace[k].source # "none"}

TraceIsTrue ==
    \A c \in Caller : LET r == run[c] IN
        /\ r.tools = Cardinality(Collections(r)) /\ r.tools <= MaxToolCalls
        /\ \A j, k \in DOMAIN r.trace :
              j < k => r.trace[j].turn < r.trace[k].turn
        /\ \A k \in DOMAIN r.trace : r.trace[k].turn \in 1..r.iteration
        /\ r.outcome = "proposal" =>
              /\ r.trace[Len(r.trace)] = Turn(r.iteration)
              /\ proposal[c].status # "none"

(***************************************************************************)
(* Logs are only read of a Pod that the cluster itself named earlier in    *)
(* the same investigation, not in one before it (ToolContext: "start empty *)
(* ... keeps get_container_logs from accepting a pod/container the model   *)
(* merely asserts exists").                                                *)
(***************************************************************************)
LogsOfSeenPods ==
    \A c \in Caller : \A k \in DOMAIN run[c].trace :
        LET t == run[c].trace IN
        t[k].source = "logs" /\ t[k].ok =>
            \E j \in 1..(k - 1) :
                t[j].source = "pods" /\ t[j].ok /\ t[j].pod = t[k].pod

(***************************************************************************)
(* During an outage no investigation spends its turns on a provider that   *)
(* does not answer, although it never looks at the circuit again.          *)
(***************************************************************************)
OutageIsBrief ==
    \A c \in Caller : run[c].pc = "calling" => run[c].misses < MaxMalformed

(***************************************************************************)
(* What an authorised proposal writes obeys the configuration in force at  *)
(* the write and not the one it was suggested or checked under, and an     *)
(* image is one the Deployment has run, even if its history is gone.       *)
(***************************************************************************)
Writes(c) == /\ proposal[c].status = "executing"
             /\ proposal'[c].status # "executing"
             /\ deployment' # deployment

WriteIsInside(c) ==
    LET field == proposal[c].target.field IN
        /\ policy.permitted /\ ~policy.dry_run
        /\ field = "replicas" => deployment'.replicas \in policy.min..policy.max
        /\ field = "image"    => deployment'.image \in ran
        /\ field # "secret"

WritesStayInside == [][\A c \in Caller : Writes(c) => WriteIsInside(c)]_vars

\* Every investigation ends, whatever the provider and the cluster do: a
\* lifecycle is outside of one again and again.
InvestigationsEnd == \A c \in Caller : []<>(run[c].pc = "idle")

(***************************************************************************)
(* A provider that stays up is used again: answers that were lost arrive   *)
(* late and may arm the cooldown after the recovery, but not for ever, and *)
(* a closed circuit needs no success to close.                             *)
(***************************************************************************)
CircuitRecloses == <>[]up => <>[]~circuit_open
=============================================================================
