------------------------------ MODULE Diagnosis ------------------------------
(***************************************************************************)
(* The pure part of a lifecycle, from evidence to authorised action:       *)
(* app/lifecycle/correlation.py, rca.py, learning.py, memory.py,           *)
(* decision.py and policy.py.  Each is a function of its arguments in the  *)
(* code and an operator here.                                              *)
(*                                                                         *)
(* Confidence and multipliers are counted in ten-thousandths, rounded      *)
(* down.  The code computes with binary floating point: the sums that      *)
(* equal a threshold here can be a hair below it there (README, Bounds).   *)
(***************************************************************************)
EXTENDS Integers, Sequences, FiniteSetsExt

CONSTANTS
    Template,      \* pod templates
    ContainersOf,  \* ContainersOf[t]: its container images, init ones apart
    Malformed,     \* templates with a placeholder or malformed image
    MinReplicas,
    MaxReplicas,
    MaxActions     \* max_actions_per_incident

ASSUME DiagnosisAssumption ==
    /\ Malformed \subseteq Template
    /\ DOMAIN ContainersOf = Template
    /\ MinReplicas \in Nat \ {0} /\ MaxReplicas \in Nat
    /\ MinReplicas <= MaxReplicas
    /\ MaxActions \in Nat

One        == 10000
NoRevision == 0

\* What the collectors can show, once compared with its threshold.
Sign == {"errors", "latency", "down", "crash", "memory", "busy", "cpu",
         "unavailable", "degraded", "undelivered"}

Source == {"metrics", "logs", "k8s"}

Fault == {"db", "http", "latency", "notification"}

Remedy == {"restart", "rollback", "scale", "reset"}

(***************************************************************************)
(* Evidence: which sources answered, what they show, and the ReplicaSets   *)
(* of the Deployment, newest first.  ready of the first is "all its Pods   *)
(* are ready", of the others "some still serve"; recent is "inside the     *)
(* correlation window".                                                    *)
(***************************************************************************)
ReplicaSet == [rev : Nat \ {0}, template : Template, ready : BOOLEAN,
               recent : BOOLEAN]

-----------------------------------------------------------------------------
(***************************************************************************)
(* correlation.py                                                          *)
(***************************************************************************)

\* Any reference is plausible.
ImagesValid_Always(template) == TRUE

\* _looks_like_a_valid_image_reference of every image of the template.
ImagesValid(template) == template \notin Malformed

\* The newest older ReplicaSet whose images are not known to be bad, by
\* position; 0 when there is none (_find_valid_rollback_candidate).
RollbackCandidate(history) ==
    LET valid == {k \in 2..Len(history) : ImagesValid(history[k].template)}
    IN  IF valid = {} THEN 0 ELSE Min(valid)

\* The newest ReplicaSet is not ready and its predecessor covers for it.
RolloutStalled(history) ==
    Len(history) > 1 /\ ~history[1].ready /\ history[2].ready

CapacityPressure(signs) ==
    {"latency", "busy"} \subseteq signs
    /\ signs \cap {"errors", "crash", "unavailable"} = {}

(***************************************************************************)
(* A deployment explains the symptoms when it is recent, there is a        *)
(* symptom it could explain, and no fault was injected.                    *)
(***************************************************************************)
CorrelatesWithOnset(e) ==
    /\ e.history # <<>> /\ e.history[1].recent
    /\ \/ e.signs \cap {"errors", "latency", "crash", "unavailable"} # {}
       \/ RolloutStalled(e.history)
    /\ e.chaos = {}

Correlate(e) ==
    LET k == RollbackCandidate(e.history)
    IN  [signs    |-> e.signs,
         chaos    |-> e.chaos,
         onset    |-> CorrelatesWithOnset(e),
         recent   |-> e.history # <<>> /\ e.history[1].recent,
         count    |-> Len(e.history),
         current  |-> IF e.history = <<>> THEN NoRevision ELSE e.history[1].rev,
         previous |-> IF k = 0 THEN NoRevision ELSE e.history[k].rev,
         changed  |-> /\ k # 0
                      /\ ContainersOf[e.history[1].template]
                            # ContainersOf[e.history[k].template],
         metrics  |-> e.metrics,
         logs     |-> e.logs,
         k8s      |-> e.k8s,
         replicas |-> e.replicas]

-----------------------------------------------------------------------------
(***************************************************************************)
(* rca.py                                                                  *)
(***************************************************************************)
(***************************************************************************)
(* The rules of analyse, most specific first.  A rule is its condition,    *)
(* the cause it concludes, its confidence and the action it recommends.    *)
(***************************************************************************)
CauseRules(f) == <<
    <<"db" \in f.chaos,                         "chaos", 9700, "reset">>,
    <<"http" \in f.chaos,                       "chaos", 9600, "reset">>,
    <<"latency" \in f.chaos,                    "chaos", 9600, "reset">>,
    <<"notification" \in f.chaos,               "chaos", 9500, "reset">>,
    <<f.onset /\ f.previous # NoRevision,       "bad_deployment",
                            IF f.changed THEN 9600 ELSE 9000, "rollback">>,
    <<"crash" \in f.signs,                      "crash_loop", 7500, "restart">>,
    <<"memory" \in f.signs /\ ~f.recent,        "memory_leak", 9200, "restart">> >>

SymptomRules(f) == <<
    <<CapacityPressure(f.signs),                "capacity", 9000, "scale">>,
    <<"cpu" \in f.signs,                        "cpu", 8800, "scale">>,
    <<{"down", "unavailable"} \cap f.signs # {}, "service_down", 8500, "restart">>,
    <<{"degraded", "undelivered"} \cap f.signs # {},
                                                "downstream", 7000, "escalate">>,
    <<{"errors", "latency"} \cap f.signs # {},  "unknown", 6000, "restart">>,
    <<TRUE,                                     "unknown", 3000, "escalate">> >>

Rules(f) == CauseRules(f) \o SymptomRules(f)

\* _hypothesis: what could not be seen lowers the confidence.
Blindness(f) == (IF f.k8s THEN 0 ELSE 1000) + (IF f.logs THEN 0 ELSE 500)
                + (IF f.metrics THEN 0 ELSE 1500)

RULE_CONFIDENCE_MAX == 9900

\* The first rule that matches concludes.
Analyse(f) ==
    LET rules == Rules(f)
        first == rules[Min({k \in DOMAIN rules : rules[k][1]})]
    IN  [cause      |-> first[2],
         action     |-> first[4],
         confidence |-> Max({0, Min({RULE_CONFIDENCE_MAX,
                                     first[3] - Blindness(f)})})]

LLM_CONFIDENCE_DELTA_CAP_Wide == 500

LLM_CONFIDENCE_DELTA_CAP == 300
LLM_CONFIDENCE_CEILING   == 9700

(***************************************************************************)
(* enrich_with_llm and apply_llm_response.  The reasoner is absent, paused *)
(* by its breaker, failing or unreadable, or it names another cause or     *)
(* another action (all "unused"): the rules stand.  Only an answer that    *)
(* agrees on both moves the confidence, towards the one it proposes and by *)
(* no more than the cap.                                                   *)
(***************************************************************************)
Enrich(h, reply) ==
    IF ~reply.agrees THEN h
    ELSE LET cap   == LLM_CONFIDENCE_DELTA_CAP
             delta == Max({-cap, Min({cap, reply.proposes - h.confidence})})
         IN  [h EXCEPT !.confidence =
                Max({0, Min({LLM_CONFIDENCE_CEILING, h.confidence + delta})})]

-----------------------------------------------------------------------------
(***************************************************************************)
(* learning.py and memory.py: what past attempts say of an action.         *)
(***************************************************************************)

\* A row that is corrupted (more validated than attempts) is not clamped.
LearningBias_Unclamped(rows) ==
    IF rows.attempts < 3 THEN One
    ELSE 8500 + (1500 * rows.validated) \div rows.attempts

\* build_bias: from three attempts on, between 0.85 and 1.
LearningBias(rows) ==
    IF rows.attempts < 3 THEN One
    ELSE Max({8500, Min({One, 8500 + (1500 * rows.validated) \div rows.attempts})})

\* build_similarity_bias: from two similar incidents on, between 0.92 and
\* 1; weights are the similarity scores of those that worked and of all.
MemoryBias(votes) ==
    IF votes.count < 2 \/ votes.total = 0 THEN One
    ELSE Max({9200, Min({One, 9200 + (800 * votes.worked) \div votes.total})})

\* merge_bias: independent cautions multiply.
MergeBias(rows, votes) == (LearningBias(rows) * MemoryBias(votes)) \div One

-----------------------------------------------------------------------------
(***************************************************************************)
(* decision.py                                                             *)
(***************************************************************************)
ACTION_LADDER ==
    [chaos          |-> <<"reset", "restart">>,
     bad_deployment |-> <<"rollback", "restart">>,
     crash_loop     |-> <<"restart">>,
     memory_leak    |-> <<"restart">>,
     capacity       |-> <<"scale">>,
     cpu            |-> <<"scale", "restart">>,
     service_down   |-> <<"restart">>,
     downstream     |-> <<>>,
     unknown        |-> <<>>]

FALLBACK_DISCOUNT == 300

\* One more than the replicas seen, or than the minimum when none were.
ScaleTarget(f) == 1 + (IF f.k8s THEN f.replicas ELSE MinReplicas)

\* _params_for: an action without parameters is not proposed.
Possible(action, f) ==
    /\ action = "rollback" => f.previous # NoRevision
    /\ action = "scale"    => ScaleTarget(f) <= MaxReplicas

Discounted(h, step, bias) ==
    Max({0, Min({One, ((h.confidence - FALLBACK_DISCOUNT * (step - 1)) * bias)
                        \div One})})

(***************************************************************************)
(* candidates: the ladder of the cause, in order, without what this        *)
(* incident has tried and what cannot be done.  (In every rule whose cause *)
(* has a ladder, the recommended action is its first.)                     *)
(***************************************************************************)
Candidates(h, f, attempted, bias) ==
    LET ladder == ACTION_LADDER[h.cause]
        usable == {k \in DOMAIN ladder :
                      /\ ladder[k] \notin attempted
                      /\ Possible(ladder[k], f)}
        plan(k) == [action     |-> ladder[k],
                    confidence |-> Discounted(h, k, bias[ladder[k]]),
                    revision   |-> f.previous,
                    replicas   |-> Max({MinReplicas, ScaleTarget(f)})]
    IN  IF h.action = "escalate" THEN <<>>
        ELSE [j \in 1..Cardinality(usable) |->
                 plan(CHOOSE k \in usable :
                         Cardinality({i \in usable : i <= k}) = j)]

-----------------------------------------------------------------------------
(***************************************************************************)
(* policy.py, evaluate.  context holds what the orchestrator adds to the   *)
(* findings (_policy_context); permitted stands for the deny and allow     *)
(* lists of namespaces and Deployments, which are configuration.           *)
(***************************************************************************)
Threshold(action) == IF action = "rollback" THEN 9500 ELSE 9000

\* _check_rollback; reversible and "history is present" are one condition.
MayRollBack(f, context) ==
    /\ f.previous # NoRevision
    /\ f.count >= 2
    /\ f.onset /\ f.recent
    /\ context.api /\ context.health

\* _check_scale and the engine's own clamp: never below one replica.
Clamped(replicas) == Max({MinReplicas, Min({MaxReplicas, replicas})})

Allowed(plan, f, count, context) ==
    /\ context.permitted
    /\ count < MaxActions
    /\ plan.action \notin context.cooling
    /\ plan.confidence >= Threshold(plan.action)
    /\ plan.action = "rollback" => MayRollBack(f, context)
    /\ plan.action = "scale"    => plan.replicas >= 1
    /\ plan.action = "reset"    => context.chaos
=============================================================================
