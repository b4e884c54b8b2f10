----------------------------- MODULE Remediation -----------------------------
(***************************************************************************)
(* A lifecycle's closed loop on one Deployment: evidence, diagnosis,       *)
(* policy, execution (app/lifecycle/remediation.py), recovery validation   *)
(* (validation.py) and round again, against a Deployment other people      *)
(* change too.  Incidents come one after the other; how several share a    *)
(* Deployment, and what is saved when, is Orchestrator and IncidentLease.  *)
(*                                                                         *)
(* Every read of the cluster and every write to it is an await, so the     *)
(* cluster moves on between evidence, decision, re-read and patch.         *)
(***************************************************************************)
EXTENDS Diagnosis

CONSTANTS
    Broken,           \* well-formed templates whose Pods never get ready
    Setups,           \* the configurations to consider
    Histories,        \* the templates a Deployment starts with, newest first
    Outages,          \* the sets of sources that may be down together
    Pictures,         \* the sets of signs monitoring may show
    Proposals,        \* the confidences a reasoner may propose
    PastRows,         \* what learning may find of the actions: functions
    PastVotes,        \* what memory may find of similar incidents
    MaxCycles,        \* MAX_LIFECYCLE_CYCLES
    MaxPolls,         \* validation polls before its timeout
    MaxIncidents,     \* bound: incidents, one after the other
    MaxDisturbances   \* bound: changes made by anybody but Sentinel

ASSUME RemediationAssumption ==
    /\ Broken \subseteq Template \ Malformed
    /\ Setups \subseteq [api : BOOLEAN, health : BOOLEAN, chaos : BOOLEAN,
                         dry_run : BOOLEAN, permitted : BOOLEAN]
    /\ Histories \subseteq Seq(Template) \ {<<>>}
    /\ Outages \subseteq SUBSET Source
    /\ Pictures \subseteq SUBSET Sign
    /\ Proposals \subseteq Int
    /\ PastRows \subseteq [Remedy -> [attempts : Nat, validated : Nat]]
    /\ PastVotes \subseteq [count : Nat, total : Nat, worked : Nat]
    /\ MaxCycles \in Nat \ {0} /\ MaxPolls \in Nat \ {0}
    /\ MaxIncidents \in Nat /\ MaxDisturbances \in Nat

VARIABLES
    setup,        \* the configuration: clients, dry run, allow-lists
    cluster,      \* the Deployment: history, template, replicas, faults
    incident,     \* the incident being worked on
    cooling,      \* actions other incidents ran within the cooldown
    opened,       \* incidents opened so far
    disturbances  \* changes by others so far

vars == <<setup, cluster, incident, cooling, opened, disturbances>>

-----------------------------------------------------------------------------
NoTemplate == "none"

(***************************************************************************)
(* template is spec.template when the Deployment controller has not acted  *)
(* on it yet, and NoTemplate once history starts with it.  foreign says    *)
(* that somebody else changed the Deployment since Sentinel last wrote.    *)
(***************************************************************************)
Newest == cluster.history[1]

\* The Pods of the newest ReplicaSet are all ready (a template nobody acted
\* on has no Pods yet: those of the old one answer).
PodsReady == Newest.ready

Working(template) == template \notin Broken \cup Malformed

\* A new ReplicaSet, whose Pods are not ready yet.
Rolled(c, template) ==
    [c EXCEPT !.history =
        <<[rev |-> @[1].rev + 1, template |-> template, ready |-> FALSE,
           recent |-> TRUE]>> \o @,
              !.template = NoTemplate]

NoIncident == [pc |-> "none"]

At(pc) == incident.pc = pc

\* Sentinel patches the template: the annotation it stamps makes it new.
Patch(template) ==
    cluster' = [cluster EXCEPT !.template = template, !.foreign = FALSE]

-----------------------------------------------------------------------------
(***************************************************************************)
(* Everybody else.  The controller and the kubelets are not bounded, the   *)
(* people and the accidents are.                                           *)
(***************************************************************************)
Disturb == /\ disturbances < MaxDisturbances
           /\ disturbances' = disturbances + 1

ControllerActs ==
    /\ cluster.template # NoTemplate
    /\ cluster' = Rolled(cluster, cluster.template)
    /\ UNCHANGED <<setup, incident, cooling, opened, disturbances>>

\* The new Pods are ready, the old ones and their faults are gone.
RolloutCompletes ==
    /\ ~Newest.ready /\ Working(Newest.template)
    /\ cluster' = [cluster EXCEPT
          !.history = [k \in DOMAIN @ |-> [@[k] EXCEPT !.ready = (k = 1)]],
          !.faults  = {}]
    /\ UNCHANGED <<setup, incident, cooling, opened, disturbances>>

\* A build nobody has deployed before.
Deploy(template) ==
    /\ Disturb
    /\ \A k \in DOMAIN cluster.history : cluster.history[k].template # template
    /\ cluster' = [cluster EXCEPT !.template = template, !.foreign = TRUE]
    /\ UNCHANGED <<setup, incident, cooling, opened>>

\* kubectl rollout undo: the old ReplicaSet is used again, and renumbered.
Undo(k) ==
    /\ Disturb
    /\ k \in 2..Len(cluster.history) /\ cluster.template = NoTemplate
    /\ cluster' = [cluster EXCEPT
          !.history = <<[@[k] EXCEPT !.rev = Newest.rev + 1]>>
                      \o SubSeq(@, 1, k - 1) \o SubSeq(@, k + 1, Len(@)),
          !.foreign = TRUE]
    /\ UNCHANGED <<setup, incident, cooling, opened>>

\* revisionHistoryLimit drops the oldest ReplicaSet.
Prune ==
    /\ Disturb
    /\ Len(cluster.history) > 1 /\ ~cluster.history[Len(cluster.history)].ready
    /\ cluster' = [cluster EXCEPT !.history = SubSeq(@, 1, Len(@) - 1)]
    /\ UNCHANGED <<setup, incident, cooling, opened>>

\* Pods fail, or a fault is injected into one.
Accident ==
    /\ Disturb
    /\ \/ Newest.ready /\ cluster' = [cluster EXCEPT !.history[1].ready = FALSE]
       \/ \E f \in Fault : cluster' = [cluster EXCEPT !.faults = {f}]
    /\ UNCHANGED <<setup, incident, cooling, opened>>

\* Time: the correlation window is over, or a cooldown.
TimePasses ==
    /\ \/ /\ Newest.recent
          /\ cluster' = [cluster EXCEPT !.history =
                [k \in DOMAIN @ |-> [@[k] EXCEPT !.recent = FALSE]]]
          /\ UNCHANGED cooling
       \/ /\ \E a \in cooling : cooling' = cooling \ {a}
          /\ UNCHANGED cluster
    /\ UNCHANGED <<setup, incident, opened, disturbances>>

-----------------------------------------------------------------------------
(***************************************************************************)
(* From INVESTIGATION to REMEDIATION DECISION.                             *)
(***************************************************************************)
AlertOpens ==
    /\ incident.pc \in {"none", "resolved", "escalated"}
    /\ opened < MaxIncidents
    /\ opened' = opened + 1
    /\ incident' = [pc |-> "investigating", cycle |-> 1, attempted |-> {}]
    /\ UNCHANGED <<setup, cluster, cooling, disturbances>>

(***************************************************************************)
(* What the collectors may bring home.  Metrics are scraped and averaged,  *)
(* so a picture need not be the cluster's of this instant; ReplicaSets are *)
(* read from the API.  A source that fails shows nothing of its own.       *)
(***************************************************************************)
Evidence ==
    {e \in [metrics  : BOOLEAN,
            logs     : BOOLEAN,
            k8s      : BOOLEAN,
            signs    : Pictures,
            chaos    : {cluster.faults, {}},
            history  : {cluster.history, <<>>},
            replicas : {cluster.replicas}] :
        /\ {s \in DOMAIN e : s \in Source /\ ~e[s]} \in Outages
        /\ ~e.metrics => e.signs \cap {"errors", "down"} = {}
        /\ ~e.k8s     => e.signs \cap {"unavailable"} = {}
        /\ ~setup.api => /\ ~e.k8s /\ e.history = <<>>
                         /\ e.signs \cap {"crash", "unavailable"} = {}}

Diagnosed(f) ==
    [pc |-> "diagnosed", cycle |-> incident.cycle,
     attempted |-> incident.attempted, findings |-> f,
     rules |-> Analyse(f), hypothesis |-> Analyse(f),
     plans |-> <<>>, executed |-> FALSE, template |-> NoTemplate]

\* The evidence is saved, correlated and given to the rules.
Investigate ==
    /\ At("investigating")
    /\ \E e \in Evidence : incident' = Diagnosed(Correlate(e))
    /\ UNCHANGED <<setup, cluster, cooling, opened, disturbances>>

Replies == {[agrees |-> FALSE]} \cup [agrees : {TRUE}, proposes : Proposals]

Escalated == [pc |-> "escalated"]

\* The reasoner is awaited, then memory and learning are read and the
\* candidates listed.  No candidate at all: a human has to decide.
Decide ==
    /\ At("diagnosed")
    /\ \E reply \in Replies, rows \in PastRows, votes \in PastVotes :
          LET h     == Enrich(incident.rules, reply)
              bias  == [a \in Remedy |-> MergeBias(rows[a], votes)]
              plans == Candidates(h, incident.findings, incident.attempted, bias)
          IN  incident' = IF plans = <<>> THEN Escalated
                          ELSE [incident EXCEPT !.pc = "policy",
                                                !.hypothesis = h, !.plans = plans]
    /\ UNCHANGED <<setup, cluster, cooling, opened, disturbances>>

-----------------------------------------------------------------------------
(***************************************************************************)
(* POLICY CHECK.  The first plan of the list is the one at hand.           *)
(***************************************************************************)
Plan == incident.plans[1]

Count == Cardinality(incident.attempted)

Context == [permitted |-> setup.permitted, cooling |-> cooling,
            api |-> setup.api, health |-> setup.health, chaos |-> setup.chaos]

\* Cycles are not counted.
NextCycle_Uncounted(attempted) ==
    \/ /\ Cardinality(attempted) < MaxActions
       /\ incident' = [pc |-> "investigating", cycle |-> incident.cycle + 1,
                       attempted |-> attempted]
    \/ incident' = Escalated

\* Another look at the system, unless cycles, actions or time are used up.
NextCycle(attempted) ==
    \/ /\ incident.cycle < MaxCycles /\ Cardinality(attempted) < MaxActions
       /\ incident' = [pc |-> "investigating", cycle |-> incident.cycle + 1,
                       attempted |-> attempted]
    \/ incident' = Escalated

CheckPolicy ==
    /\ At("policy") /\ incident.plans # <<>>
    /\ incident' =
          IF Allowed(Plan, incident.findings, Count, Context)
          THEN [incident EXCEPT !.pc = "executing"]
          ELSE [incident EXCEPT !.plans = Tail(@)]
    /\ UNCHANGED <<setup, cluster, cooling, opened, disturbances>>

\* Denials alone are final; an execution that failed is worth another look.
OutOfPlans ==
    /\ At("policy") /\ incident.plans = <<>>
    /\ IF incident.executed THEN NextCycle(incident.attempted)
                            ELSE incident' = Escalated
    /\ UNCHANGED <<setup, cluster, cooling, opened, disturbances>>

-----------------------------------------------------------------------------
(***************************************************************************)
(* AUTONOMOUS EXECUTION.  Whatever comes of it, the attempt is recorded    *)
(* and its cooldown starts for other incidents.                            *)
(***************************************************************************)
Attempted == incident.attempted \cup {Plan.action}

Recorded == /\ cooling' = cooling \cup {Plan.action}
            /\ UNCHANGED <<setup, opened, disturbances>>

Succeeds == incident' = [pc |-> "settling", cycle |-> incident.cycle,
                         attempted |-> Attempted, polls |-> 0]

\* The next candidate, without a new look at the system.
Fails == incident' = [incident EXCEPT !.pc = "policy", !.plans = Tail(@),
                                      !.executed = TRUE, !.attempted = Attempted]

\* Nothing is sent: DRY_RUN, or no Kubernetes client.
NothingSent ==
    /\ At("executing")
    /\ \/ setup.dry_run /\ Succeeds
       \/ ~setup.dry_run /\ ~setup.api /\ Plan.action # "reset" /\ Fails
    /\ Recorded
    /\ UNCHANGED cluster

Sending(action) == /\ At("executing") /\ ~setup.dry_run
                   /\ Plan.action = action
                   /\ action = "reset" \/ setup.api

(***************************************************************************)
(* A patch is applied and acknowledged, or an error is reported: then it   *)
(* was refused, or applied and only the answer was lost.                   *)
(***************************************************************************)
Call(patch) ==
    \/ patch /\ (Succeeds \/ Fails)
    \/ UNCHANGED cluster /\ Fails

\* The annotation goes onto whatever template the Deployment has by now.
Restart ==
    /\ Sending("restart")
    /\ Call(Patch(IF cluster.template = NoTemplate THEN Newest.template
                                                   ELSE cluster.template))
    /\ Recorded

Scale ==
    /\ Sending("scale")
    /\ Call(cluster' = [cluster EXCEPT !.replicas = Clamped(Plan.replicas)])
    /\ Recorded

\* Any answer but 200 fails; without an answer it is a transient failure.
\* One Pod answers, and only that one forgets its faults.
Reset ==
    /\ Sending("reset")
    /\ \E left \in {{}, cluster.faults} :
          cluster' = [cluster EXCEPT !.faults = left]
    /\ Succeeds \/ Fails \/ NextCycle(Attempted)
    /\ Recorded

(***************************************************************************)
(* _rollback, first half: the ReplicaSets are read again, and the plan's   *)
(* revision is looked up among them.  It may be gone, or the call fail.    *)
(***************************************************************************)
Reread ==
    /\ Sending("rollback")
    /\ \/ \E k \in DOMAIN cluster.history :
             /\ cluster.history[k].rev = Plan.revision
             /\ incident' = [incident EXCEPT !.pc = "patching",
                                !.template = cluster.history[k].template]
             /\ UNCHANGED <<setup, cooling, opened, disturbances>>
       \/ Fails /\ Recorded
    /\ UNCHANGED cluster

\* Second half: the template is checked once more, stamped and written.
Rollback ==
    /\ At("patching")
    /\ Call(ImagesValid(incident.template) /\ Patch(incident.template))
    /\ Recorded

-----------------------------------------------------------------------------
(***************************************************************************)
(* RECOVERY VALIDATION.  Settling is a fixed sleep, long enough for the    *)
(* Deployment controller to act on a patch.                                *)
(***************************************************************************)
Settled_AtOnce == TRUE

Settled == setup.api => cluster.template = NoTemplate

Settle ==
    /\ At("settling") /\ Settled
    /\ incident' = [incident EXCEPT !.pc = "polling"]
    /\ UNCHANGED <<setup, cluster, cooling, opened, disturbances>>

(***************************************************************************)
(* One poll.  The readings may fail any check, but with a Kubernetes       *)
(* client it passes only when the Pods are ready.  (Chaos gauges that are  *)
(* absent are skipped, so the faults need not be gone.)  A service that    *)
(* only misses a dependency is degraded, which at the deadline resolves    *)
(* the incident as a pass does.                                            *)
(***************************************************************************)
Healthy == setup.api => PodsReady

Resolved == [pc |-> "resolved"]

LastPoll == incident.polls + 1 = MaxPolls

Poll ==
    /\ At("polling")
    /\ \/ Healthy /\ incident' = Resolved
       \/ ~LastPoll /\ incident' = [incident EXCEPT !.polls = @ + 1]
       \/ LastPoll /\ NextCycle(incident.attempted)
    /\ UNCHANGED <<setup, cluster, cooling, opened, disturbances>>
-----------------------------------------------------------------------------
\* The newest is ready when it works; if not, the newest that works covers.
Deployed(templates) ==
    LET n       == Len(templates)
        working == {k \in 1..n : Working(templates[k])}
    IN  [k \in 1..n |-> [rev      |-> n + 1 - k,
                         template |-> templates[k],
                         ready    |-> k \in working /\ k = Min(working),
                         recent   |-> TRUE]]

Init ==
    /\ setup \in Setups
    /\ \E templates \in Histories :
          cluster = [history |-> Deployed(templates), template |-> NoTemplate,
                     replicas |-> MinReplicas, faults |-> {}, foreign |-> TRUE]
    /\ incident = NoIncident
    /\ cooling \in {{}, {"restart"}, {"rollback"}}
    /\ opened = 0
    /\ disturbances = 0

Others ==
    \/ RolloutCompletes \/ Prune \/ Accident \/ TimePasses
    \/ \E t \in Template : Deploy(t)
    \/ \E k \in DOMAIN cluster.history : Undo(k)

Execute == NothingSent \/ Restart \/ Scale \/ Reset \/ Reread \/ Rollback

Lifecycle == \/ Investigate \/ Decide \/ CheckPolicy \/ OutOfPlans
             \/ Execute \/ Settle \/ Poll

Next == AlertOpens \/ Lifecycle \/ ControllerActs \/ Others

Spec == Init /\ [][Next]_vars

-----------------------------------------------------------------------------
TypeOK ==
    /\ setup \in Setups
    /\ cluster.history \in Seq(ReplicaSet) \ {<<>>}
    /\ cluster.template \in Template \cup {NoTemplate}
    /\ cluster.replicas \in MinReplicas..MaxReplicas
    /\ cluster.faults \subseteq Fault
    /\ cooling \subseteq Remedy
    /\ "cycle" \in DOMAIN incident => incident.cycle \in 1..MaxCycles
    /\ incident.pc \in {"none", "investigating", "diagnosed",
                        "policy", "executing", "patching", "settling", "polling",
                        "resolved", "escalated"}

(***************************************************************************)
(* "This patch must never write a container or init container with a       *)
(* missing/malformed image to the Deployment" (patch_deployment_template): *)
(* no rollback puts such a template there, whatever is in the history and  *)
(* however it changed since the plan was made.                             *)
(***************************************************************************)
NeverMalformed ==
    [][Rollback => cluster'.template = cluster.template
                   \/ cluster'.template \notin Malformed]_vars

(***************************************************************************)
(* The reasoner never tips a rollback: one that is executed would have     *)
(* passed its gate on the rules alone ("it cannot lift a 0.90 hypothesis   *)
(* over the 0.95 rollback gate", rca.py), so it has seen the image change  *)
(* and had every source of evidence.                                       *)
(***************************************************************************)
ReasonerTipsNoRollback ==
    At("patching") => /\ incident.rules.confidence >= Threshold("rollback")
                      /\ incident.findings.changed

(***************************************************************************)
(* "It cannot unlock an action" (learning.py): whatever rows and votes are *)
(* found, an action that is executed would have passed without them.       *)
(***************************************************************************)
LearningOnlyCautions ==
    At("executing") => incident.hypothesis.confidence >= Threshold(Plan.action)

(***************************************************************************)
(* A pass is about what was written: when recovery validation passes after *)
(* a restart or a rollback, and nobody else changed the Deployment since,  *)
(* the Pods that passed are those of the written template, not those it    *)
(* replaces ("would pass against the pods we are trying to replace").      *)
(***************************************************************************)
PassMeansRolledOut ==
    [][/\ Poll /\ incident'.pc = "resolved"
       /\ setup.api /\ ~setup.dry_run /\ ~cluster.foreign
       => cluster.template = NoTemplate /\ Working(Newest.template)]_vars

(***************************************************************************)
(* "We re-read the ReplicaSet list here rather than trusting the revision  *)
(* number carried in the plan [...] a rollout could have completed in      *)
(* between" (_rollback): what a rollback replaces is the revision that was *)
(* investigated, not one rolled out since.                                 *)
(***************************************************************************)
RollbackReplacesTheSuspect ==
    [][At("executing") /\ Reread /\ incident'.pc = "patching"
       => Newest.rev = incident.findings.current]_vars
=============================================================================
