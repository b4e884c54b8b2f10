------------------------------- MODULE K8sWatch -------------------------------
(***************************************************************************)
(* app/lifecycle/k8s_watch.py, composed with the incident manager: a poll  *)
(* of the Kubernetes API that raises and clears, for every Deployment, the *)
(* same availability problem Alertmanager's ServiceDown and                *)
(* PodCrashLooping alerts are about (detection.py gives the three alert    *)
(* names one failure class, hence one fingerprint per Deployment).  Of the *)
(* lifecycles only what they save is kept: Orchestrator has the rest.      *)
(*                                                                         *)
(* A poll is a coroutine: it lists the Deployments, then awaits again for  *)
(* the Pods of each workload it may reconcile and for the annotations of   *)
(* each Deployment scaled to zero.  The engine, the cluster and            *)
(* Alertmanager move on between any two of these steps, and what the list  *)
(* said stays in snap.  Time is counted in polls: Debounce is the number   *)
(* of polls in k8s_watch_debounce_seconds.                                 *)
(***************************************************************************)
EXTENDS IncidentManager

CONSTANTS
    Availability,    \* Availability[d]: the availability problem of d
    Alerting,        \* the problems Alertmanager has a rule for that can fire
    Desired,         \* the values spec.replicas may take
    Available,       \* the values status.available_replicas may take
    Debounce,        \* polls between unhealthy_since and the alert
    MaxPods,         \* bound: Pod replacements of one Deployment
    MaxDisturbances  \* bound: changes of the cluster and failed calls

ASSUME WatchAssumption ==
    /\ Availability \in [Deployment -> Problem]
    /\ \A d \in Deployment : TargetOf[Availability[d]] = d
    /\ Alerting \subseteq Problem
    /\ Desired \subseteq Nat /\ Available \subseteq Nat
    /\ Debounce \in Nat /\ MaxPods \in Nat /\ MaxDisturbances \in Nat

VARIABLES
    cluster,     \* cluster[d]: what the API server would say of d now
    pod,         \* pod[d]: the generation of the Pod serving d
    podOf,       \* podOf[i]: Incident.pod, the Pod the first alert named
    watch,       \* watch[d]: _DeploymentWatchState of d
    snap,        \* the answer of list_deployments in the running poll
    poll,        \* where the poll awaits, and what it has left to do
    alerts,      \* alerts[d]: alerts this watch has raised for d so far
    disturbances \* changes of the cluster and failed calls so far

clusterVars == <<cluster, pod>>
watchVars   == <<cluster, pod, podOf, watch, snap, poll, alerts, disturbances>>
allVars     == <<vars, watchVars>>

-----------------------------------------------------------------------------
\* A Deployment nobody lists: it does not exist, or the list call failed.
Gone == [desired |-> 0, available |-> 0, planned |-> TRUE, listed |-> FALSE]

\* planned is the annotation that calls zero replicas intentional.
Condition ==
    {Gone} \cup
    {c \in [desired : Desired, available : Available, planned : BOOLEAN,
            listed : {TRUE}] : c.planned => c.desired = 0}

NoPod    == MaxPods + 1     \* an alert without a Pod label
NoReason == <<>>

(***************************************************************************)
(* reason stands for the text: it names both replica numbers, so it        *)
(* differs whenever they do.  NoReason is unhealthy_since = None, age the  *)
(* polls since then.  An absent dictionary entry is the initial state.     *)
(***************************************************************************)
Watched == [reason |-> NoReason, age |-> 0, notified |-> FALSE]

Sleeping == [pc |-> "sleeping", reconcile |-> {}, todo |-> {}]

\* The coroutine has raised: nothing polls again before a restart.
Ended == [pc |-> "ended", reconcile |-> {}, todo |-> {}]

\* _is_unhealthy, on the listed numbers and the annotation as it was read.
Unhealthy(c, planned) ==
    \/ c.desired = 0 /\ ~planned /\ c.available = 0
    \/ c.desired > 0 /\ c.available < c.desired

ReasonOf(c) == <<c.desired, c.available>>

Disturb == /\ disturbances < MaxDisturbances
           /\ disturbances' = disturbances + 1

-----------------------------------------------------------------------------
(***************************************************************************)
(* The outside world: scaling, crashing, recovering, being deleted and     *)
(* created; any Pod may be replaced meanwhile.                             *)
(***************************************************************************)
ClusterChanges(d) ==
    /\ Disturb
    /\ \E c \in Condition \ {cluster[d]} : cluster' = [cluster EXCEPT ![d] = c]
    /\ \E g \in {pod[d], pod[d] + 1} \cap (0..MaxPods) :
          pod' = [pod EXCEPT ![d] = g]
    /\ UNCHANGED <<vars, podOf, watch, snap, poll, alerts>>

\* build_incident keeps the Pod of the alert that opened the incident.
Opens(p, g) ==
    podOf' = [i \in Incident |->
                 IF i[1] = p /\ store[i].status = "absent"
                             /\ store'[i].status # "absent"
                 THEN g ELSE podOf[i]]

AlertmanagerFires(p) ==
    /\ handle_alert(p)
    /\ Opens(p, pod[TargetOf[p]])
    /\ UNCHANGED <<clusterVars, watch, snap, poll, alerts, disturbances>>

AlertmanagerResolves(p) ==
    /\ handle_resolved(p)
    /\ UNCHANGED watchVars

\* A restart: the poll and its bookkeeping are in memory only.
RestartForgets ==
    /\ CrashAndRestart
    /\ watch' = [d \in Deployment |-> Watched]
    /\ snap' = [d \in Deployment |-> Gone]
    /\ poll' = Sleeping
    /\ UNCHANGED <<clusterVars, podOf, alerts, disturbances>>

\* A lifecycle executes an action and saves its result.
LifecycleActs(i) ==
    /\ run[i][Engine].pc # "idle" /\ run[i][Engine].obj.count < Cap
    /\ \E a \in Action :
          LET rec == [WithResult(run[i][Engine].obj, a, 0)
                         EXCEPT !.status = "validating"]
          IN  /\ Persist(i, rec)
              /\ SetTask(i, Engine, [run[i][Engine] EXCEPT !.obj = rec])
    /\ UNCHANGED <<live, lock, worldVars, launched, firing, restarts, watchVars>>

\* It ends, resolved by its action or handed to a human, and saves that.
LifecycleEnds(i) ==
    LET rec == run[i][Engine].obj
    IN  /\ run[i][Engine].pc # "idle"
        /\ \/ rec.count > 0 /\ Persist(i, [rec EXCEPT !.status = "resolved"])
           \/ rec.count > 0 /\ Persist(i, Escalate(rec, "validation_failed"))
           \/ rec.count = 0 /\ Persist(i, Escalate(rec, "no_safe_action"))
        /\ release(i, Engine)
        /\ UNCHANGED <<lock, worldVars, launched, firing, restarts, watchVars>>

-----------------------------------------------------------------------------
(***************************************************************************)
(* One poll.  A failed call is not an error here: the client catches it    *)
(* and answers with an empty list (list_deployments, list_pods) or with    *)
(* None (get_deployment), so an outage of the API looks like no Deployment,*)
(* no Pod and no annotation.                                               *)
(***************************************************************************)
FullyServed(c) == c.desired > 0 /\ c.available >= c.desired

\* The incidents that recorded a Pod, of the listed and healthy workloads.
Reconcilable(answer) ==
    {i \in Incident :
        /\ store[i].status # "absent" /\ ~IsClosed(store[i])
        /\ i[1] = Availability[Target(i)]
        /\ podOf[i] # NoPod
        /\ FullyServed(answer[Target(i)])}

ListDeployments ==
    /\ poll.pc = "sleeping"
    /\ \/ snap' = cluster /\ UNCHANGED disturbances
       \/ snap' = [d \in Deployment |-> Gone] /\ Disturb
    /\ poll' = [pc        |-> "polling",
                reconcile |-> Reconcilable(snap'),
                todo      |-> {d \in Deployment : snap'[d].listed}]
    /\ UNCHANGED <<vars, clusterVars, podOf, watch, alerts>>

PodReplaced(i) == podOf[i] # pod[Target(i)]

\* The incident is closed under whatever problem the recovery is about.
ResolveByPod_Newest(i) ==
    \E j \in Incident : j[1] = i[1] /\ IsLatest(j) /\ auto_resolve_incident(j)

\* By the exact incident id the poll read from the store.
ResolveByPod(i) == auto_resolve_incident(i)

Reconcile(i) ==
    /\ i \in poll.reconcile
    /\ \/ /\ cluster[Target(i)].available > 0 /\ PodReplaced(i)
          /\ ResolveByPod(i)
          /\ UNCHANGED disturbances
       \/ /\ ~(cluster[Target(i)].available > 0 /\ PodReplaced(i))
          /\ UNCHANGED <<vars, disturbances>>
       \/ Disturb /\ UNCHANGED vars
    /\ poll' = [poll EXCEPT !.reconcile = @ \ {i}]
    /\ UNCHANGED <<clusterVars, podOf, watch, snap, alerts>>

\* unhealthy_since and reason as this poll leaves them: a condition that is
\* new, or says something else than before, starts the debounce window.
Observed(w, c, unhealthy) ==
    IF ~unhealthy THEN Watched
    ELSE IF w.reason # ReasonOf(c)
         THEN [reason |-> ReasonOf(c), age |-> 0, notified |-> FALSE]
         ELSE [w EXCEPT !.age = IF @ < Debounce THEN @ + 1 ELSE @]

Due(w) == w.reason # NoReason /\ ~w.notified /\ w.age >= Debounce

\* What was seen is for the incident manager: an alert, or a recovery.
Cleared(d, w)  == w = Watched /\ watch[d].notified
Signals(d, w)  == Due(w) \/ Cleared(d, w)

\* The alert is raised but not remembered.
Evaluated_Unmarked(d, w) ==
    \/ /\ Due(w)
       /\ handle_alert(Availability[d])
       /\ Opens(Availability[d], NoPod)
       /\ watch' = [watch EXCEPT ![d] = w]
       /\ alerts' = [alerts EXCEPT ![d] = @ + 1]
    \/ /\ ~Due(w) /\ watch' = [watch EXCEPT ![d] = w]
       /\ UNCHANGED <<vars, podOf, alerts>>

\* The window is restarted by every poll, not only by a new condition.
Evaluated_Restarts(d, w) ==
    /\ watch' = [watch EXCEPT ![d] = [w EXCEPT !.age = 0]]
    /\ UNCHANGED <<vars, podOf, alerts>>

\* The rest of the loop body of _evaluate, w being what was observed.
Evaluated(d, w) ==
    \/ /\ Due(w)
       /\ handle_alert(Availability[d])
       /\ Opens(Availability[d], NoPod)
       /\ watch' = [watch EXCEPT ![d] = [w EXCEPT !.notified = TRUE]]
       /\ alerts' = [alerts EXCEPT ![d] = @ + 1]
    \/ /\ Cleared(d, w)
       /\ handle_resolved(Availability[d])
       /\ watch' = [watch EXCEPT ![d] = w]
       /\ UNCHANGED <<podOf, alerts>>
    \/ /\ ~Signals(d, w)
       /\ watch' = [watch EXCEPT ![d] = w]
       /\ UNCHANGED <<vars, podOf, alerts>>

\* Only for zero replicas are the annotations read, and read now.
Evaluate(d) ==
    /\ poll.reconcile = {} /\ d \in poll.todo
    /\ LET c == snap[d]
           See(planned) == Evaluated(d, Observed(watch[d], c, Unhealthy(c, planned)))
       IN  \/ c.desired > 0 /\ See(FALSE) /\ UNCHANGED disturbances
           \/ /\ c.desired = 0
              /\ See(cluster[d].listed /\ cluster[d].planned)
              /\ UNCHANGED disturbances
           \/ c.desired = 0 /\ See(FALSE) /\ Disturb
    /\ poll' = [poll EXCEPT !.todo = @ \ {d}]
    /\ UNCHANGED <<clusterVars, snap>>

(***************************************************************************)
(* Neither handle_alert nor handle_resolved is guarded: when the store     *)
(* fails them (at its first read, before anything is saved) the exception  *)
(* leaves _evaluate and run_k8s_watch, which catches CancelledError only.  *)
(* Nobody looks at the finished task; its local state is gone with it.     *)
(***************************************************************************)
HandlerRaises(d) ==
    /\ poll.reconcile = {} /\ d \in poll.todo
    /\ \E planned \in {FALSE, cluster[d].listed /\ cluster[d].planned} :
          Signals(d, Observed(watch[d], snap[d], Unhealthy(snap[d], planned)))
    /\ Disturb
    /\ watch' = [e \in Deployment |-> Watched]
    /\ snap' = [e \in Deployment |-> Gone]
    /\ poll' = Ended
    /\ UNCHANGED <<vars, clusterVars, podOf, alerts>>

\* The state of every Deployment the list did not name is dropped.
EndPoll ==
    /\ poll.pc = "polling" /\ poll.reconcile = {} /\ poll.todo = {}
    /\ watch' = [d \in Deployment |-> IF snap[d].listed THEN watch[d] ELSE Watched]
    /\ poll' = Sleeping
    /\ UNCHANGED <<vars, clusterVars, podOf, snap, alerts, disturbances>>

Poll ==
    \/ ListDeployments
    \/ \E i \in Incident : Reconcile(i)
    \/ \E d \in Deployment : Evaluate(d) \/ HandlerRaises(d)
    \/ EndPoll

-----------------------------------------------------------------------------
WatchInit ==
    /\ store = [i \in Incident |-> Absent]
    /\ live = [i \in Incident |-> Nobody]
    /\ run = [i \in Incident |-> [w \in Writer |-> Idle]]
    /\ lock = [d \in Deployment |-> Nobody]
    /\ clock = [d \in Deployment |-> 0]
    /\ acted = [i \in Incident |-> 0]
    /\ newest = [i \in Incident |-> 0]
    /\ deep = [i \in Incident |-> [p \in Proposal |-> 0]]
    /\ launched = [i \in Incident |-> 0]
    /\ firing = [p \in Problem |-> FALSE]
    /\ restarts = 0
    /\ cluster \in [Deployment -> {c \in Condition : FullyServed(c)}]
    /\ pod = [d \in Deployment |-> 0]
    /\ podOf = [i \in Incident |-> NoPod]
    /\ watch = [d \in Deployment |-> Watched]
    /\ snap = [d \in Deployment |-> Gone]
    /\ poll = Sleeping
    /\ alerts = [d \in Deployment |-> 0]
    /\ disturbances = 0

WatchNext ==
    \/ Poll
    \/ \E i \in Incident : LifecycleActs(i) \/ LifecycleEnds(i)
    \/ RestartForgets
    \/ \E d \in Deployment : ClusterChanges(d)
    \/ \E p \in Alerting : AlertmanagerFires(p) \/ AlertmanagerResolves(p)

WatchSpec == WatchInit /\ [][WatchNext]_allVars

(***************************************************************************)
(* While it lives, the poll loop sleeps a fixed time between polls: it     *)
(* never stops by itself.  That the Kubernetes API answers every call, or  *)
(* fails it, is assumed: the client passes no timeout.  Nothing is assumed *)
(* of what it answers, of the engine, of Alertmanager or of restarts, and  *)
(* a poll that ends in HandlerRaises is followed by no other.              *)
(***************************************************************************)
FairWatch == WatchSpec /\ WF_allVars(Poll)

-----------------------------------------------------------------------------
\* A Deployment nobody could call intentionally down.
Down(d) == cluster[d].listed /\ Unhealthy(cluster[d], cluster[d].planned)

(***************************************************************************)
(* An outage that lasts is noticed without Alertmanager, unless the watch  *)
(* has ended: it reports the outage, and an incident of that Deployment is *)
(* on the books, through restarts, failed calls and a condition that keeps *)
(* changing shape.                                                         *)
(***************************************************************************)
OutageIsReported ==
    \A d \in Deployment :
        Down(d) ~> \/ ~Down(d)
                   \/ watch[d].notified /\ ~Unknown(Availability[d])
                   \/ poll.pc = "ended"

(***************************************************************************)
(* A quiet world is quiet: what the watch raises is bounded by what        *)
(* happened, at most one alert per change of the cluster, failed call or   *)
(* restart, however often it polls.                                        *)
(***************************************************************************)
QuietWorldIsQuiet ==
    \A d \in Deployment : alerts[d] <= disturbances + restarts

(***************************************************************************)
(* Reconciliation closes exactly the incident it has evidence about: one   *)
(* that recorded a Pod which has been replaced, never a newer occurrence   *)
(* of the same problem that opened while the poll was waiting.             *)
(***************************************************************************)
ClosesOnlyTheStale ==
    \A i \in Incident :
        /\ \E j \in Incident : Reconcile(j)
        /\ ~IsClosed(store[i]) /\ IsClosed(store[i])'
        => PodReplaced(i) /\ podOf[i] # NoPod

ReconciliationIsExact == [][ClosesOnlyTheStale]_allVars
=============================================================================
