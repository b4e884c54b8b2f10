----------------------------- MODULE WatchSafety -----------------------------
(***************************************************************************)
(* Proofs about K8sWatch, for any Deployments, problems, replica numbers,  *)
(* debounce, disturbances and restarts: the watch raises no more alerts    *)
(* than things happened, and a reconciliation closes only what a poll has  *)
(* seen to be stale.                                                       *)
(***************************************************************************)
EXTENDS K8sWatch, TLAPS

WatchState == [reason : {NoReason} \cup (Nat \X Nat), age : Nat,
               notified : BOOLEAN]

WatchTyped ==
    /\ cluster \in [Deployment -> Condition]
    /\ snap \in [Deployment -> Condition]
    /\ watch \in [Deployment -> WatchState]
    /\ alerts \in [Deployment -> Nat]
    /\ disturbances \in Nat /\ restarts \in Nat
    /\ poll \in [pc : {"sleeping", "polling", "ended"},
                 reconcile : SUBSET Incident, todo : SUBSET Deployment]
    /\ poll.pc # "polling" => poll.todo = {} /\ poll.reconcile = {}
    /\ \A d \in poll.todo : snap[d].listed

-----------------------------------------------------------------------------
(***************************************************************************)
(* What the watch may still raise without anything happening.  A poll can  *)
(* see a Deployment twice as something else than before: once in the       *)
(* answer it is working through, and once in the next answer.  Behind a    *)
(* planned scale to zero both can be new at once, as its annotation is     *)
(* read later than its numbers; the scaling itself has paid for that.      *)
(***************************************************************************)
Planned(d) == cluster[d].listed /\ cluster[d].planned

\* An alert for condition c has been raised and not been forgotten.
Told(w, c) == w.reason = ReasonOf(c) /\ w.notified

\* The condition the running poll has listed, as it would now be evaluated.
SeesUnhealthy(d) == d \in poll.todo /\ Unhealthy(snap[d], Planned(d))

OwedNow(d) == SeesUnhealthy(d) /\ ~Told(watch[d], snap[d])

OwedNext(d) ==
    /\ Down(d)
    /\ IF d \in poll.todo
       THEN ~(SeesUnhealthy(d) /\ ReasonOf(snap[d]) = ReasonOf(cluster[d]))
       ELSE \/ poll.pc = "polling" /\ ~snap[d].listed
            \/ ~Told(watch[d], cluster[d])

One(b) == IF b THEN 1 ELSE 0

Owed(d) == One(OwedNow(d)) + One(OwedNext(d)) + One(Planned(d))

Paid(d) == alerts[d] + Owed(d) <= disturbances + restarts

QuietInv == WatchTyped /\ \A d \in Deployment : Paid(d)

-----------------------------------------------------------------------------
\* What a listed condition is made of, and that its reason names both numbers.
LEMMA ConditionFields ==
    ASSUME NEW c \in Condition
    PROVE  /\ c.desired \in Nat /\ c.available \in Nat
           /\ c.planned \in BOOLEAN /\ c.listed \in BOOLEAN
           /\ c.listed /\ c.planned => c.desired = 0
           /\ ReasonOf(c) \in Nat \X Nat
           /\ ReasonOf(c) # NoReason
<1>1. CASE c = Gone
  BY <1>1 DEF Gone, ReasonOf, NoReason
<1>2. CASE c # Gone
  BY <1>2, WatchAssumption DEF Condition, ReasonOf, NoReason
<1> QED BY <1>1, <1>2

\* An unlisted Deployment is no Condition of the cluster, and nothing is down.
LEMMA GoneIsCondition == Gone \in Condition /\ ~Gone.listed
  BY DEF Gone, Condition

\* The annotation makes a Deployment healthier, and only at zero replicas.
LEMMA UnhealthyPlanned ==
    ASSUME NEW c \in Condition
    PROVE  /\ Unhealthy(c, TRUE) => Unhealthy(c, FALSE)
           /\ c.desired > 0 => (Unhealthy(c, TRUE) <=> Unhealthy(c, FALSE))
           /\ c.desired = 0 => ~Unhealthy(c, TRUE)
  BY ConditionFields DEF Unhealthy

\* A planned scale to zero is no outage.
LEMMA PlannedIsNotDown ==
    ASSUME WatchTyped, NEW d \in Deployment, Planned(d)
    PROVE  ~Down(d)
<1>1. cluster[d] \in Condition
  BY DEF WatchTyped
<1>2. cluster[d].listed /\ cluster[d].planned
  BY DEF Planned
<1>3. cluster[d].planned = TRUE /\ cluster[d].desired = 0
  BY <1>1, <1>2, ConditionFields
<1> QED BY <1>1, <1>3, UnhealthyPlanned DEF Down

\* Zero or one.
LEMMA OneRange ==
    ASSUME NEW b \in BOOLEAN
    PROVE  One(b) \in 0..1 /\ (b => One(b) = 1) /\ (~b => One(b) = 0)
  BY DEF One

(***************************************************************************)
(* What an evaluation observes: a healthy Deployment forgets everything,   *)
(* an unhealthy one bears its reason and, if that is news, no notice.      *)
(***************************************************************************)
LEMMA ObservedFacts ==
    ASSUME NEW w \in WatchState, NEW c \in Condition, NEW u \in BOOLEAN
    PROVE  /\ Observed(w, c, u) \in WatchState
           /\ ~u => Observed(w, c, u) = Watched
           /\ u => Observed(w, c, u).reason = ReasonOf(c)
           /\ u => (Observed(w, c, u).notified <=> Told(w, c))
<1>0. ReasonOf(c) \in Nat \X Nat
  BY ConditionFields
<1>1. CASE ~u
  BY <1>1 DEF Observed, Watched, WatchState
<1>2. CASE u /\ w.reason # ReasonOf(c)
  BY <1>0, <1>2 DEF Observed, WatchState, Told
<1>3. CASE u /\ w.reason = ReasonOf(c)
  <2>1. Observed(w, c, u) = [w EXCEPT !.age = IF @ < Debounce THEN @ + 1 ELSE @]
    BY <1>3 DEF Observed
  <2>2. (IF w.age < Debounce THEN w.age + 1 ELSE w.age) \in Nat
    BY DEF WatchState
  <2>3. \A n \in Nat : /\ [w EXCEPT !.age = n] \in WatchState
                       /\ [w EXCEPT !.age = n].reason = w.reason
                       /\ [w EXCEPT !.age = n].notified = w.notified
    BY DEF WatchState
  <2> QED BY <1>3, <2>1, <2>2, <2>3 DEF Told
<1> QED BY <1>1, <1>2, <1>3

\* The bookkeeping an evaluation that observed o leaves behind.
Marked(o) == IF Due(o) THEN [o EXCEPT !.notified = TRUE] ELSE o

\* A healthy Deployment is neither due nor told about anything.
LEMMA WatchedFacts ==
    /\ Watched \in WatchState /\ ~Due(Watched) /\ Marked(Watched) = Watched
    /\ \A c : ~Told(Watched, c)
  BY DEF Watched, WatchState, Due, Marked, Told

\* The mark keeps the type and the reason, and leaves a notice if one is due.
LEMMA MarkedFacts ==
    ASSUME NEW o \in WatchState
    PROVE  /\ Marked(o) \in WatchState /\ Marked(o).reason = o.reason
           /\ Due(o) => Marked(o).notified = TRUE /\ o.notified = FALSE
           /\ ~Due(o) => Marked(o) = o
  BY DEF Marked, WatchState, Due

\* The webhook entry points do not restart the process.
LEMMA HandlersKeepRestarts ==
    ASSUME NEW p
    PROVE  /\ handle_alert(p) => restarts' = restarts
           /\ handle_resolved(p) => restarts' = restarts
  BY DEF handle_alert, handle_resolved

(***************************************************************************)
(* The loop body of _evaluate: one alert if the observation is due, and    *)
(* the bookkeeping of this Deployment.                                     *)
(***************************************************************************)
LEMMA EvaluatedFacts ==
    ASSUME WatchTyped, NEW d \in Deployment, NEW o \in WatchState,
           Evaluated(d, o)
    PROVE  /\ watch' = [watch EXCEPT ![d] = Marked(o)]
           /\ alerts' = [alerts EXCEPT ![d] = @ + One(Due(o))]
           /\ restarts' = restarts
<1>0. alerts \in [Deployment -> Nat]
  BY DEF WatchTyped
<1>1. CASE Due(o)
  <2>1. o # Watched
    BY <1>1, WatchedFacts
  <2>2. /\ handle_alert(Availability[d])
        /\ watch' = [watch EXCEPT ![d] = [o EXCEPT !.notified = TRUE]]
        /\ alerts' = [alerts EXCEPT ![d] = @ + 1]
    BY <1>1, <2>1 DEF Evaluated, Signals, Cleared
  <2> QED BY <1>1, <2>2, HandlersKeepRestarts DEF Marked, One
<1>2. CASE ~Due(o)
  <2>1. /\ watch' = [watch EXCEPT ![d] = o]
        /\ alerts' = alerts
        /\ restarts' = restarts
    BY <1>2, HandlersKeepRestarts DEF Evaluated, Signals, Cleared, vars
  <2>2. alerts = [alerts EXCEPT ![d] = @ + 0]
    BY <1>0
  <2> QED BY <1>2, <2>1, <2>2 DEF Marked, One
<1> QED BY <1>1, <1>2

-----------------------------------------------------------------------------
(***************************************************************************)
(* The types, one case per action of the watch; the other actions leave    *)
(* everything typed here alone.                                            *)
(***************************************************************************)
Untouched ==
    UNCHANGED <<cluster, snap, watch, alerts, disturbances, restarts, poll>>

\* Alertmanager and the lifecycles touch neither the watch nor the restarts.
LEMMA OthersLeaveTheWatch ==
    ASSUME \/ \E i \in Incident : LifecycleActs(i) \/ LifecycleEnds(i)
           \/ \E p \in Alerting : AlertmanagerFires(p) \/ AlertmanagerResolves(p)
    PROVE  Untouched
<1>1. ASSUME NEW i \in Incident, LifecycleActs(i) \/ LifecycleEnds(i)
      PROVE  Untouched
  BY <1>1 DEF LifecycleActs, LifecycleEnds, Untouched, watchVars
<1>2. ASSUME NEW p \in Alerting, AlertmanagerFires(p) \/ AlertmanagerResolves(p)
      PROVE  Untouched
  BY <1>2, HandlersKeepRestarts
     DEF AlertmanagerFires, AlertmanagerResolves, Untouched, watchVars, clusterVars
<1> QED BY <1>1, <1>2

\* What an evaluation does, whichever way it came to know the annotation.
LEMMA EvaluateFacts ==
    ASSUME WatchTyped, NEW d \in Deployment, Evaluate(d)
    PROVE  /\ d \in poll.todo /\ poll.pc = "polling" /\ snap[d].listed
           /\ \E u \in BOOLEAN :
                 LET o == Observed(watch[d], snap[d], u)
                 IN  /\ o \in WatchState
                     /\ watch' = [watch EXCEPT ![d] = Marked(o)]
                     /\ alerts' = [alerts EXCEPT ![d] = @ + One(Due(o))]
                     /\ \/ /\ u = Unhealthy(snap[d], Planned(d))
                           /\ disturbances' = disturbances
                        \/ /\ u = Unhealthy(snap[d], FALSE)
                           /\ disturbances' = disturbances + 1
           /\ restarts' = restarts
           /\ poll' = [poll EXCEPT !.todo = @ \ {d}]
           /\ UNCHANGED <<cluster, snap>>
<1> DEFINE o(u) == Observed(watch[d], snap[d], u)
<1>1. /\ d \in poll.todo /\ snap[d] \in Condition /\ watch[d] \in WatchState
      /\ snap[d].listed /\ poll.pc = "polling"
  BY DEF Evaluate, WatchTyped
<1>2. \A u \in BOOLEAN : o(u) \in WatchState
  BY <1>1, ObservedFacts
<1>3. \A u \in BOOLEAN : Evaluated(d, o(u)) =>
         /\ watch' = [watch EXCEPT ![d] = Marked(o(u))]
         /\ alerts' = [alerts EXCEPT ![d] = @ + One(Due(o(u)))]
         /\ restarts' = restarts
  BY <1>2, EvaluatedFacts
<1>4. \A b \in BOOLEAN : Unhealthy(snap[d], b) \in BOOLEAN
  BY DEF Unhealthy
<1>5. \/ /\ snap[d].desired > 0 /\ Evaluated(d, o(Unhealthy(snap[d], FALSE)))
         /\ disturbances' = disturbances
      \/ /\ Evaluated(d, o(Unhealthy(snap[d], Planned(d))))
         /\ disturbances' = disturbances
      \/ /\ Evaluated(d, o(Unhealthy(snap[d], FALSE)))
         /\ disturbances' = disturbances + 1
  BY DEF Evaluate, Disturb, Planned
<1>6. snap[d].desired > 0 =>
         Unhealthy(snap[d], FALSE) = Unhealthy(snap[d], Planned(d))
  BY <1>1, UnhealthyPlanned DEF Planned, Unhealthy
<1>7. Planned(d) \in BOOLEAN
  BY DEF Planned
<1>8. \E u \in BOOLEAN :
         /\ Evaluated(d, o(u))
         /\ \/ u = Unhealthy(snap[d], Planned(d)) /\ disturbances' = disturbances
            \/ u = Unhealthy(snap[d], FALSE) /\ disturbances' = disturbances + 1
  BY <1>4, <1>5, <1>6, <1>7
<1>9. /\ poll' = [poll EXCEPT !.todo = @ \ {d}]
      /\ UNCHANGED <<cluster, snap>>
  BY DEF Evaluate, clusterVars
<1> QED BY <1>1, <1>2, <1>3, <1>8, <1>9

\* The initial state has the types.
LEMMA WatchTypedInit == WatchInit => WatchTyped
<1> SUFFICES ASSUME WatchInit PROVE WatchTyped
  OBVIOUS
<1>1. cluster \in [Deployment -> Condition]
  BY DEF WatchInit
<1>2. snap \in [Deployment -> Condition] /\ watch \in [Deployment -> WatchState]
  BY GoneIsCondition, WatchedFacts DEF WatchInit
<1> QED BY <1>1, <1>2 DEF WatchInit, WatchTyped, Sleeping

\* Every step keeps the types.
LEMMA WatchTypedStep ==
    ASSUME WatchTyped, [WatchNext]_allVars PROVE WatchTyped'
<1> USE DEF WatchTyped
<1>1. CASE Untouched
  BY <1>1 DEF Untouched
<1>2. CASE ListDeployments
  <2>1. snap' \in [Deployment -> Condition]
    BY <1>2, GoneIsCondition DEF ListDeployments
  <2>2. disturbances' \in Nat /\ restarts' = restarts
    BY <1>2 DEF ListDeployments, Disturb, vars
  <2>3. Reconcilable(snap') \subseteq Incident
    BY DEF Reconcilable
  <2>4. UNCHANGED <<cluster, watch, alerts>>
    BY <1>2 DEF ListDeployments, clusterVars
  <2>5. poll' = [pc |-> "polling", reconcile |-> Reconcilable(snap'),
                 todo |-> {d \in Deployment : snap'[d].listed}]
    BY <1>2 DEF ListDeployments
  <2>6. /\ poll' \in [pc : {"sleeping", "polling", "ended"},
                    reconcile : SUBSET Incident, todo : SUBSET Deployment]
        /\ poll'.pc = "polling" /\ \A d \in poll'.todo : snap'[d].listed
    BY <2>3, <2>5
  <2> QED BY <2>1, <2>2, <2>4, <2>6
<1>3. ASSUME NEW i \in Incident, Reconcile(i) PROVE WatchTyped'
  <2>1. /\ UNCHANGED <<cluster, snap, watch, alerts>>
        /\ poll' = [poll EXCEPT !.reconcile = @ \ {i}]
    BY <1>3 DEF Reconcile, clusterVars
  <2>2. disturbances' \in Nat /\ restarts' = restarts
    BY <1>3 DEF Reconcile, Disturb, ResolveByPod, auto_resolve_incident, vars
  <2> QED BY <2>1, <2>2
<1>4. ASSUME NEW d \in Deployment, Evaluate(d) PROVE WatchTyped'
  <2>1. PICK u \in BOOLEAN :
           /\ Observed(watch[d], snap[d], u) \in WatchState
           /\ watch' = [watch EXCEPT ![d] = Marked(Observed(watch[d], snap[d], u))]
           /\ alerts' = [alerts EXCEPT ![d] =
                            @ + One(Due(Observed(watch[d], snap[d], u)))]
           /\ disturbances' \in {disturbances, disturbances + 1}
    <3> HIDE DEF WatchTyped
    <3> QED BY <1>4, EvaluateFacts
  <2>2. watch' \in [Deployment -> WatchState]
    BY <2>1, MarkedFacts
  <2>3. One(Due(Observed(watch[d], snap[d], u))) \in Nat
    BY DEF One
  <2>4. alerts' \in [Deployment -> Nat]
    BY <2>1, <2>3
  <2>5. /\ restarts' = restarts
        /\ UNCHANGED <<cluster, snap>>
        /\ poll' = [poll EXCEPT !.todo = @ \ {d}]
    <3> HIDE DEF WatchTyped
    <3> QED BY <1>4, EvaluateFacts
  <2>6. /\ poll' \in [pc : {"sleeping", "polling", "ended"},
                    reconcile : SUBSET Incident, todo : SUBSET Deployment]
        /\ poll'.pc = poll.pc /\ poll'.reconcile = poll.reconcile
        /\ poll'.todo \subseteq poll.todo
    BY <2>5
  <2>7. \A e \in poll'.todo : snap'[e].listed
    BY <2>5, <2>6
  <2>8. poll.pc = "polling"
    BY <1>4, EvaluateFacts
  <2>9. disturbances' \in Nat
    BY <2>1
  <2> QED BY <2>2, <2>4, <2>5, <2>6, <2>7, <2>8, <2>9
<1>5. CASE EndPoll
  <2>1. watch' \in [Deployment -> WatchState]
    BY <1>5, WatchedFacts DEF EndPoll
  <2> QED BY <1>5, <2>1 DEF EndPoll, Sleeping, clusterVars, vars
<1>6. CASE RestartForgets
  <2>1. watch' \in [Deployment -> WatchState] /\ snap' \in [Deployment -> Condition]
    BY <1>6, WatchedFacts, GoneIsCondition DEF RestartForgets
  <2> QED BY <1>6, <2>1 DEF RestartForgets, CrashAndRestart, Sleeping, clusterVars
<1>7. ASSUME NEW d \in Deployment, ClusterChanges(d) PROVE WatchTyped'
  BY <1>7 DEF ClusterChanges, Disturb, vars
<1>8. CASE UNCHANGED allVars
  BY <1>8, <1>1 DEF allVars, watchVars, vars, Untouched
<1>9. ASSUME NEW d \in Deployment, HandlerRaises(d) PROVE WatchTyped'
  <2>1. watch' \in [Deployment -> WatchState] /\ snap' \in [Deployment -> Condition]
    BY <1>9, WatchedFacts, GoneIsCondition DEF HandlerRaises
  <2> QED BY <1>9, <2>1 DEF HandlerRaises, Disturb, Ended, clusterVars, vars
<1> QED BY <1>1, <1>2, <1>3, <1>4, <1>5, <1>6, <1>7, <1>8, <1>9,
           OthersLeaveTheWatch
        DEF WatchNext, Poll

-----------------------------------------------------------------------------
(***************************************************************************)
(* The payments: no action owes more than happened in it.                  *)
(***************************************************************************)
\* What is owed is counted, and owed for each reason once.
LEMMA OwedParts ==
    ASSUME NEW d \in Deployment
    PROVE  /\ One(OwedNow(d)) \in 0..1 /\ One(OwedNext(d)) \in 0..1
           /\ One(Planned(d)) \in 0..1
           /\ OwedNow(d) => One(OwedNow(d)) = 1
           /\ OwedNext(d) => One(OwedNext(d)) = 1
           /\ Planned(d) => One(Planned(d)) = 1
           /\ ~OwedNow(d) => One(OwedNow(d)) = 0
           /\ ~OwedNext(d) => One(OwedNext(d)) = 0
           /\ ~Planned(d) => One(Planned(d)) = 0
<1>1. OwedNow(d) \in BOOLEAN /\ OwedNext(d) \in BOOLEAN /\ Planned(d) \in BOOLEAN
  BY DEF OwedNow, OwedNext, Planned
<1> QED BY <1>1, OneRange

\* Nothing listed is owed outside a poll.
LEMMA AsleepOwesNothingNow ==
    ASSUME WatchTyped, NEW d \in Deployment, d \notin poll.todo
    PROVE  ~OwedNow(d)
  BY DEF OwedNow, SeesUnhealthy

\* The answer of the list: what the next poll would see is now this poll's.
LEMMA ListPays ==
    ASSUME WatchTyped, NEW d \in Deployment, ListDeployments, Paid(d)
    PROVE  Paid(d)'
<1>0. /\ alerts[d] \in Nat /\ disturbances \in Nat /\ restarts \in Nat
      /\ cluster[d] \in Condition
      /\ poll.pc = "sleeping" /\ poll.todo = {}
  BY DEF WatchTyped, ListDeployments
<1>1. /\ UNCHANGED <<cluster, watch, alerts, restarts>>
      /\ poll' = [pc |-> "polling", reconcile |-> Reconcilable(snap'),
                  todo |-> {e \in Deployment : snap'[e].listed}]
  BY DEF ListDeployments, clusterVars, vars
<1>2. poll'.pc = "polling" /\ poll'.todo = {e \in Deployment : snap'[e].listed}
  BY <1>1
<1>3. Planned(d)' <=> Planned(d)
  BY <1>1 DEF Planned
<1>4. ~OwedNow(d)
  BY <1>0, AsleepOwesNothingNow
<1>5. CASE snap' = cluster /\ UNCHANGED disturbances
  <2>1. snap'[d] = cluster[d] /\ watch'[d] = watch[d] /\ cluster'[d] = cluster[d]
    BY <1>1, <1>5
  <2>2. d \in poll'.todo <=> cluster[d].listed
    BY <1>2, <2>1
  <2>3. SeesUnhealthy(d)' <=> Down(d)
    BY <1>1, <2>1, <2>2 DEF SeesUnhealthy, Down, Planned, Unhealthy
  <2>4. OwedNow(d)' <=> Down(d) /\ ~Told(watch[d], cluster[d])
    BY <2>1, <2>3 DEF OwedNow
  <2>5. OwedNext(d) <=> Down(d) /\ ~Told(watch[d], cluster[d])
    BY <1>0 DEF OwedNext
  <2>6. Down(d)' <=> Down(d)
    BY <2>1 DEF Down
  <2>7. ~OwedNext(d)'
    BY <2>1, <2>2, <2>3, <2>6 DEF OwedNext, Down
  <2>8. /\ One(OwedNow(d)') = One(OwedNext(d)) /\ One(OwedNext(d)') = 0
        /\ One(Planned(d)') = One(Planned(d)) /\ One(OwedNow(d)) = 0
    BY <1>3, <1>4, <2>4, <2>5, <2>7 DEF One
  <2> QED BY <1>0, <1>1, <1>5, <2>8, OwedParts DEF Paid, Owed
<1>6. CASE snap' = [e \in Deployment |-> Gone] /\ Disturb
  <2>1. d \notin poll'.todo
    BY <1>2, <1>6, GoneIsCondition
  <2>2. ~OwedNow(d)'
    BY <2>1 DEF OwedNow, SeesUnhealthy
  <2>3. /\ One(OwedNow(d)') = 0 /\ One(OwedNext(d)') \in 0..1
        /\ One(Planned(d)') = One(Planned(d)) /\ One(OwedNow(d)) = 0
    BY <1>3, <1>4, <2>2 DEF One
  <2>4. disturbances' = disturbances + 1
    BY <1>6 DEF Disturb
  <2> QED BY <1>0, <1>1, <2>3, <2>4, OwedParts DEF Paid, Owed
<1> QED BY <1>5, <1>6 DEF ListDeployments

(***************************************************************************)
(* An evaluation: an alert is paid by what the listed condition owed, and  *)
(* after a failed annotation read by the scaling or by the failure.        *)
(***************************************************************************)
LEMMA EvaluatePays ==
    ASSUME WatchTyped, NEW d \in Deployment, Evaluate(d), Paid(d)
    PROVE  Paid(d)'
<1>0. /\ alerts \in [Deployment -> Nat] /\ alerts[d] \in Nat
      /\ disturbances \in Nat /\ restarts \in Nat
      /\ cluster[d] \in Condition /\ snap[d] \in Condition
      /\ watch \in [Deployment -> WatchState] /\ watch[d] \in WatchState
      /\ poll \in [pc : {"sleeping", "polling", "ended"},
                   reconcile : SUBSET Incident, todo : SUBSET Deployment]
  BY DEF WatchTyped
<1>1. /\ d \in poll.todo /\ poll.pc = "polling" /\ snap[d].listed
      /\ restarts' = restarts
      /\ poll' = [poll EXCEPT !.todo = @ \ {d}]
      /\ UNCHANGED <<cluster, snap>>
  BY EvaluateFacts
<1>2. PICK u \in BOOLEAN :
         /\ Observed(watch[d], snap[d], u) \in WatchState
         /\ watch' = [watch EXCEPT ![d] = Marked(Observed(watch[d], snap[d], u))]
         /\ alerts' = [alerts EXCEPT ![d] =
                          @ + One(Due(Observed(watch[d], snap[d], u)))]
         /\ \/ u = Unhealthy(snap[d], Planned(d)) /\ disturbances' = disturbances
            \/ u = Unhealthy(snap[d], FALSE) /\ disturbances' = disturbances + 1
  BY EvaluateFacts
<1> DEFINE o == Observed(watch[d], snap[d], u)
<1>3. /\ watch'[d] = Marked(o) /\ alerts'[d] = alerts[d] + One(Due(o))
      /\ cluster'[d] = cluster[d] /\ snap'[d] = snap[d]
      /\ poll'.pc = "polling" /\ d \notin poll'.todo
  BY <1>0, <1>1, <1>2
<1>4. /\ o \in WatchState
      /\ ~u => o = Watched
      /\ u => o.reason = ReasonOf(snap[d])
      /\ u => (o.notified <=> Told(watch[d], snap[d]))
  BY <1>0, <1>2, ObservedFacts
<1> HIDE DEF o
<1>5. /\ Planned(d)' <=> Planned(d)
      /\ Down(d)' <=> Down(d)
      /\ ~OwedNow(d)'
  BY <1>1, <1>3 DEF Planned, Down, OwedNow, SeesUnhealthy
<1>6. OwedNext(d)' <=> Down(d) /\ ~Told(Marked(o), cluster[d])
  BY <1>1, <1>3, <1>5 DEF OwedNext
<1>7. /\ One(Planned(d)') = One(Planned(d)) /\ One(OwedNow(d)') = 0
      /\ One(OwedNext(d)') \in Nat /\ One(Due(o)) \in Nat
      /\ One(OwedNow(d)) \in Nat /\ One(OwedNext(d)) \in Nat
      /\ One(Planned(d)) \in Nat
  BY <1>5 DEF One
<1>8. ASSUME u = Unhealthy(snap[d], Planned(d))
      PROVE  One(Due(o)) + One(OwedNext(d)') <= One(OwedNow(d)) + One(OwedNext(d))
  <2>1. /\ OwedNow(d) <=> u /\ ~Told(watch[d], snap[d])
        /\ OwedNext(d) <=> /\ Down(d)
                           /\ ~(u /\ ReasonOf(snap[d]) = ReasonOf(cluster[d]))
    BY <1>1, <1>8 DEF OwedNow, OwedNext, SeesUnhealthy
  <2>2. CASE ~u
    <3>1. ~Due(o) /\ (OwedNext(d)' => OwedNext(d))
      BY <1>4, <1>6, <2>1, <2>2, WatchedFacts
    <3> QED BY <3>1 DEF One
  <2>3. CASE u /\ Due(o)
    <3>1. /\ o.notified = FALSE /\ Marked(o).notified = TRUE
          /\ Marked(o).reason = ReasonOf(snap[d])
      BY <1>4, <2>3, MarkedFacts
    <3>2. OwedNow(d)
      BY <1>4, <2>1, <2>3, <3>1
    <3>3. OwedNext(d)' => OwedNext(d)
      BY <1>6, <2>1, <3>1 DEF Told
    <3> QED BY <3>2, <3>3 DEF One
  <2>4. CASE u /\ ~Due(o)
    <3>1. Marked(o) = o
      BY <1>4, <2>4, MarkedFacts
    <3>2. OwedNext(d)' => OwedNow(d) \/ OwedNext(d)
      BY <1>4, <1>6, <2>1, <2>4, <3>1 DEF Told
    <3> QED BY <2>4, <3>2 DEF One
  <2> QED BY <2>2, <2>3, <2>4
<1>9. ASSUME Planned(d)
      PROVE  One(Due(o)) + One(OwedNext(d)') <= One(OwedNow(d)) + One(OwedNext(d)) + 1
  <2>1. ~OwedNext(d)'
    BY <1>6, <1>9, PlannedIsNotDown
  <2> QED BY <2>1 DEF One
<1>10. ~Planned(d) => Unhealthy(snap[d], FALSE) = Unhealthy(snap[d], Planned(d))
  BY DEF Planned, Unhealthy
<1>11. One(Due(o)) + One(OwedNext(d)') + disturbances
          <= One(OwedNow(d)) + One(OwedNext(d)) + disturbances'
  <2>1. CASE u = Unhealthy(snap[d], Planned(d))
    <3>1. disturbances' \in {disturbances, disturbances + 1}
      BY <1>2
    <3> QED BY <1>0, <1>7, <1>8, <2>1, <3>1
  <2>2. CASE u # Unhealthy(snap[d], Planned(d))
    <3>1. Planned(d) /\ disturbances' = disturbances + 1
      BY <1>2, <1>10, <2>2
    <3> QED BY <1>0, <1>7, <1>9, <3>1
  <2> QED BY <2>1, <2>2
<1>12. disturbances' \in Nat
  <2>1. disturbances' \in {disturbances, disturbances + 1}
    BY <1>2
  <2> QED BY <1>0, <2>1
<1> QED BY <1>0, <1>1, <1>3, <1>7, <1>11, <1>12 DEF Paid, Owed

\* A reconciliation may fail, and raises nothing.
LEMMA ReconcilePays ==
    ASSUME WatchTyped, NEW d \in Deployment, NEW i \in Incident, Reconcile(i),
           Paid(d)
    PROVE  Paid(d)'
<1>0. /\ alerts[d] \in Nat /\ disturbances \in Nat /\ restarts \in Nat
      /\ poll \in [pc : {"sleeping", "polling", "ended"},
                   reconcile : SUBSET Incident, todo : SUBSET Deployment]
  BY DEF WatchTyped
<1>1. /\ UNCHANGED <<cluster, snap, watch, alerts>>
      /\ poll' = [poll EXCEPT !.reconcile = @ \ {i}]
  BY DEF Reconcile, clusterVars
<1>2. poll'.pc = poll.pc /\ poll'.todo = poll.todo
  BY <1>0, <1>1
<1>3. /\ disturbances' \in {disturbances, disturbances + 1}
      /\ restarts' = restarts
  BY DEF Reconcile, Disturb, ResolveByPod, auto_resolve_incident, vars
<1>4. Owed(d)' = Owed(d)
  BY <1>1, <1>2 DEF Owed, OwedNow, OwedNext, Planned, SeesUnhealthy, Down
<1>5. Owed(d) \in Nat
  BY DEF Owed, One
<1> QED BY <1>0, <1>1, <1>3, <1>4, <1>5 DEF Paid

\* The end of a poll: what was forgotten is what the list did not name.
LEMMA EndPollPays ==
    ASSUME WatchTyped, NEW d \in Deployment, EndPoll, Paid(d)
    PROVE  Paid(d)'
<1>0. d \notin poll.todo /\ poll.pc = "polling"
  BY DEF EndPoll
<1>1. /\ UNCHANGED <<cluster, snap, alerts, disturbances, restarts>>
      /\ poll'.pc = "sleeping" /\ d \notin poll'.todo
      /\ watch'[d] = IF snap[d].listed THEN watch[d] ELSE Watched
  BY DEF EndPoll, clusterVars, vars, Sleeping
<1>2. ~OwedNow(d) /\ ~OwedNow(d)'
  BY <1>0, <1>1 DEF OwedNow, SeesUnhealthy
<1>3. Planned(d)' <=> Planned(d)
  BY <1>1 DEF Planned
<1>4. OwedNext(d) <=> Down(d) /\ (~snap[d].listed \/ ~Told(watch[d], cluster[d]))
  BY <1>0 DEF OwedNext
<1>5. OwedNext(d)' <=> Down(d) /\ ~Told(watch'[d], cluster[d])
  BY <1>1 DEF OwedNext, Down
<1>6. OwedNext(d)' <=> OwedNext(d)
  BY <1>1, <1>4, <1>5, WatchedFacts
<1>7. Owed(d)' = Owed(d)
  BY <1>2, <1>3, <1>6 DEF Owed, One
<1> QED BY <1>1, <1>7 DEF Paid

\* A restart pays for the one alert of an outage that has to be told again.
LEMMA RestartPays ==
    ASSUME WatchTyped, NEW d \in Deployment, RestartForgets, Paid(d)
    PROVE  Paid(d)'
<1>0. alerts[d] \in Nat /\ disturbances \in Nat /\ restarts \in Nat
  BY DEF WatchTyped
<1>1. /\ UNCHANGED <<cluster, alerts, disturbances>>
      /\ restarts' = restarts + 1 /\ d \notin poll'.todo
  BY DEF RestartForgets, CrashAndRestart, clusterVars, Sleeping
<1>2. ~OwedNow(d)'
  BY <1>1 DEF OwedNow, SeesUnhealthy
<1>3. Planned(d)' <=> Planned(d)
  BY <1>1 DEF Planned
<1>4. Owed(d) \in Nat /\ Owed(d)' \in Nat /\ Owed(d)' <= Owed(d) + 1
  BY <1>2, <1>3 DEF Owed, One
<1> QED BY <1>0, <1>1, <1>4 DEF Paid

\* So does the failed call that ends the watch, though nobody is left to tell.
LEMMA RaisePays ==
    ASSUME WatchTyped, NEW d \in Deployment, NEW e \in Deployment,
           HandlerRaises(e), Paid(d)
    PROVE  Paid(d)'
<1>0. alerts[d] \in Nat /\ disturbances \in Nat /\ restarts \in Nat
  BY DEF WatchTyped
<1>1. /\ UNCHANGED <<cluster, alerts, restarts>>
      /\ disturbances' = disturbances + 1 /\ d \notin poll'.todo
  BY DEF HandlerRaises, Disturb, clusterVars, vars, Ended
<1>2. ~OwedNow(d)'
  BY <1>1 DEF OwedNow, SeesUnhealthy
<1>3. Planned(d)' <=> Planned(d)
  BY <1>1 DEF Planned
<1>4. Owed(d) \in Nat /\ Owed(d)' \in Nat /\ Owed(d)' <= Owed(d) + 1
  BY <1>2, <1>3 DEF Owed, One
<1> QED BY <1>0, <1>1, <1>4 DEF Paid

(***************************************************************************)
(* A change of the cluster makes at most one more alert due: when it ends  *)
(* a planned scale to zero it may make two due, and one was paid before.   *)
(***************************************************************************)
LEMMA ChangePays ==
    ASSUME WatchTyped, NEW d \in Deployment, NEW e \in Deployment,
           ClusterChanges(e), Paid(d)
    PROVE  Paid(d)'
<1>0. /\ alerts[d] \in Nat /\ disturbances \in Nat /\ restarts \in Nat
      /\ snap[d] \in Condition
  BY DEF WatchTyped
<1>1. /\ UNCHANGED <<snap, watch, alerts, restarts, poll>>
      /\ disturbances' = disturbances + 1
      /\ WatchTyped'
  <2>1. [WatchNext]_allVars
    BY DEF WatchNext
  <2> QED BY <2>1, WatchTypedStep DEF ClusterChanges, Disturb, vars
<1>2. OwedNow(d)' => OwedNow(d) \/ (Planned(d) /\ ~Planned(d)')
  <2>1. Planned(d) => Planned(d) = TRUE
    BY DEF Planned
  <2>2. Planned(d)' => Planned(d)' = TRUE
    BY DEF Planned
  <2>3. Planned(d)' => Planned(d) \/ (Planned(d)' = TRUE /\ Planned(d) = FALSE)
    BY <2>2 DEF Planned
  <2>4. OwedNow(d)' => /\ d \in poll.todo /\ ~Told(watch[d], snap[d])
                       /\ Unhealthy(snap[d], Planned(d)')
    BY <1>1 DEF OwedNow, SeesUnhealthy
  <2>5. ~Planned(d) => Planned(d) = FALSE
    BY DEF Planned
  <2>6. ~Planned(d)' => Planned(d)' = FALSE
    BY DEF Planned
  <2>7. OwedNow(d)' /\ (Planned(d) => Planned(d)') => Unhealthy(snap[d], Planned(d))
    BY <1>0, <2>1, <2>2, <2>4, <2>5, <2>6, UnhealthyPlanned
  <2> QED BY <2>4, <2>7 DEF OwedNow, SeesUnhealthy
<1>3. Planned(d) => ~OwedNext(d)
  BY PlannedIsNotDown DEF OwedNext
<1>4. Planned(d)' => ~OwedNext(d)'
  <2>1. Planned(d)' => /\ cluster'[d].listed /\ cluster'[d].planned
                       /\ cluster'[d] \in Condition
    BY <1>1 DEF Planned, WatchTyped
  <2>2. Planned(d)' => cluster'[d].planned = TRUE /\ cluster'[d].desired = 0
    BY <2>1, ConditionFields
  <2> QED BY <2>1, <2>2, UnhealthyPlanned DEF OwedNext, Down
<1>5. Owed(d) \in Nat /\ Owed(d)' \in Nat /\ Owed(d)' <= Owed(d) + 1
  BY <1>2, <1>3, <1>4 DEF Owed, One
<1> QED BY <1>0, <1>1, <1>5 DEF Paid

\* The evaluation of another Deployment changes nothing here.
LEMMA OtherEvaluatePays ==
    ASSUME WatchTyped, NEW d \in Deployment, NEW e \in Deployment, e # d,
           Evaluate(e), Paid(d)
    PROVE  Paid(d)'
<1>0. /\ alerts \in [Deployment -> Nat] /\ disturbances \in Nat
      /\ restarts \in Nat /\ watch \in [Deployment -> WatchState]
      /\ poll \in [pc : {"sleeping", "polling", "ended"},
                   reconcile : SUBSET Incident, todo : SUBSET Deployment]
  BY DEF WatchTyped
<1>1. /\ restarts' = restarts
      /\ poll' = [poll EXCEPT !.todo = @ \ {e}]
      /\ UNCHANGED <<cluster, snap>>
  BY EvaluateFacts
<1>2. PICK u \in BOOLEAN :
         /\ watch' = [watch EXCEPT ![e] = Marked(Observed(watch[e], snap[e], u))]
         /\ alerts' = [alerts EXCEPT ![e] =
                          @ + One(Due(Observed(watch[e], snap[e], u)))]
         /\ disturbances' \in {disturbances, disturbances + 1}
  BY EvaluateFacts
<1>3. /\ watch'[d] = watch[d] /\ alerts'[d] = alerts[d]
      /\ disturbances' \in {disturbances, disturbances + 1}
      /\ poll'.pc = poll.pc /\ (d \in poll'.todo <=> d \in poll.todo)
  BY <1>0, <1>1, <1>2
<1>4. Owed(d)' = Owed(d)
  BY <1>1, <1>3 DEF Owed, OwedNow, OwedNext, Planned, SeesUnhealthy, Down
<1>5. Owed(d) \in Nat /\ alerts[d] \in Nat
  BY <1>0 DEF Owed, One
<1> QED BY <1>0, <1>1, <1>3, <1>4, <1>5 DEF Paid

\* Nothing happened, nothing is due.
LEMMA UntouchedPays ==
    ASSUME NEW d \in Deployment, Untouched, Paid(d)
    PROVE  Paid(d)'
  BY DEF Untouched, Paid, Owed, OwedNow, OwedNext, Planned, SeesUnhealthy, Down

\* Initially every Deployment is served, and nobody owes anything.
LEMMA PaidInit ==
    ASSUME WatchInit, NEW d \in Deployment
    PROVE  Paid(d)
<1>1. cluster[d] \in Condition /\ cluster[d].desired > 0
      /\ cluster[d].available >= cluster[d].desired
  BY DEF WatchInit, FullyServed
<1>2. ~Planned(d) /\ ~Down(d)
  BY <1>1, ConditionFields DEF Planned, Down, Unhealthy
<1>3. ~OwedNow(d) /\ ~OwedNext(d)
  BY <1>2 DEF WatchInit, Sleeping, OwedNow, OwedNext, SeesUnhealthy
<1>4. alerts[d] = 0 /\ disturbances = 0 /\ restarts = 0
  BY DEF WatchInit
<1> QED BY <1>2, <1>3, <1>4 DEF Paid, Owed, One

(***************************************************************************)
(* A quiet world is quiet, for any number of Deployments, replicas, polls, *)
(* and any debounce: the watch raises at most one alert of a Deployment    *)
(* per change of the cluster, failed call or restart.                      *)
(***************************************************************************)
THEOREM QuietWorld == WatchSpec => []QuietWorldIsQuiet
<1>1. WatchInit => QuietInv
  BY WatchTypedInit, PaidInit DEF QuietInv
<1>2. QuietInv /\ [WatchNext]_allVars => QuietInv'
  <2> SUFFICES ASSUME QuietInv, [WatchNext]_allVars PROVE QuietInv'
    OBVIOUS
  <2>1. WatchTyped /\ WatchTyped'
    BY WatchTypedStep DEF QuietInv
  <2>2. ASSUME NEW d \in Deployment PROVE Paid(d)'
    <3>0. Paid(d)
      BY DEF QuietInv
    <3>1. CASE ListDeployments
      BY <2>1, <3>0, <3>1, ListPays
    <3>2. ASSUME NEW i \in Incident, Reconcile(i) PROVE Paid(d)'
      BY <2>1, <3>0, <3>2, ReconcilePays
    <3>3. ASSUME NEW e \in Deployment, Evaluate(e) PROVE Paid(d)'
      BY <2>1, <3>0, <3>3, EvaluatePays, OtherEvaluatePays
    <3>4. CASE EndPoll
      BY <2>1, <3>0, <3>4, EndPollPays
    <3>5. CASE RestartForgets
      BY <2>1, <3>0, <3>5, RestartPays
    <3>6. ASSUME NEW e \in Deployment, ClusterChanges(e) PROVE Paid(d)'
      BY <2>1, <3>0, <3>6, ChangePays
    <3>7. CASE \/ \E i \in Incident : LifecycleActs(i) \/ LifecycleEnds(i)
               \/ \E p \in Alerting : AlertmanagerFires(p) \/ AlertmanagerResolves(p)
      BY <3>0, <3>7, OthersLeaveTheWatch, UntouchedPays
    <3>8. CASE UNCHANGED allVars
      BY <3>0, <3>8, UntouchedPays DEF allVars, watchVars, vars, Untouched
    <3>9. ASSUME NEW e \in Deployment, HandlerRaises(e) PROVE Paid(d)'
      BY <2>1, <3>0, <3>9, RaisePays
    <3> QED BY <3>1, <3>2, <3>3, <3>4, <3>5, <3>6, <3>7, <3>8, <3>9
            DEF WatchNext, Poll
  <2> QED BY <2>1, <2>2 DEF QuietInv
<1>3. QuietInv => QuietWorldIsQuiet
  <2> SUFFICES ASSUME QuietInv, NEW d \in Deployment
               PROVE  alerts[d] <= disturbances + restarts
    BY DEF QuietWorldIsQuiet
  <2>1. /\ Owed(d) \in Nat /\ alerts[d] \in Nat /\ disturbances \in Nat
        /\ restarts \in Nat /\ alerts[d] + Owed(d) <= disturbances + restarts
    BY DEF QuietInv, WatchTyped, Paid, Owed, One
  <2> QED BY <2>1
<1> QED BY <1>1, <1>2, <1>3, PTL DEF WatchSpec

-----------------------------------------------------------------------------
(***************************************************************************)
(* What a poll is about to reconcile keeps its Pod, and stays on the books.*)
(***************************************************************************)
KnownIncidents ==
    /\ store \in [Incident -> Record]
    /\ run \in [Incident -> [Writer -> Task]]
    /\ live \in [Incident -> Writer \cup {Nobody}]
    /\ \A i \in Incident :
          /\ live[i] # Nobody => /\ live[i] = Engine
                                 /\ run[i][Engine].pc # "idle"
          /\ run[i][Engine].pc # "idle" =>
                /\ run[i][Engine].obj.status # "absent"
                /\ store[i].status # "absent"

Recorded ==
    \A i \in poll.reconcile : store[i].status # "absent" /\ podOf[i] # NoPod

ExactInv == WatchTyped /\ KnownIncidents /\ Recorded

\* No record is ever dropped.
Grows == \A i \in Incident :
             store[i].status # "absent" => store'[i].status # "absent"

\* The records the watch's world saves are records, and none is blank.
LEMMA WatchRecords ==
    /\ Absent \in Record /\ NewIncident \in Record
    /\ NewIncident.status # "absent"
    /\ \A rec \in Record :
          /\ interrupt(rec) \in Record /\ interrupt(rec).status # "absent"
          /\ Resume(rec) \in Record /\ Resume(rec).status # "absent"
          /\ \A r \in {"validation_failed", "no_safe_action"} :
                Escalate(rec, r) \in Record /\ Escalate(rec, r).status # "absent"
          /\ \A s \in {"auto_resolved", "resolved", "validating"} :
                /\ [rec EXCEPT !.status = s] \in Record
                /\ [rec EXCEPT !.status = s].status # "absent"
          /\ \A a \in Action : WithResult(rec, a, 0) \in Record
<1>1. \A s \in Status \cup {"absent"} : Blank(s) \in Record /\ Blank(s).status = s
  BY DEF Blank, Record, ProposalStatus
<1>2. /\ Absent \in Record /\ NewIncident \in Record
      /\ NewIncident.status # "absent"
  BY <1>1 DEF Absent, NewIncident, Status, ActiveStatus
<1>3. ASSUME NEW rec \in Record, NEW r \in EscalationReason
      PROVE  Escalate(rec, r) \in Record /\ Escalate(rec, r).status # "absent"
  BY DEF Escalate, Record, Status
<1>4. ASSUME NEW rec \in Record
      PROVE  Resume(rec) \in Record /\ Resume(rec).status # "absent"
  BY DEF Resume, Record, Status, ActiveStatus
<1>5. ASSUME NEW rec \in Record, NEW s \in {"auto_resolved", "resolved", "validating"}
      PROVE  /\ [rec EXCEPT !.status = s] \in Record
             /\ [rec EXCEPT !.status = s].status # "absent"
  BY DEF Record, Status, ActiveStatus, ClosedStatus
<1>6. ASSUME NEW rec \in Record, NEW a \in Action
      PROVE  WithResult(rec, a, 0) \in Record
  <2>0. rec.count \in Nat /\ rec.tried \in SUBSET Action
    BY DEF Record
  <2>1. rec.count + 1 \in Nat /\ rec.tried \cup {a} \in SUBSET Action
    BY <2>0
  <2>2. \A c \in Nat, t \in SUBSET Action :
           [rec EXCEPT !.count = c, !.tried = t, !.stamp = 0] \in Record
    BY DEF Record
  <2> QED BY <2>1, <2>2 DEF WithResult
<1>7. /\ \A rec \in Record : interrupt(rec) \in Record /\ interrupt(rec).status # "absent"
      /\ {"validation_failed", "no_safe_action"} \subseteq EscalationReason
  BY <1>3 DEF interrupt, EscalationReason
<1> QED BY <1>2, <1>3, <1>4, <1>5, <1>6, <1>7

\* The tasks the manager makes are tasks, of the record they are given.
LEMMA WatchTasks ==
    /\ Idle \in Task /\ Idle.pc = "idle"
    /\ \A job \in {"lifecycle", "recheck"}, rec \in Record :
          /\ At("queued", job, rec) \in Task
          /\ At("queued", job, rec).obj = rec
          /\ At("queued", job, rec).pc = "queued"
    /\ \A t \in Task, rec \in Record :
          /\ [t EXCEPT !.obj = rec] \in Task
          /\ [t EXCEPT !.obj = rec].obj = rec
          /\ [t EXCEPT !.obj = rec].pc = t.pc
<1>1. Idle \in Task /\ Idle.pc = "idle"
  BY WatchRecords DEF Idle, Task
<1>2. ASSUME NEW job \in {"lifecycle", "recheck"}, NEW rec \in Record
      PROVE  /\ At("queued", job, rec) \in Task
             /\ At("queued", job, rec).obj = rec
             /\ At("queued", job, rec).pc = "queued"
  BY <1>1 DEF At, Task, Job, EnginePC
<1>3. ASSUME NEW t \in Task, NEW rec \in Record
      PROVE  /\ [t EXCEPT !.obj = rec] \in Task
             /\ [t EXCEPT !.obj = rec].obj = rec
             /\ [t EXCEPT !.obj = rec].pc = t.pc
  BY DEF Task
<1> QED BY <1>1, <1>2, <1>3

(***************************************************************************)
(* Each way of saving a record: by a new task of the engine, by a task     *)
(* that goes on or ends, and without a task.                               *)
(***************************************************************************)
LEMMA SaveKeepsKnown ==
    ASSUME KnownIncidents, NEW i \in Incident, NEW rec \in Record,
           rec.status # "absent", store' = [store EXCEPT ![i] = rec],
           UNCHANGED <<run, live>>
    PROVE  KnownIncidents' /\ Grows
  BY DEF KnownIncidents, Grows

\* The engine takes the lease and starts a task on the record just saved.
LEMMA SpawnKeepsKnown ==
    ASSUME KnownIncidents, NEW i \in Incident, NEW rec \in Record,
           NEW job \in {"lifecycle", "recheck"},
           rec.status # "absent", Persist(i, rec), try_acquire(i, Engine),
           spawn(i, job, rec)
    PROVE  KnownIncidents' /\ Grows
<1> DEFINE t == At("queued", job, rec)
<1>0. Engine \in Writer /\ Engine # Nobody
  BY ManagerAssumption DEF Writer
<1>1. t \in Task /\ t.obj = rec /\ t.pc = "queued"
  BY WatchTasks
<1>2. /\ store' = [store EXCEPT ![i] = rec]
      /\ live' = [live EXCEPT ![i] = Engine]
      /\ run' = [run EXCEPT ![i][Engine] = t]
  BY DEF Persist, try_acquire, spawn, SetTask
<1> HIDE DEF t
<1> QED BY <1>0, <1>1, <1>2 DEF KnownIncidents, Grows

\* Alertmanager's or the watch's alert.
LEMMA AlertKeepsKnown ==
    ASSUME KnownIncidents, NEW p, handle_alert(p)
    PROVE  KnownIncidents' /\ Grows
<1>1. ASSUME NEW i \in Incident, create(i) PROVE KnownIncidents' /\ Grows
  BY <1>1, WatchRecords, SpawnKeepsKnown DEF create
<1>2. ASSUME NEW i \in Incident, join_running(i) PROVE KnownIncidents' /\ Grows
  <2>1. live[i] = Engine /\ run[i][Engine].pc # "idle" /\ run[i][Engine] \in Task
    BY <1>2, ManagerAssumption DEF join_running, KnownIncidents, Writer
  <2>2. /\ LiveObject(i) \in Record /\ LiveObject(i).status # "absent"
    BY <2>1 DEF LiveObject, KnownIncidents, Task
  <2> QED BY <1>2, <2>2, SaveKeepsKnown DEF join_running, Persist
<1>3. ASSUME NEW i \in Incident, NEW rec \in Record, rec.status # "absent",
             join_escalated(i, rec)
      PROVE  KnownIncidents' /\ Grows
  <2>1. CASE UNCHANGED <<live, run>>
    BY <1>3, <2>1, SaveKeepsKnown DEF join_escalated, Persist
  <2>2. CASE try_acquire(i, Engine) /\ spawn(i, "recheck", rec)
    BY <1>3, <2>2, SpawnKeepsKnown DEF join_escalated
  <2> QED BY <1>3, <2>1, <2>2 DEF join_escalated
<1>4. ASSUME NEW i \in Incident, absorb_after_resolution(i)
      PROVE  KnownIncidents' /\ Grows
  BY <1>4 DEF absorb_after_resolution, KnownIncidents, Grows
<1>5. CASE Unknown(p) /\ <<p, 1>> \in Incident /\ create(<<p, 1>>)
  BY <1>1, <1>5
<1>6. ASSUME NEW i \in Incident, i[1] = p, IsLatest(i),
             \/ join_running(i)
             \/ join_escalated(i, store[i])
             \/ IsActive(store[i]) /\ join_escalated(i, interrupt(store[i]))
             \/ absorb_after_resolution(i)
             \/ /\ live[i] = Nobody
                /\ IsClosed(store[i])
                /\ i[2] < MaxOccurrences
                /\ create(<<p, i[2] + 1>>)
      PROVE  KnownIncidents' /\ Grows
  <2>1. store[i] \in Record /\ store[i].status # "absent"
    BY <1>6 DEF IsLatest, KnownIncidents
  <2>2. i[2] < MaxOccurrences => <<p, i[2] + 1>> \in Incident
    <3>1. p \in Problem /\ i[2] \in 1..MaxOccurrences /\ MaxOccurrences \in Nat
      BY <1>6, RecordAssumption DEF Incident
    <3>2. i[2] < MaxOccurrences => i[2] + 1 \in 1..MaxOccurrences
      BY <3>1
    <3> QED BY <3>1, <3>2 DEF Incident
  <2> QED BY <1>1, <1>2, <1>3, <1>4, <1>6, <2>1, <2>2, WatchRecords
<1> QED BY <1>5, <1>6 DEF handle_alert

\* A recovery that closes an incident, or only leaves a note.
LEMMA CloseKeepsKnown ==
    ASSUME KnownIncidents, NEW i \in Incident, store[i].status # "absent",
           close_unless_running(i), UNCHANGED <<run, live>>
    PROVE  /\ KnownIncidents' /\ Grows
           /\ \A j \in Incident : j # i => store'[j] = store[j]
<1>0. store \in [Incident -> Record]
  BY DEF KnownIncidents
<1>1. CASE UNCHANGED store
  BY <1>1 DEF KnownIncidents, Grows
<1>2. CASE live[i] # Nobody /\ Persist(i, LiveObject(i))
  <2>1. live[i] = Engine /\ run[i][Engine].pc # "idle" /\ run[i][Engine] \in Task
    BY <1>2, ManagerAssumption DEF KnownIncidents, Writer
  <2>2. /\ LiveObject(i) \in Record /\ LiveObject(i).status # "absent"
    BY <2>1 DEF LiveObject, KnownIncidents, Task
  <2> QED BY <1>0, <1>2, <2>2, SaveKeepsKnown DEF Persist
<1>3. CASE Persist(i, [store[i] EXCEPT !.status = "auto_resolved"])
  <2>1. /\ [store[i] EXCEPT !.status = "auto_resolved"] \in Record
        /\ [store[i] EXCEPT !.status = "auto_resolved"].status # "absent"
    BY <1>0, WatchRecords
  <2> QED BY <1>0, <1>3, <2>1, SaveKeepsKnown DEF Persist
<1> QED BY <1>1, <1>2, <1>3 DEF close_unless_running

\* A lifecycle saves its object, changed, and goes on or ends.
LEMMA LifecycleKeepsKnown ==
    ASSUME KnownIncidents, NEW i \in Incident,
           LifecycleActs(i) \/ LifecycleEnds(i)
    PROVE  KnownIncidents' /\ Grows
<1> DEFINE t == run[i][Engine]
<1>0. /\ Engine \in Writer /\ Engine # Nobody
      /\ t.pc # "idle" /\ t \in Task /\ t.obj \in Record
      /\ t.obj.status # "absent"
  <2>1. Engine \in Writer /\ Engine # Nobody
    BY ManagerAssumption DEF Writer
  <2>2. t.pc # "idle"
    BY DEF LifecycleActs, LifecycleEnds
  <2>3. t \in Task /\ t.obj.status # "absent"
    BY <2>1, <2>2 DEF KnownIncidents
  <2>4. t.obj \in Record
    BY <2>3 DEF Task
  <2> QED BY <2>1, <2>2, <2>3, <2>4
<1>1. CASE LifecycleActs(i)
  <2>1. PICK a \in Action :
           LET rec == [WithResult(t.obj, a, 0) EXCEPT !.status = "validating"]
           IN  Persist(i, rec) /\ SetTask(i, Engine, [t EXCEPT !.obj = rec])
    BY <1>1 DEF LifecycleActs
  <2> DEFINE rec == [WithResult(t.obj, a, 0) EXCEPT !.status = "validating"]
             new == [t EXCEPT !.obj = rec]
  <2>2. rec \in Record /\ rec.status # "absent"
    BY <1>0, WatchRecords
  <2> HIDE DEF rec
  <2>3. new \in Task /\ new.obj = rec /\ new.pc = t.pc
    BY <1>0, <2>2, WatchTasks
  <2>4. /\ store' = [store EXCEPT ![i] = rec] /\ live' = live
        /\ run' = [run EXCEPT ![i][Engine] = new]
    BY <1>1, <2>1 DEF Persist, SetTask, LifecycleActs, rec
  <2> HIDE DEF new
  <2> QED BY <1>0, <2>2, <2>3, <2>4 DEF KnownIncidents, Grows
<1>2. CASE LifecycleEnds(i)
  <2>1. PICK rec \in Record : rec.status # "absent" /\ Persist(i, rec)
    BY <1>0, <1>2, WatchRecords DEF LifecycleEnds
  <2>2. /\ store' = [store EXCEPT ![i] = rec]
        /\ live' = [live EXCEPT ![i] = Nobody]
        /\ run' = [run EXCEPT ![i][Engine] = Idle]
    BY <1>2, <2>1 DEF Persist, SetTask, LifecycleEnds, release
  <2> HIDE DEF t
  <2> QED BY <1>0, <2>1, <2>2, WatchTasks DEF KnownIncidents, Grows
<1> QED BY <1>1, <1>2

\* After a restart exactly the resumed incidents have a task again.
LEMMA RestartKeepsKnown ==
    ASSUME KnownIncidents, CrashAndRestart
    PROVE  KnownIncidents' /\ Grows
<1>0. /\ Engine \in Writer /\ Engine # Nobody
      /\ \A i \in Incident : store[i] \in Record
  BY ManagerAssumption DEF Writer, KnownIncidents
<1>1. \A i \in Incident :
         /\ Recovered(store[i]) \in Record
         /\ Recovered(store[i]).status # "absent"
  BY <1>0, WatchRecords DEF Recovered
<1>2. /\ store' = [i \in Incident |-> IF IsActive(store[i])
                                      THEN Recovered(store[i]) ELSE store[i]]
      /\ live' = [i \in Incident |-> IF Resumes(i) THEN Engine ELSE Nobody]
      /\ run' = [i \in Incident |-> [w \in Writer |->
                    IF w = Engine /\ Resumes(i)
                    THEN At("queued", "lifecycle", Resume(store[i])) ELSE Idle]]
  BY DEF CrashAndRestart, recover_interrupted
<1>3. /\ store' \in [Incident -> Record] /\ Grows
      /\ \A i \in Incident : Resumes(i) => store'[i].status # "absent"
  BY <1>0, <1>1, <1>2 DEF Grows, Resumes
<1>4. live' \in [Incident -> Writer \cup {Nobody}]
  BY <1>0, <1>2
<1>5. \A i \in Incident :
         /\ At("queued", "lifecycle", Resume(store[i])) \in Task
         /\ At("queued", "lifecycle", Resume(store[i])).obj.status # "absent"
         /\ At("queued", "lifecycle", Resume(store[i])).pc = "queued"
  <2> TAKE i \in Incident
  <2>1. Resume(store[i]) \in Record /\ Resume(store[i]).status # "absent"
    BY <1>0, WatchRecords
  <2> QED BY <2>1, WatchTasks
<1>6. run' \in [Incident -> [Writer -> Task]]
  BY <1>2, <1>5, WatchTasks
<1>7. \A i \in Incident :
         /\ Resumes(i) => /\ live'[i] = Engine /\ run'[i][Engine].pc = "queued"
                          /\ run'[i][Engine].obj.status # "absent"
         /\ ~Resumes(i) => live'[i] = Nobody /\ run'[i][Engine].pc = "idle"
  BY <1>0, <1>2, <1>5, WatchTasks
<1> QED BY <1>3, <1>4, <1>6, <1>7 DEF KnownIncidents

\* An alert names the Pod of an incident it opens, and of no other.
LEMMA OpensKeepsRecorded ==
    ASSUME Recorded, Grows, WatchTyped, NEW p, NEW g, Opens(p, g),
           poll'.reconcile \subseteq poll.reconcile
    PROVE  Recorded'
<1>1. poll.reconcile \subseteq Incident
  BY DEF WatchTyped
<1>2. \A i \in Incident : store[i].status # "absent" => podOf'[i] = podOf[i]
  BY DEF Opens
<1> QED BY <1>1, <1>2 DEF Recorded, Grows

\* Where no Pod is named anew, what is to be reconciled stays so.
LEMMA GrowsKeepsRecorded ==
    ASSUME Recorded, Grows, WatchTyped, podOf' = podOf,
           poll'.reconcile \subseteq poll.reconcile
    PROVE  Recorded'
<1>1. poll.reconcile \subseteq Incident
  BY DEF WatchTyped
<1> QED BY <1>1 DEF Recorded, Grows

\* Where neither a record nor a task changes, the incidents stay known.
LEMMA SameIncidents ==
    ASSUME KnownIncidents, UNCHANGED <<store, run, live>>
    PROVE  KnownIncidents' /\ Grows
  BY DEF KnownIncidents, Grows

\* The initial state knows no incident.
LEMMA ExactInit == WatchInit => ExactInv
<1> SUFFICES ASSUME WatchInit PROVE ExactInv
  OBVIOUS
<1>1. Engine \in Writer
  BY DEF Writer
<1>2. KnownIncidents
  BY <1>1, WatchRecords, WatchTasks DEF WatchInit, KnownIncidents
<1>3. Recorded
  BY DEF WatchInit, Sleeping, Recorded
<1> QED BY <1>2, <1>3, WatchTypedInit DEF ExactInv

\* A recovery noticed by Alertmanager or by the watch.
LEMMA ResolvedKeepsKnown ==
    ASSUME KnownIncidents, NEW p, handle_resolved(p)
    PROVE  KnownIncidents' /\ Grows
<1>1. UNCHANGED <<run, live>>
  BY DEF handle_resolved
<1>2. CASE UNCHANGED store
  BY <1>1, <1>2, SameIncidents
<1>3. ASSUME NEW i \in Incident, IsLatest(i), close_unless_running(i)
      PROVE  KnownIncidents' /\ Grows
  BY <1>1, <1>3, CloseKeepsKnown DEF IsLatest
<1> QED BY <1>2, <1>3 DEF handle_resolved

(***************************************************************************)
(* A step of the reconciliation: it changes the record of the incident it  *)
(* is about, and that one only if its Pod has been replaced.               *)
(***************************************************************************)
LEMMA ReconcileFacts ==
    ASSUME ExactInv, NEW j \in Incident, Reconcile(j)
    PROVE  /\ KnownIncidents' /\ Grows
           /\ podOf[j] # NoPod
           /\ \A i \in Incident :
                 store'[i] # store[i] => i = j /\ PodReplaced(j)
<1>1. podOf[j] # NoPod
  BY DEF Reconcile, ExactInv, Recorded
<1>2. CASE PodReplaced(j) /\ ResolveByPod(j)
  <2>1. /\ store[j].status # "absent" /\ close_unless_running(j)
        /\ UNCHANGED <<run, live>>
    BY <1>2 DEF ResolveByPod, auto_resolve_incident
  <2> QED BY <1>1, <1>2, <2>1, CloseKeepsKnown DEF ExactInv
<1>3. CASE UNCHANGED vars
  BY <1>1, <1>3, SameIncidents DEF ExactInv, vars
<1> QED BY <1>2, <1>3 DEF Reconcile, vars

\* An evaluation alerts, or reports a recovery, or only takes note.
LEMMA EvaluateKeepsExact ==
    ASSUME ExactInv, NEW d \in Deployment, Evaluate(d)
    PROVE  KnownIncidents' /\ Recorded'
<1>1. /\ KnownIncidents /\ Recorded /\ WatchTyped
      /\ poll.reconcile = {} /\ poll' = [poll EXCEPT !.todo = @ \ {d}]
  BY DEF ExactInv, Evaluate
<1>2. poll'.reconcile = {}
  BY <1>1 DEF WatchTyped
<1>3. ASSUME NEW o, Evaluated(d, o) PROVE KnownIncidents'
  BY <1>1, <1>3, AlertKeepsKnown, ResolvedKeepsKnown, SameIncidents
     DEF Evaluated, vars
<1>4. KnownIncidents'
  BY <1>3 DEF Evaluate
<1> QED BY <1>2, <1>4 DEF Recorded

\* Every step of the system keeps the invariant.
LEMMA ExactStep ==
    ASSUME ExactInv, [WatchNext]_allVars PROVE ExactInv'
<1>0. KnownIncidents /\ Recorded /\ WatchTyped /\ WatchTyped'
  BY WatchTypedStep DEF ExactInv
<1> SUFFICES KnownIncidents' /\ Recorded'
  BY <1>0 DEF ExactInv
<1>1. CASE ListDeployments
  <2>1. /\ UNCHANGED <<store, run, live, podOf>>
        /\ poll'.reconcile = Reconcilable(snap')
    BY <1>1 DEF ListDeployments, vars
  <2>2. KnownIncidents'
    BY <1>0, <2>1, SameIncidents
  <2>3. Recorded'
    BY <2>1 DEF Recorded, Reconcilable
  <2> QED BY <2>2, <2>3
<1>2. ASSUME NEW j \in Incident, Reconcile(j) PROVE KnownIncidents' /\ Recorded'
  <2>1. poll' = [poll EXCEPT !.reconcile = @ \ {j}] /\ podOf' = podOf
    BY <1>2 DEF Reconcile
  <2>2. poll'.reconcile \subseteq poll.reconcile
    BY <1>0, <2>1 DEF WatchTyped
  <2> QED BY <1>0, <1>2, <2>1, <2>2, ReconcileFacts, GrowsKeepsRecorded
<1>3. ASSUME NEW d \in Deployment, Evaluate(d) PROVE KnownIncidents' /\ Recorded'
  BY <1>3, EvaluateKeepsExact
<1>4. CASE EndPoll
  <2>1. UNCHANGED <<store, run, live, podOf>> /\ poll'.reconcile = {}
    BY <1>4 DEF EndPoll, vars, Sleeping
  <2> QED BY <1>0, <2>1, SameIncidents DEF Recorded
<1>5. ASSUME NEW i \in Incident, LifecycleActs(i) \/ LifecycleEnds(i)
      PROVE  KnownIncidents' /\ Recorded'
  <2>1. podOf' = podOf /\ poll' = poll
    BY <1>5 DEF LifecycleActs, LifecycleEnds, watchVars
  <2> QED BY <1>0, <1>5, <2>1, LifecycleKeepsKnown, GrowsKeepsRecorded
<1>6. CASE RestartForgets
  <2>1. CrashAndRestart /\ poll'.reconcile = {}
    BY <1>6 DEF RestartForgets, Sleeping
  <2> QED BY <1>0, <2>1, RestartKeepsKnown DEF Recorded
<1>7. ASSUME NEW d \in Deployment, ClusterChanges(d)
      PROVE  KnownIncidents' /\ Recorded'
  <2>1. UNCHANGED <<store, run, live, podOf, poll>>
    BY <1>7 DEF ClusterChanges, vars
  <2> QED BY <1>0, <2>1, SameIncidents, GrowsKeepsRecorded
<1>8. ASSUME NEW p \in Alerting, AlertmanagerFires(p)
      PROVE  KnownIncidents' /\ Recorded'
  <2>1. handle_alert(p) /\ Opens(p, pod[TargetOf[p]]) /\ poll' = poll
    BY <1>8 DEF AlertmanagerFires
  <2> QED BY <1>0, <2>1, AlertKeepsKnown, OpensKeepsRecorded
<1>9. ASSUME NEW p \in Alerting, AlertmanagerResolves(p)
      PROVE  KnownIncidents' /\ Recorded'
  <2>1. handle_resolved(p) /\ UNCHANGED <<podOf, poll>>
    BY <1>9 DEF AlertmanagerResolves, watchVars
  <2> QED BY <1>0, <2>1, ResolvedKeepsKnown, GrowsKeepsRecorded
<1>10. CASE UNCHANGED allVars
  <2>1. UNCHANGED <<store, run, live, podOf, poll>>
    BY <1>10 DEF allVars, vars, watchVars
  <2> QED BY <1>0, <2>1, SameIncidents, GrowsKeepsRecorded
<1>11. ASSUME NEW d \in Deployment, HandlerRaises(d)
       PROVE  KnownIncidents' /\ Recorded'
  <2>1. UNCHANGED <<store, run, live, podOf>> /\ poll'.reconcile = {}
    BY <1>11 DEF HandlerRaises, vars, Ended
  <2> QED BY <1>0, <2>1, SameIncidents DEF Recorded
<1> QED BY <1>1, <1>2, <1>3, <1>4, <1>5, <1>6, <1>7, <1>8, <1>9, <1>10, <1>11
        DEF WatchNext, Poll

(***************************************************************************)
(* Reconciliation is exact, whatever happens while a poll is waiting: it   *)
(* closes only an incident whose recorded Pod has been replaced.           *)
(***************************************************************************)
THEOREM ExactReconciliation == WatchSpec => ReconciliationIsExact
<1>1. ExactInv /\ [WatchNext]_allVars => [ClosesOnlyTheStale]_allVars
  <2> SUFFICES ASSUME ExactInv,
                      NEW i \in Incident, NEW j \in Incident, Reconcile(j),
                      ~IsClosed(store[i]), IsClosed(store[i])'
               PROVE  PodReplaced(i) /\ podOf[i] # NoPod
    BY DEF ClosesOnlyTheStale
  <2>1. store'[i] # store[i]
    BY DEF IsClosed
  <2> QED BY <2>1, ReconcileFacts
<1>2. ExactInv /\ [WatchNext]_allVars => ExactInv'
  BY ExactStep
<1> QED BY <1>1, <1>2, ExactInit, PTL DEF WatchSpec, ReconciliationIsExact

=============================================================================
