---------------------------- MODULE IncidentEngine ----------------------------
(***************************************************************************)
(* The incident engine as one system: webhooks and the Kubernetes watch    *)
(* (IncidentManager), the lifecycles they start (Orchestrator), what       *)
(* administrators ask for (Authorizations), and restarts of the process.   *)
(* With HumanOps = {} and no restart it is the autonomous engine.          *)
(***************************************************************************)
EXTENDS Authorizations

Init ==
    /\ store = [i \in Incident |-> Absent]
    /\ live = [i \in Incident |-> Nobody]
    /\ run = [i \in Incident |-> [w \in Writer |-> Idle]]
    /\ lock = [d \in Deployment |-> Nobody]
    /\ clock = [d \in Deployment |-> 0]
    /\ acted = [i \in Incident |-> 0]
    /\ newest = [i \in Incident |-> 0]
    /\ deep = [i \in Incident |-> [p \in Proposal |-> 0]]
    /\ launched = [i \in Incident |-> 0]
    /\ firing = [p \in Problem |-> FALSE]
    /\ restarts = 0

Webhook == \E p \in Problem : handle_alert(p) \/ handle_resolved(p)

Next ==
    \/ Webhook
    \/ CrashAndRestart
    \/ \E i \in Incident :
          \/ auto_resolve_incident(i)
          \/ Request(i)
          \/ Step(i)
          \/ \E a \in Admin : AdminStep(i, a)

Spec == Init /\ [][Next]_vars

(***************************************************************************)
(* asyncio runs every ready task, and its semaphore and its locks serve    *)
(* waiters in order of arrival, so a task is not passed over for ever at   *)
(* either: strong fairness for the two steps that wait, weak fairness for  *)
(* the others.  Weak fairness of a step that awaits the Kubernetes API is  *)
(* an assumption on that API, which has to answer or fail in the end: its  *)
(* client passes no timeout.  Nothing is assumed of what it answers, of    *)
(* alerts, administrators or restarts.                                     *)
(***************************************************************************)
Fairness ==
    \A i \in Incident :
        /\ WF_vars(Step(i))
        /\ SF_vars(EnterSlot(i))
        /\ SF_vars(TryCandidate(i))
        /\ \A a \in Admin : WF_vars(AdminStep(i, a))

FairSpec == Spec /\ Fairness

-----------------------------------------------------------------------------
TypeOK ==
    /\ store \in [Incident -> Record]
    /\ live \in [Incident -> Writer \cup {Nobody}]
    /\ run \in [Incident -> [Writer -> Task]]
    /\ lock \in [Deployment -> Incident \cup {Nobody}]
    /\ clock \in [Deployment -> Nat]
    /\ acted \in [Incident -> Nat]
    /\ newest \in [Incident -> Nat]
    /\ deep \in [Incident -> [Proposal -> Nat]]
    /\ launched \in [Incident -> Nat]
    /\ firing \in [Problem -> BOOLEAN]
    /\ restarts \in Nat

(***************************************************************************)
(* One writer per incident, and the lease says who: a task is past         *)
(* try_acquire exactly when it is the holder (incident_manager.py, "One    *)
(* writer per incident").  So no two tasks save the same record under a    *)
(* lease, no lease outlives its task, and none is held by nobody.          *)
(***************************************************************************)
SingleWriter ==
    \A i \in Incident : \A w \in Writer :
        HoldsLease(run[i][w]) <=> live[i] = w

Executing == {"executing", "validating"}

(***************************************************************************)
(* Remediation is serialised per Deployment: a lifecycle that executes or  *)
(* validates is the holder of the target's lock, so there is at most one   *)
(* (Orchestrator.__init__).                                                *)
(***************************************************************************)
OneRemediationPerTarget ==
    \A i \in Incident :
        task(i).pc \in Executing => lock[Target(i)] = i

\* The target lock is held by a task that can still give it back.
LockIsOwned ==
    \A d \in Deployment : \A i \in Incident :
        lock[d] = i => /\ Target(i) = d
                       /\ task(i).pc \in Executing \cup {"finishing"}

(***************************************************************************)
(* An incident the code still calls active is being worked on: nothing is  *)
(* left open, investigating, remediating or validating with no task to     *)
(* bring it to an end.                                                     *)
(***************************************************************************)
NoOrphan ==
    \A i \in Incident : IsActive(store[i]) => live[i] # Nobody

(***************************************************************************)
(* A recurrence is a new incident only once the previous one is closed:    *)
(* of the occurrences of one problem all but the newest are closed.        *)
(***************************************************************************)
OneOpenPerProblem ==
    \A i, j \in Incident :
        /\ i[1] = j[1]
        /\ i[2] < j[2]
        /\ store[j].status # "absent"
        => store[i].status \in ClosedStatus

(***************************************************************************)
(* max_actions_per_incident bounds what is really done to the cluster on   *)
(* an incident's behalf, not only what the record has counted: over every  *)
(* cycle, reopening, recurrence and restart.                               *)
(***************************************************************************)
ActionBudget == \A i \in Incident : acted[i] <= Cap

(***************************************************************************)
(* Nothing Sentinel starts by itself, a lifecycle or a re-check that could *)
(* reopen one, is for an incident whose Deployment it has already changed  *)
(* (_join_escalated and recover_interrupted: "never repeated blindly").    *)
(***************************************************************************)
NoUnattendedRetry ==
    \A i \in Incident :
        /\ task(i).pc \in {"queued", "rechecking"}
        /\ task(i).job \in {"lifecycle", "recheck"}
        => acted[i] = 0

(***************************************************************************)
(* "Nothing loops": an incident's lifecycle starts once, is resumed at     *)
(* most once after a restart, and is reopened at most max_incident_reopens *)
(* times, over any number of alerts and restarts.                          *)
(***************************************************************************)
LaunchBudget == \A i \in Incident : launched[i] <= 2 + MaxReopens

\* The record as the task that may change it sees it.
Known(i) == IF live[i] = Nobody THEN store[i] ELSE LiveObject(i)

InFlight(i) ==
    IF \E w \in Writer : run[i][w].pc \in {"executing", "auth_executing"}
    THEN 1 ELSE 0

(***************************************************************************)
(* The audit trail is complete: every action started for an incident is    *)
(* on its record or still being executed, and the stored record of a       *)
(* finished incident counts exactly what was done.                         *)
(***************************************************************************)
AuditComplete ==
    \A i \in Incident : acted[i] = Known(i).count + InFlight(i)

\* A deep proposal is executed at most once (policy.py, "exactly once").
DeepProposalOnce ==
    \A i \in Incident : \A p \in Proposal : deep[i][p] <= 1

-----------------------------------------------------------------------------
PhaseOf(rec) ==
    IF rec.status = "absent" THEN "absent"
    ELSE IF IsActive(rec) THEN "working"
    ELSE IF IsClosed(rec) THEN "closed" ELSE "waiting"

(***************************************************************************)
(* The engine, when nobody intervenes, does what Sentinel promises: the    *)
(* phase of an incident is that of its record as its task sees it, and     *)
(* what was tried is what was really done.                                 *)
(***************************************************************************)
Promise == INSTANCE IncidentPromise
    WITH phase <- [i \in Incident |-> PhaseOf(Known(i))],
         tries <- acted

KeepsPromise == Promise!Spec

-----------------------------------------------------------------------------
(***************************************************************************)
(* A lifecycle never acts on a stale picture: when it starts an action, no *)
(* other incident has started one on the same Deployment since its         *)
(* evidence was collected, recorded yet or not.                            *)
(***************************************************************************)
ActsOnFreshEvidence ==
    \A i, j \in Incident :
        /\ task(i).pc = "waiting"
        /\ task(i)'.pc = "executing"
        /\ i # j
        /\ Target(i) = Target(j)
        => newest[j] <= task(i).seen

FreshEvidence == [][ActsOnFreshEvidence]_vars

(***************************************************************************)
(* A closed incident is history: no later save, by a lifecycle that had    *)
(* begun before, an alert or a restart, takes it out of the status it was  *)
(* closed with.  A recurrence opens a new incident instead.                *)
(***************************************************************************)
StaysClosed ==
    \A i \in Incident :
        IsClosed(store[i]) => store'[i].status = store[i].status

ClosedIsFinal == [][StaysClosed]_vars

(***************************************************************************)
(* Results are never unwritten: the stored record of an incident never     *)
(* forgets an executed action it had, whoever saves it (the lost update    *)
(* the single-writer lease exists for).                                    *)
(***************************************************************************)
KeepsResults ==
    \A i \in Incident : /\ store[i].count <= store'[i].count
                        /\ store[i].tried \subseteq store'[i].tried

NoLostResult == [][KeepsResults]_vars

-----------------------------------------------------------------------------
(***************************************************************************)
(* Every lifecycle, re-check or authorisation ends: no incident keeps its  *)
(* lease for ever, whatever other incidents hold the slots and the lock.   *)
(***************************************************************************)
LeaseEnds == \A i \in Incident : live[i] # Nobody ~> live[i] = Nobody
=============================================================================
