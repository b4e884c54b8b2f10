--------------------------- MODULE IncidentManager ---------------------------
(***************************************************************************)
(* app/lifecycle/incident_manager.py over app/store/sqlite_store.py: which *)
(* incident an event belongs to, who may write its record, and what a      *)
(* restart does with the incidents the previous process left in flight.    *)
(*                                                                         *)
(* The webhook handlers run on the event loop under the manager's lock     *)
(* without an await, so each is one action.  Everything else that works on *)
(* an incident is a task: the engine's own asyncio task (writer Engine) or *)
(* an administrator's request (a writer of Admin: first a threadpool       *)
(* thread, then a background task).  A task that holds the lease owns an   *)
(* in-memory object, obj, that it saves whole over the stored record.      *)
(*                                                                         *)
(* Time is not modelled: whether the recurrence gap, the re-check interval *)
(* or the wall-clock bound has elapsed is a nondeterministic choice.       *)
(***************************************************************************)
EXTENDS IncidentRecords

CONSTANTS
    Engine,         \* the writer of the tasks the IncidentManager spawns
    Admin,          \* the writers of administrators' requests
    Nobody,         \* no holder of a lease or of a target lock
    MaxConcurrent,  \* max_concurrent_lifecycles
    MaxCycles,      \* MAX_LIFECYCLE_CYCLES
    MaxRestarts     \* bound: restarts of the process in one behaviour

ASSUME ManagerAssumption ==
    /\ Engine \notin Admin
    /\ Nobody \notin Admin \cup {Engine}
    /\ Nobody \notin Incident
    /\ MaxConcurrent \in Nat \ {0}
    /\ MaxCycles \in Nat \ {0}
    /\ MaxRestarts \in Nat

Writer == Admin \cup {Engine}

VARIABLES
    store,     \* store[i]: the persisted record
    live,      \* live[i]: the writer holding the lease of i (_live), or Nobody
    run,       \* run[i][w]: the task of writer w on incident i
    lock,      \* lock[d]: the incident holding the target lock of d, or Nobody
    clock,     \* clock[d]: actions started against d so far
    acted,     \* acted[i]: of those, the ones started on behalf of i
    newest,    \* newest[i]: the clock at the newest one, 0 if none
    deep,      \* deep[i]: the deep proposals of i, times started (at most 2)
    launched,  \* launched[i]: lifecycles of i started without a human asking
    firing,    \* firing[p]: Alertmanager's last word on p was "firing"
    restarts   \* restarts of the process so far

\* What really was done to the cluster, and why.  The code reads none of it:
\* it only knows what its records say.
worldVars == <<clock, acted, newest, deep>>

vars == <<store, live, run, lock, worldVars, launched, firing, restarts>>

-----------------------------------------------------------------------------
EnginePC ==
    {"queued", "investigating", "analysing", "waiting", "executing",
     "validating", "digging", "finishing", "rechecking", "suggesting"}
AdminPC ==
    {"checked", "read", "granted", "auth_investigating", "auth_executing",
     "auth_validating", "finishing"}
Job == {"lifecycle", "recheck", "forced", "suggest",
        "authorize", "authorize_deep", "reject"}

(***************************************************************************)
(* A task: where it awaits (pc), what it was started for (job), its copy   *)
(* of the record (obj), and the locals of _run_inner that outlive an       *)
(* await: the candidates left in this cycle, the clock of the target when  *)
(* the evidence was collected (seen), the action being executed and when   *)
(* it started (act, at), the cycle number, executed_any (ran), and the     *)
(* reason of an escalation put off until a deep investigation ends (why).  *)
(* prop is the proposal an administrator's request names.                  *)
(***************************************************************************)
Task ==
    [pc    : EnginePC \cup AdminPC \cup {"idle"},
     job   : Job \cup {""},
     obj   : Record,
     plans : SUBSET Action,
     seen  : Nat,
     act   : Action \cup {Nobody},
     at    : Nat,
     cycle : Nat,
     ran   : BOOLEAN,
     why   : EscalationReason \cup {""},
     prop  : Proposal \cup {Nobody}]

Idle ==
    [pc |-> "idle", job |-> "", obj |-> Absent, plans |-> {}, seen |-> 0,
     act |-> Nobody, at |-> 0, cycle |-> 0, ran |-> FALSE, why |-> "",
     prop |-> Nobody]

At(pc, job, obj) == [Idle EXCEPT !.pc = pc, !.job = job, !.obj = obj]

\* try_acquire has succeeded and release has not run yet.
HoldsLease(task) == task.pc \notin {"idle", "checked", "read"}

Persist(i, rec)     == store' = [store EXCEPT ![i] = rec]
SetTask(i, w, task) == run' = [run EXCEPT ![i][w] = task]

try_acquire(i, w) == /\ live[i] = Nobody
                     /\ live' = [live EXCEPT ![i] = w]

\* The finally clause of every task: release the lease, forget the task.
release(i, w) == /\ live' = [live EXCEPT ![i] = Nobody]
                 /\ SetTask(i, w, Idle)

\* _spawn of one of the manager's own coroutines, which first awaits a slot.
spawn(i, job, rec) == SetTask(i, Engine, At("queued", job, rec))

\* Any row of the problem will do, not the newest.
IsLatest_AnyRow(i) == store[i].status # "absent"

\* store.find_latest_by_fingerprint: i is the newest incident of its problem.
IsLatest(i) ==
    /\ store[i].status # "absent"
    /\ \A n \in 1..MaxOccurrences :
          n > i[2] => store[<<i[1], n>>].status = "absent"

Unknown(p) == \A n \in 1..MaxOccurrences : store[<<p, n>>].status = "absent"

\* What a save by the lease holder writes: its own object, never a copy.
LiveObject(i) == run[i][live[i]].obj

\* A lifecycle of i starts, and nobody asked for it.
Launch(i) == launched' = [launched EXCEPT ![i] = @ + 1]

-----------------------------------------------------------------------------
(***************************************************************************)
(* The webhook entry points.                                               *)
(***************************************************************************)
create(i) ==
    /\ Launch(i)
    /\ Persist(i, NewIncident)
    /\ try_acquire(i, Engine)
    /\ spawn(i, "lifecycle", NewIncident)

join_running(i) == /\ live[i] # Nobody
                   /\ Persist(i, LiveObject(i))
                   /\ UNCHANGED <<live, run, launched>>

\* Reopening is decided by the escalation reason alone.
MayReconsider_AnyCount(rec) ==
    /\ rec.reason \in AutoReconsiderable
    /\ rec.reopens < MaxReopens

MayReconsider(rec) ==
    /\ rec.count = 0
    /\ rec.reason \in AutoReconsiderable
    /\ rec.reopens < MaxReopens

\* Counters only (not modelled), or in addition ONE evidence re-check.
join_escalated(i, rec) ==
    /\ live[i] = Nobody
    /\ rec.status = "escalated"
    /\ Persist(i, rec)
    /\ \/ UNCHANGED <<live, run, launched>>
       \/ /\ MayReconsider(rec)
          /\ try_acquire(i, Engine)
          /\ spawn(i, "recheck", rec)
          /\ UNCHANGED launched

absorb_after_resolution(i) == /\ live[i] = Nobody
                              /\ IsClosed(store[i])
                              /\ UNCHANGED <<store, live, run, launched>>

\* The label of the timeline entry is saved as the reason.
interrupt_Label(rec) == Escalate(rec, "interrupted")

interrupt(rec) == Escalate(rec, "interrupted_by_restart")

handle_alert(p) ==
    /\ firing' = [firing EXCEPT ![p] = TRUE]
    /\ \/ Unknown(p) /\ <<p, 1>> \in Incident /\ create(<<p, 1>>)
       \/ \E i \in Incident :
             /\ i[1] = p
             /\ IsLatest(i)
             /\ \/ join_running(i)
                \/ join_escalated(i, store[i])
                \/ IsActive(store[i]) /\ join_escalated(i, interrupt(store[i]))
                \/ absorb_after_resolution(i)
                \/ /\ live[i] = Nobody
                   /\ IsClosed(store[i])
                   /\ i[2] < MaxOccurrences
                   /\ create(<<p, i[2] + 1>>)
    /\ UNCHANGED <<lock, worldVars, restarts>>

\* Observed recovery closes the incident whatever holds it.
close_unless_running_always(i) ==
    /\ ~IsClosed(store[i])
    /\ Persist(i, [store[i] EXCEPT !.status = "auto_resolved"])

\* Shared by handle_resolved and auto_resolve_incident: a closed incident is
\* left alone, a running one only gets a note, any other one is closed.
close_unless_running(i) ==
    \/ IsClosed(store[i]) /\ UNCHANGED store
    \/ ~IsClosed(store[i]) /\ live[i] # Nobody /\ Persist(i, LiveObject(i))
    \/ /\ ~IsClosed(store[i])
       /\ live[i] = Nobody
       /\ Persist(i, [store[i] EXCEPT !.status = "auto_resolved"])

handle_resolved(p) ==
    /\ firing' = [firing EXCEPT ![p] = FALSE]
    /\ \/ Unknown(p) /\ UNCHANGED store
       \/ \E i \in Incident :
             i[1] = p /\ IsLatest(i) /\ close_unless_running(i)
    /\ UNCHANGED <<live, run, lock, worldVars, launched, restarts>>

\* By incident id, from the Kubernetes reconciliation: firing is untouched.
auto_resolve_incident(i) ==
    /\ store[i].status # "absent"
    /\ close_unless_running(i)
    /\ UNCHANGED <<live, run, lock, worldVars, launched, firing, restarts>>

-----------------------------------------------------------------------------
(***************************************************************************)
(* The process dies between any two steps and starts again.  Leases, tasks *)
(* and target locks are gone; recover_interrupted runs before any webhook  *)
(* or request is served, so nothing happens in between.                    *)
(***************************************************************************)
\* No result is taken for no action, whatever the lifecycle was doing.
CanResume_AnyStatus(rec) == rec.count = 0 /\ ~rec.resumed

\* The resumed_after_restart mark is not looked for.
CanResume_Always(rec) ==
    rec.count = 0 /\ rec.status \in {"open", "investigating"}

CanResume(rec) ==
    /\ rec.count = 0
    /\ ~rec.resumed
    /\ rec.status \in {"open", "investigating"}

Resume(rec) == [rec EXCEPT !.resumed = TRUE, !.status = "open"]

Resumes(i) == IsActive(store[i]) /\ CanResume(store[i])

\* A status is missing from the ones startup looks for.
Recovered_NotValidating(rec) ==
    IF CanResume(rec) THEN Resume(rec)
    ELSE IF rec.status = "validating" THEN rec ELSE interrupt(rec)

Recovered(rec) == IF CanResume(rec) THEN Resume(rec) ELSE interrupt(rec)

recover_interrupted ==
    /\ store' = [i \in Incident |->
                    IF IsActive(store[i]) THEN Recovered(store[i])
                    ELSE store[i]]
    /\ live' = [i \in Incident |-> IF Resumes(i) THEN Engine ELSE Nobody]
    /\ run' = [i \in Incident |-> [w \in Writer |->
                  IF w = Engine /\ Resumes(i)
                  THEN At("queued", "lifecycle", Resume(store[i]))
                  ELSE Idle]]
    /\ launched' = [i \in Incident |->
                       IF Resumes(i) THEN launched[i] + 1 ELSE launched[i]]

CrashAndRestart ==
    /\ restarts < MaxRestarts
    /\ restarts' = restarts + 1
    /\ recover_interrupted
    /\ lock' = [d \in Deployment |-> Nobody]
    /\ UNCHANGED <<worldVars, firing>>
=============================================================================
