----------------------------- MODULE Orchestrator -----------------------------
(***************************************************************************)
(* app/lifecycle/orchestrator.py: the lifecycle of one incident, as the    *)
(* coroutines IncidentManager spawns run it.  An action is the code from   *)
(* one await to the next: INVESTIGATION, ROOT CAUSE ANALYSIS, then for     *)
(* each candidate the policy check, execution and validation under the     *)
(* target lock, and round again or out through _finish.                    *)
(*                                                                         *)
(* What the evidence, the reasoner, the policy thresholds and the cluster  *)
(* say is nondeterministic; the action cap, the already-attempted filter   *)
(* and the stale-evidence check are the code's.                            *)
(***************************************************************************)
EXTENDS IncidentManager

CONSTANT
    MaxStarts   \* bound: actions started against one deployment

ASSUME OrchestratorAssumption == MaxStarts \in Nat

task(i) == run[i][Engine]

InSlot(t) == t.pc \notin {"idle", "queued"}

\* The manager's semaphore: a queued task enters when a slot is free.
SlotFree ==
    Cardinality({i \in Incident : InSlot(task(i))}) < MaxConcurrent

Release(i) == lock' = [lock EXCEPT ![Target(i)] = Nobody]

\* An engine task's lock, if it holds one, goes with the task.
ReleaseIfHeld(i) == IF lock[Target(i)] = i THEN Release(i) ELSE UNCHANGED lock

Keep == UNCHANGED <<launched, firing, restarts>>

-----------------------------------------------------------------------------
(***************************************************************************)
(* Where control goes when a step is done.  Each operator gives store' and *)
(* run'; rec is the in-memory object as the step leaves it.                *)
(***************************************************************************)

\* Start of a cycle: status INVESTIGATING in memory, evidence dated now.
Investigating(i, rec, cycle) ==
    [At("investigating", "lifecycle", [rec EXCEPT !.status = "investigating"])
        EXCEPT !.cycle = cycle, !.seen = clock[Target(i)]]

\* The first persist of _finish, then the notifications are awaited.
Conclude(i, rec) ==
    /\ Persist(i, rec)
    /\ SetTask(i, Engine, At("finishing", "lifecycle", rec))

CountDig(rec) ==
    [rec EXCEPT !.digs = IF @ > DeepBudget THEN @ ELSE @ + 1, !.digging = TRUE]

\* _maybe_deep_investigate before an escalation that has already been decided.
Deepen(i, rec, why) ==
    IF rec.diagnosed
    THEN /\ Persist(i, rec)
         /\ SetTask(i, Engine,
               [At("digging", "lifecycle", CountDig(rec)) EXCEPT !.why = why])
    ELSE Conclude(i, Escalate(rec, why))

\* The head of the while loop: exhausted, out of wall-clock time, or again.
NextCycle(i, rec) ==
    \/ /\ task(i).cycle = MaxCycles
       /\ Deepen(i, rec, "validation_failed")
    \/ /\ task(i).cycle < MaxCycles
       /\ Conclude(i, Escalate(rec, "lifecycle_timeout"))
    \/ /\ task(i).cycle < MaxCycles
       /\ Persist(i, rec)
       /\ SetTask(i, Engine, Investigating(i, rec, task(i).cycle + 1))

\* After the candidate loop without a resolution (fresh evidence).
EndOfCycle(i, rec, ran) ==
    \/ ~ran /\ Deepen(i, rec, "no_safe_action")
    \/ ran /\ rec.count >= Cap /\ Deepen(i, rec, "action_cap_reached")
    \/ ran /\ rec.count < Cap /\ NextCycle(i, rec)

\* Leave candidate act behind: the next one, or the end of the loop.
NextCandidate(i, rec, act, ran) ==
    LET left == task(i).plans \ {act} IN
    IF left = {}
    THEN EndOfCycle(i, rec, ran)
    ELSE /\ Persist(i, rec)
         /\ SetTask(i, Engine,
               [task(i) EXCEPT !.pc = "waiting", !.obj = rec, !.plans = left,
                               !.ran = ran, !.act = Nobody, !.at = 0])

-----------------------------------------------------------------------------
(***************************************************************************)
(* Entering a slot: _run_lifecycle, _run_reconsideration, _run_suggest_fix.*)
(* The object of a re-check is escalated: it was when the lease was taken, *)
(* and only the lease holder changes it, so the "not_escalated" return is  *)
(* never taken.  suggest_fix may also return at once: switched off, an     *)
(* investigation is marked as running, not eligible.                       *)
(***************************************************************************)
EnterSlot(i) ==
    LET t == task(i) IN
    /\ t.pc = "queued"
    /\ SlotFree
    /\ \/ /\ t.job = "lifecycle"
          /\ SetTask(i, Engine, Investigating(i, t.obj, 1))
          /\ UNCHANGED <<store, live>>
       \/ /\ t.job = "recheck"
          /\ SetTask(i, Engine, [t EXCEPT !.pc = "rechecking"])
          /\ UNCHANGED <<store, live>>
       \/ /\ t.job = "forced"
          /\ Persist(i, Reopen(t.obj))
          /\ SetTask(i, Engine, Investigating(i, Reopen(t.obj), 1))
          /\ UNCHANGED live
       \/ /\ t.job = "suggest"
          /\ release(i, Engine)
          /\ UNCHANGED store
       \/ /\ t.job = "suggest"
          /\ ~t.obj.digging
          /\ t.obj.digs >= DeepBudget
          /\ Persist(i, t.obj)
          /\ release(i, Engine)
       \/ /\ t.job = "suggest"
          /\ ~t.obj.digging
          /\ t.obj.digs < DeepBudget
          /\ SetTask(i, Engine, At("suggesting", "suggest", CountDig(t.obj)))
          /\ UNCHANGED <<store, live>>
    /\ UNCHANGED <<lock, worldVars>>
    /\ Keep

\* The automatic half of reconsider: unchanged evidence (or a failure while
\* collecting it) ends the re-check, a material change reopens the incident.
Reopened(rec) == Reopen([rec EXCEPT !.reopens = @ + 1])

Recheck(i) ==
    LET t == task(i) IN
    /\ t.pc = "rechecking"
    /\ \/ /\ Persist(i, t.obj) \/ UNCHANGED store
          /\ release(i, Engine)
          /\ UNCHANGED launched
       \/ /\ Persist(i, Reopened(t.obj))
          /\ SetTask(i, Engine, Investigating(i, Reopened(t.obj), 1))
          /\ Launch(i)
          /\ UNCHANGED live
    /\ UNCHANGED <<lock, worldVars, firing, restarts>>

\* Evidence collected, correlated and saved; the reasoner is awaited.
Investigated(i) ==
    LET t == task(i) IN
    /\ t.pc = "investigating"
    /\ Persist(i, t.obj)
    /\ SetTask(i, Engine, [t EXCEPT !.pc = "analysing"])
    /\ UNCHANGED <<live, lock, worldVars>>
    /\ Keep

\* Root cause and candidates: any subset of the actions not yet attempted.
Candidates(rec) == SUBSET (Action \ rec.tried)

Analysed(i) ==
    LET t == task(i)
        rec == [t.obj EXCEPT !.status = "remediating", !.diagnosed = TRUE] IN
    /\ t.pc = "analysing"
    /\ \E plans \in Candidates(rec) :
          IF plans = {}
          THEN Deepen(i, rec, "no_safe_action")
          ELSE /\ Persist(i, rec)
               /\ SetTask(i, Engine, [t EXCEPT !.pc = "waiting", !.obj = rec,
                                               !.plans = plans, !.ran = FALSE])
    /\ UNCHANGED <<live, lock, worldVars>>
    /\ Keep

-----------------------------------------------------------------------------
\* store.recent_executed_actions since the evidence, this incident excluded.
target_acted_since(i) ==
    \E j \in Incident :
        /\ j # i
        /\ Target(j) = Target(i)
        /\ store[j].stamp > task(i).seen

\* The lock of the target is free: async with lock enters at once.
LockFree_Ignored(i) == i \in Incident

LockFree(i) == lock[Target(i)] = Nobody

\* The policy's own cap; every other denial reason is nondeterministic.
PolicyAllows_NoCap(rec, d) == clock[d] < MaxStarts

PolicyAllows(rec, d) == rec.count < Cap /\ clock[d] < MaxStarts

\* The Remediation Engine is called: from here on the cluster may have been
\* changed, whatever happens to the process.
StartAction(i) ==
    /\ clock' = [clock EXCEPT ![Target(i)] = @ + 1]
    /\ acted' = [acted EXCEPT ![i] = @ + 1]
    /\ newest' = [newest EXCEPT ![i] = clock[Target(i)] + 1]

\* The freshness check is dropped.
TryCandidate_Stale(i) ==
    LET t == task(i)
        d == Target(i) IN
    /\ t.pc = "waiting"
    /\ LockFree(i)
    /\ \E act \in t.plans :
          \/ /\ NextCandidate(i, t.obj, act, t.ran)
             /\ UNCHANGED <<lock, worldVars>>
          \/ /\ PolicyAllows(t.obj, d)
             /\ StartAction(i)
             /\ lock' = [lock EXCEPT ![d] = i]
             /\ SetTask(i, Engine, [t EXCEPT !.pc = "executing", !.act = act,
                                             !.at = clock[d] + 1])
             /\ UNCHANGED <<store, deep>>
    /\ UNCHANGED live
    /\ Keep

(***************************************************************************)
(* One candidate, under the target lock: look again if another incident    *)
(* acted since the evidence was collected; else denied, or refused by the  *)
(* Remediation Engine before it does anything (the lock is then held until *)
(* _finish returns), or started.                                           *)
(***************************************************************************)
TryCandidate(i) ==
    LET t == task(i)
        d == Target(i) IN
    /\ t.pc = "waiting"
    /\ LockFree(i)
    /\ \E act \in t.plans :
          \/ /\ target_acted_since(i)
             /\ NextCycle(i, t.obj)
             /\ UNCHANGED <<lock, worldVars>>
          \/ /\ ~target_acted_since(i)
             /\ NextCandidate(i, t.obj, act, t.ran)
             /\ UNCHANGED <<lock, worldVars>>
          \/ /\ ~target_acted_since(i)
             /\ PolicyAllows(t.obj, d)
             /\ Conclude(i, Escalate(t.obj, "remediation_error"))
             /\ lock' = [lock EXCEPT ![d] = i]
             /\ UNCHANGED worldVars
          \/ /\ ~target_acted_since(i)
             /\ PolicyAllows(t.obj, d)
             /\ StartAction(i)
             /\ lock' = [lock EXCEPT ![d] = i]
             /\ SetTask(i, Engine, [t EXCEPT !.pc = "executing", !.act = act,
                                             !.at = clock[d] + 1])
             /\ UNCHANGED <<store, deep>>
    /\ UNCHANGED live
    /\ Keep

\* The result is saved only when the execution succeeded.
Executed_LostFailure(i) ==
    LET t == task(i)
        rec == WithResult(t.obj, t.act, t.at) IN
    /\ t.pc = "executing"
    /\ \/ /\ Persist(i, rec)
          /\ SetTask(i, Engine,
                [t EXCEPT !.pc = "validating", !.ran = TRUE,
                          !.obj = [rec EXCEPT !.status = "validating"]])
          /\ UNCHANGED lock
       \/ NextCandidate(i, t.obj, t.act, TRUE) /\ Release(i)
    /\ UNCHANGED <<live, worldVars>>
    /\ Keep

(***************************************************************************)
(* The action returned.  Success: validate, still under the lock (the new  *)
(* status is saved only after validation).  A transient failure leaves the *)
(* candidate loop, any other one falls through to the next candidate.      *)
(***************************************************************************)
Executed(i) ==
    LET t == task(i)
        rec == WithResult(t.obj, t.act, t.at) IN
    /\ t.pc = "executing"
    /\ \/ /\ Persist(i, rec)
          /\ SetTask(i, Engine,
                [t EXCEPT !.pc = "validating", !.ran = TRUE,
                          !.obj = [rec EXCEPT !.status = "validating"]])
          /\ UNCHANGED lock
       \/ NextCandidate(i, rec, t.act, TRUE) /\ Release(i)
       \/ EndOfCycle(i, rec, TRUE) /\ Release(i)
    /\ UNCHANGED <<live, worldVars>>
    /\ Keep

\* The lock is not given back after validation.
Validated_KeepsLock(i) ==
    LET t == task(i) IN
    /\ t.pc = "validating"
    /\ \/ Conclude(i, [t.obj EXCEPT !.status = "resolved"])
       \/ EndOfCycle(i, t.obj, TRUE)
    /\ UNCHANGED <<live, lock, worldVars>>
    /\ Keep

\* PASSED or DEGRADED resolves the incident, anything else goes round again.
Validated(i) ==
    LET t == task(i) IN
    /\ t.pc = "validating"
    /\ \/ Conclude(i, [t.obj EXCEPT !.status = "resolved"])
       \/ EndOfCycle(i, t.obj, TRUE)
    /\ Release(i)
    /\ UNCHANGED <<live, worldVars>>
    /\ Keep

-----------------------------------------------------------------------------
\* evaluate_deep_proposal: never "suggested" once the action cap is reached.
Verdicts(rec) ==
    {s \in {"suggested", "rejected"} : s = "suggested" => rec.count < Cap}

\* What a deep investigation leaves on the record: nothing, or one more
\* proposal, which the policy rejected or a human may authorise.
Dig(rec)           == [rec EXCEPT !.digging = FALSE]
Propose(rec, p, s) == [Dig(rec) EXCEPT !.proposals[p] = s]

DeepOutcomes(rec) ==
    {Dig(rec)} \cup
    {Propose(rec, x[1], x[2]) :
        x \in {p \in Proposal : rec.proposals[p] = "none"} \X Verdicts(rec)}

\* The automatic deep investigation is over: escalate as decided before it.
Dug(i) ==
    LET t == task(i) IN
    /\ t.pc = "digging"
    /\ \E rec \in DeepOutcomes(t.obj) : Conclude(i, Escalate(rec, t.why))
    /\ UNCHANGED <<live, lock, worldVars>>
    /\ Keep

\* suggest_fix: the same investigation, and the status is left alone.  An
\* exception ends the task and saves nothing.
Suggested(i) ==
    LET t == task(i) IN
    /\ t.pc = "suggesting"
    /\ UNCHANGED store \/ \E rec \in DeepOutcomes(t.obj) : Persist(i, rec)
    /\ release(i, Engine)
    /\ UNCHANGED <<lock, worldVars>>
    /\ Keep

\* The object as an exception finds it: the finally clause ends a dig.
Stopped(t) == IF t.pc = "digging" THEN Dig(t.obj) ELSE t.obj

\* run: an exception while investigating, analysing, validating or digging
\* becomes an escalation, whatever had been decided before the dig; async with
\* gives the target lock back on the way out.
InternalError(i) ==
    LET t == task(i) IN
    /\ t.pc \in {"investigating", "analysing", "validating", "digging"}
    /\ Conclude(i, Escalate(Stopped(t), "internal_error"))
    /\ ReleaseIfHeld(i)
    /\ UNCHANGED <<live, worldVars>>
    /\ Keep

\* The lease is not given back when the lifecycle ends.
Finished_KeepsLease(i) ==
    LET t == task(i) IN
    /\ t.pc = "finishing"
    /\ Persist(i, t.obj)
    /\ SetTask(i, Engine, Idle)
    /\ ReleaseIfHeld(i)
    /\ UNCHANGED <<live, worldVars>>
    /\ Keep

\* Notifications delivered or not, outcomes recorded, last save, lease back.
Finished(i) ==
    LET t == task(i) IN
    /\ t.pc = "finishing"
    /\ Persist(i, t.obj)
    /\ release(i, Engine)
    /\ ReleaseIfHeld(i)
    /\ UNCHANGED worldVars
    /\ Keep

\* Every step of the engine's task on incident i.
Step(i) ==
    \/ EnterSlot(i) \/ Recheck(i) \/ Investigated(i) \/ Analysed(i)
    \/ TryCandidate(i) \/ Executed(i) \/ Validated(i) \/ Dug(i)
    \/ Suggested(i) \/ InternalError(i) \/ Finished(i)
=============================================================================
