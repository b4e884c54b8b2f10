---------------------------- MODULE Authorizations ----------------------------
(***************************************************************************)
(* What an administrator can ask for: app/routers/reinvestigate.py,        *)
(* app/routers/authorizations.py, and the two orchestrator methods that    *)
(* carry out an authorisation.                                             *)
(*                                                                         *)
(* /reinvestigate and /suggest-fix are coroutines: they read the record    *)
(* and take the lease without an await, in one step.  The authorize and    *)
(* reject endpoints are plain functions, which FastAPI runs on a           *)
(* threadpool: anything may happen between the read and what follows, and  *)
(* the copy that was read is the object the authorisation then works on    *)
(* and saves.  It runs as a background task of the request, under the      *)
(* lease, but takes neither a lifecycle slot nor the target lock.          *)
(*                                                                         *)
(* The rows of temporary_authorizations are not modelled: no code reads    *)
(* them back to decide anything.                                           *)
(***************************************************************************)
EXTENDS Orchestrator

CONSTANT
    HumanOps   \* bound: the requests administrators make in this instance

ASSUME AuthorizationAssumption ==
    HumanOps \subseteq {"reinvestigate", "suggest", "authorize",
                        "authorize_deep", "reject"}

IsDeep(t) == t.job = "authorize_deep"

-----------------------------------------------------------------------------
(***************************************************************************)
(* Requests served on the event loop.                                      *)
(***************************************************************************)
reinvestigate(i) ==
    /\ "reinvestigate" \in HumanOps
    /\ store[i].status = "escalated"
    /\ try_acquire(i, Engine)
    /\ spawn(i, "forced", store[i])
    /\ UNCHANGED <<store, lock, worldVars>>
    /\ Keep

suggest_fix(i) ==
    /\ "suggest" \in HumanOps
    /\ store[i].diagnosed
    /\ try_acquire(i, Engine)
    /\ spawn(i, "suggest", store[i])
    /\ UNCHANGED <<store, lock, worldVars>>
    /\ Keep

-----------------------------------------------------------------------------
(***************************************************************************)
(* Requests served on a thread: the read, and later the decision.          *)
(***************************************************************************)
authorize_incident(i, a) ==
    /\ "authorize" \in HumanOps
    /\ run[i][a] = Idle
    /\ store[i].status = "escalated"
    /\ SetTask(i, a, At("read", "authorize", store[i]))
    /\ UNCHANGED <<store, live, lock, worldVars>>
    /\ Keep

\* Any status of the incident will do, as long as the proposal is open.
authorize_deep_proposal(i, a) ==
    /\ "authorize_deep" \in HumanOps
    /\ run[i][a] = Idle
    /\ \E p \in Proposal :
          /\ store[i].proposals[p] = "suggested"
          /\ SetTask(i, a, [At("read", "authorize_deep", store[i])
                               EXCEPT !.prop = p])
    /\ UNCHANGED <<store, live, lock, worldVars>>
    /\ Keep

\* The answer of try_acquire is not looked at.
Granted_Anyway(i, a) ==
    LET t == run[i][a] IN
    /\ t.pc = "read"
    /\ t.job # "reject"
    /\ live' = [live EXCEPT ![i] = IF @ = Nobody THEN a ELSE @]
    /\ SetTask(i, a, [t EXCEPT !.pc = "granted"])
    /\ UNCHANGED <<store, lock, worldVars>>
    /\ Keep

\* The lease is taken for the copy read earlier, or the answer is a 409.
Granted(i, a) ==
    LET t == run[i][a] IN
    /\ t.pc = "read"
    /\ t.job # "reject"
    /\ \/ /\ try_acquire(i, a)
          /\ SetTask(i, a, [t EXCEPT !.pc = "granted"])
       \/ /\ live[i] # Nobody
          /\ SetTask(i, a, Idle)
          /\ UNCHANGED live
    /\ UNCHANGED <<store, lock, worldVars>>
    /\ Keep

\* reject_deep_proposal takes no lease: it looks whether anybody holds it,
\* then reads, then writes its copy back.
reject_deep_proposal(i, a) ==
    /\ "reject" \in HumanOps
    /\ run[i][a] = Idle
    /\ live[i] = Nobody
    /\ SetTask(i, a, At("checked", "reject", Absent))
    /\ UNCHANGED <<store, live, lock, worldVars>>
    /\ Keep

RejectReads(i, a) ==
    /\ run[i][a].pc = "checked"
    /\ \/ \E p \in Proposal :
             /\ store[i].proposals[p] = "suggested"
             /\ SetTask(i, a, [At("read", "reject", store[i])
                                  EXCEPT !.prop = p])
       \/ /\ \E p \in Proposal : store[i].proposals[p] # "suggested"
          /\ SetTask(i, a, Idle)
    /\ UNCHANGED <<store, live, lock, worldVars>>
    /\ Keep

RejectWrites(i, a) ==
    LET t == run[i][a] IN
    /\ t.pc = "read"
    /\ t.job = "reject"
    /\ Persist(i, [t.obj EXCEPT !.proposals[t.prop] = "rejected"])
    /\ SetTask(i, a, Idle)
    /\ UNCHANGED <<live, lock, worldVars>>
    /\ Keep

-----------------------------------------------------------------------------
(***************************************************************************)
(* authorize_and_remediate and authorize_and_remediate_deep: one attempt.  *)
(***************************************************************************)

\* The status of the proposal an authorisation is about, if it is a deep one.
Mark(t, rec, status) ==
    IF IsDeep(t) THEN [rec EXCEPT !.proposals[t.prop] = status] ELSE rec

\* The status is set directly: the escalation reason stays what it was.
Returned(rec) == [rec EXCEPT !.status = "escalated"]

\* Give up without _finish: save, release.
Decline(i, a, rec) == Persist(i, Returned(rec)) /\ release(i, a)

\* The grant is recorded and the attempt begins with fresh evidence; if it
\* cannot be recorded the lease goes back.
Authorised(i, a) ==
    LET t == run[i][a] IN
    /\ t.pc = "granted"
    /\ \/ /\ SetTask(i, a, [t EXCEPT !.pc = "auth_investigating",
                                     !.obj.status = "investigating"])
          /\ UNCHANGED live
       \/ release(i, a)
    /\ UNCHANGED <<store, lock, worldVars>>
    /\ Keep

CountDeep(t, i) ==
    IF IsDeep(t)
    THEN deep' = [deep EXCEPT ![i][t.prop] = IF @ > 1 THEN @ ELSE @ + 1]
    ELSE UNCHANGED deep

\* The proposal is still "suggested" on the record while it is carried out.
Started_Unmarked(t) == t.obj

\* What is saved before the Remediation Engine is called.
Started(t) == Mark(t, t.obj, "executing")

(***************************************************************************)
(* Fresh evidence, then the policy again: denied, an internal error,       *)
(* refused by the Remediation Engine, or started with the attempt saved    *)
(* first (it has no result yet, so it counts for nothing).                 *)
(***************************************************************************)
AuthChecked(i, a) ==
    LET t == run[i][a]
        d == Target(i) IN
    /\ t.pc = "auth_investigating"
    /\ \/ /\ Decline(i, a, Mark(t, t.obj, "rejected"))
          /\ UNCHANGED worldVars
       \/ /\ Decline(i, a, t.obj)
          /\ UNCHANGED worldVars
       \/ /\ PolicyAllows(t.obj, d)
          /\ LET rec == Returned(Mark(t, t.obj, "failed")) IN
                /\ Persist(i, rec)
                /\ SetTask(i, a, [t EXCEPT !.pc = "finishing", !.obj = rec])
          /\ UNCHANGED <<live, worldVars>>
       \/ /\ PolicyAllows(t.obj, d)
          /\ StartAction(i)
          /\ CountDeep(t, i)
          /\ Persist(i, Started(t))
          /\ \E act \in Action :
                SetTask(i, a, [t EXCEPT !.pc = "auth_executing",
                                        !.obj = Started(t), !.act = act,
                                        !.at = clock[d] + 1])
          /\ UNCHANGED live
    /\ UNCHANGED lock
    /\ Keep

\* A known action gets its result; a deep one is never an attempt.
AuthRecord(t) == IF IsDeep(t) THEN t.obj ELSE WithResult(t.obj, t.act, t.at)

\* The action returned: success is validated, failure is over.  An exception
\* while the grant is being marked as consumed saves the result, and for a
\* deep proposal leaves it "executing".
AuthExecuted(i, a) ==
    LET t == run[i][a]
        done == AuthRecord(t) IN
    /\ t.pc = "auth_executing"
    /\ \/ /\ Persist(i, done)
          /\ SetTask(i, a, [t EXCEPT
                !.pc = "auth_validating",
                !.obj = [Mark(t, done, "executed")
                            EXCEPT !.status = "validating"]])
          /\ UNCHANGED live
       \/ /\ LET rec == Returned(Mark(t, done, "failed")) IN
                /\ Persist(i, rec)
                /\ SetTask(i, a, [t EXCEPT !.pc = "finishing", !.obj = rec])
          /\ UNCHANGED live
       \/ Decline(i, a, done)
    /\ UNCHANGED <<lock, worldVars>>
    /\ Keep

AuthValidated(i, a) ==
    LET t == run[i][a] IN
    /\ t.pc = "auth_validating"
    /\ \/ \E rec \in {[Mark(t, t.obj, "validated")
                          EXCEPT !.status = "resolved"],
                      Returned(Mark(t, t.obj, "failed"))} :
             /\ Persist(i, rec)
             /\ SetTask(i, a, [t EXCEPT !.pc = "finishing", !.obj = rec])
             /\ UNCHANGED live
       \/ Decline(i, a, t.obj)
    /\ UNCHANGED <<lock, worldVars>>
    /\ Keep

AuthFinished(i, a) ==
    /\ run[i][a].pc = "finishing"
    /\ Persist(i, run[i][a].obj)
    /\ release(i, a)
    /\ UNCHANGED <<lock, worldVars>>
    /\ Keep

-----------------------------------------------------------------------------
\* What administrators may ask for next, and what their requests then do.
Request(i) ==
    \/ reinvestigate(i)
    \/ suggest_fix(i)
    \/ \E a \in Admin : \/ authorize_incident(i, a)
                        \/ authorize_deep_proposal(i, a)
                        \/ reject_deep_proposal(i, a)

AdminStep(i, a) ==
    \/ Granted(i, a) \/ Authorised(i, a) \/ AuthChecked(i, a)
    \/ AuthExecuted(i, a) \/ AuthValidated(i, a) \/ AuthFinished(i, a)
    \/ RejectReads(i, a) \/ RejectWrites(i, a)
=============================================================================
