----------------------------- MODULE IncidentLease -----------------------------
(***************************************************************************)
(* The single-writer lease and the target locks, for every number of       *)
(* problems, incidents, administrators, slots and restarts: each incident  *)
(* has at most one task past try_acquire and it is the lease holder, and   *)
(* each Deployment has at most one lifecycle executing or validating.      *)
(*                                                                         *)
(* Every step of a task is first reduced to its shape: where the task goes *)
(* and what happens to the lease and to the lock (EngineShape, AdminShape, *)
(* AlertShape).  The invariants are then proved of the shapes.             *)
(*                                                                         *)
(* With the lease and one administrator, a deep proposal is carried out at *)
(* most once: every step hands on a copy of the record that knows at least *)
(* as much of what was started as the copy it had.                         *)
(***************************************************************************)
EXTENDS IncidentTypes

\* The locals a step relies on: an action being executed is an action, and
\* an escalation put off has its reason.
Local(t) == /\ t.pc \in {"executing", "auth_executing"} => t.act \in Action
            /\ t.pc = "digging" => t.why \in EscalationReason

LocalsOK == \A i \in Incident : \A w \in Writer : Local(run[i][w])

Moves(i, w, pcs) ==
    \E t \in Task : t.pc \in pcs /\ Local(t) /\ SetTask(i, w, t)

Guarded == Executing \cup {"finishing"}
Quiet   == {"queued", "investigating", "analysing", "waiting", "digging",
            "finishing", "rechecking", "suggesting"}

Take(i) == LockFree(i) /\ lock' = [lock EXCEPT ![Target(i)] = i]

EngineShape(i) ==
    /\ HoldsLease(task(i))
    /\ \/ /\ Moves(i, Engine, Quiet)
          /\ UNCHANGED live
          /\ \/ task(i).pc \notin Guarded /\ UNCHANGED lock
             \/ task(i).pc \in Executing /\ Release(i)
       \/ /\ Moves(i, Engine, {"executing", "finishing"})
          /\ UNCHANGED live
          /\ Take(i)
       \/ /\ Moves(i, Engine, {"validating"})
          /\ task(i).pc = "executing"
          /\ UNCHANGED <<live, lock>>
       \/ /\ Moves(i, Engine, {"finishing"})
          /\ UNCHANGED live
          /\ ReleaseIfHeld(i)
       \/ /\ release(i, Engine)
          /\ \/ ReleaseIfHeld(i)
             \/ task(i).pc \notin Guarded /\ UNCHANGED lock

-----------------------------------------------------------------------------
\* The ways out of a step that neither take a lock nor execute.
LEMMA QuietMoves ==
    ASSUME TypeOK, NEW i \in Incident, NEW rec \in Record
    PROVE  /\ Conclude(i, rec) => Moves(i, Engine, {"finishing"})
           /\ \A why \in EscalationReason :
                 Deepen(i, rec, why) => Moves(i, Engine, Quiet)
           /\ NextCycle(i, rec) => Moves(i, Engine, Quiet)
           /\ \A ran \in BOOLEAN : EndOfCycle(i, rec, ran) => Moves(i, Engine, Quiet)
           /\ \A act \in Action, ran \in BOOLEAN :
                 NextCandidate(i, rec, act, ran) => Moves(i, Engine, Quiet)
<1>1. \A r \in Record : Conclude(i, r) => Moves(i, Engine, {"finishing"})
  <2> TAKE r \in Record
  <2>1. At("finishing", "lifecycle", r) \in Task
    BY AtType DEF PC, EnginePC, Job
  <2> QED BY <2>1 DEF Conclude, Moves, Local, At, Idle
<1>2. Moves(i, Engine, {"finishing"}) => Moves(i, Engine, Quiet)
  BY DEF Moves, Quiet
<1>3. ASSUME NEW why \in EscalationReason, Deepen(i, rec, why)
      PROVE  Moves(i, Engine, Quiet)
  <2>1. CASE rec.diagnosed
    <3> DEFINE t == [At("digging", "lifecycle", CountDig(rec)) EXCEPT !.why = why]
    <3>1. At("digging", "lifecycle", CountDig(rec)) \in Task
      BY AtType, RecordTypes DEF PC, EnginePC, Job
    <3>2. t \in Task
      BY <3>1 DEF Task
    <3>3. t.pc = "digging" /\ t.why = why
      BY <3>1 DEF Task, At, Idle
    <3> QED BY <1>3, <2>1, <3>2, <3>3 DEF Deepen, Moves, Quiet, Local
  <2>2. CASE ~rec.diagnosed
    BY <1>1, <1>2, <1>3, <2>2, RecordTypes DEF Deepen
  <2> QED BY <2>1, <2>2
<1>4. ASSUME NextCycle(i, rec) PROVE Moves(i, Engine, Quiet)
  <2>1. CASE Deepen(i, rec, "validation_failed")
    BY <1>3, <2>1 DEF EscalationReason
  <2>2. CASE Conclude(i, Escalate(rec, "lifecycle_timeout"))
    BY <1>1, <1>2, <2>2, RecordTypes DEF EscalationReason
  <2>3. CASE SetTask(i, Engine, Investigating(i, rec, task(i).cycle + 1))
    <3>0. task(i).cycle \in Nat
      BY LocalTypes, TaskFields
    <3>1. task(i).cycle + 1 \in Nat
      BY <3>0
    <3>2. Investigating(i, rec, task(i).cycle + 1) \in Task
      BY <3>1, InvestigatingType
    <3>3. Investigating(i, rec, task(i).cycle + 1).pc = "investigating"
      BY DEF Investigating, At, Idle
    <3> QED BY <2>3, <3>2, <3>3 DEF Moves, Quiet, Local
  <2> QED BY <1>4, <2>1, <2>2, <2>3 DEF NextCycle
<1>5. ASSUME NEW ran \in BOOLEAN, EndOfCycle(i, rec, ran)
      PROVE  Moves(i, Engine, Quiet)
  BY <1>3, <1>4, <1>5 DEF EndOfCycle, EscalationReason
<1>6. ASSUME NEW act \in Action, NEW ran \in BOOLEAN,
             NextCandidate(i, rec, act, ran)
      PROVE  Moves(i, Engine, Quiet)
  <2> DEFINE left == task(i).plans \ {act}
             t == [task(i) EXCEPT !.pc = "waiting", !.obj = rec, !.plans = left,
                                  !.ran = ran, !.act = Nobody, !.at = 0]
  <2>1. CASE left = {}
    BY <1>5, <1>6, <2>1 DEF NextCandidate
  <2>2. CASE left # {}
    <3>1. left \in SUBSET Action /\ task(i) \in Task
      BY LocalTypes, TaskFields
    <3>2. t \in Task
      BY <3>1, TaskTypes DEF PC, EnginePC
    <3>3. t.pc = "waiting"
      BY <3>1 DEF Task
    <3> QED BY <1>6, <2>2, <3>2, <3>3 DEF NextCandidate, Moves, Quiet, Local
  <2> QED BY <2>1, <2>2
<1> QED BY <1>1, <1>3, <1>4, <1>5, <1>6

-----------------------------------------------------------------------------
(***************************************************************************)
(* The shape of each step of the engine's task.                            *)
(***************************************************************************)
LEMMA EnterSlotShape ==
    ASSUME TypeOK, NEW i \in Incident, EnterSlot(i) PROVE EngineShape(i)
<1> DEFINE t == task(i)
<1>0. t \in Task /\ t.obj \in Record /\ t.pc = "queued"
  BY LocalTypes, TaskFields DEF EnterSlot
<1>1. HoldsLease(t) /\ t.pc \notin Guarded /\ UNCHANGED lock
  BY <1>0 DEF HoldsLease, Guarded, Executing, EnterSlot
<1>2. \A rec \in Record : /\ Investigating(i, rec, 1) \in Task
                          /\ Investigating(i, rec, 1).pc = "investigating"
  BY InvestigatingType DEF Investigating, At, Idle
<1>3. CASE /\ \E rec \in Record : SetTask(i, Engine, Investigating(i, rec, 1))
           /\ UNCHANGED live
  <2>1. Moves(i, Engine, Quiet)
    BY <1>2, <1>3 DEF Moves, Quiet, Local
  <2> QED BY <1>1, <1>3, <2>1 DEF EngineShape
<1>4. CASE SetTask(i, Engine, [t EXCEPT !.pc = "rechecking"]) /\ UNCHANGED live
  <2>1. /\ [t EXCEPT !.pc = "rechecking"] \in Task
        /\ [t EXCEPT !.pc = "rechecking"].pc = "rechecking"
    BY <1>0 DEF Task, EnginePC
  <2> QED BY <1>1, <1>4, <2>1 DEF EngineShape, Moves, Quiet, Local
<1>5. CASE release(i, Engine)
  BY <1>1, <1>5 DEF EngineShape
<1>6. CASE /\ SetTask(i, Engine, At("suggesting", "suggest", CountDig(t.obj)))
           /\ UNCHANGED live
  <2>1. /\ At("suggesting", "suggest", CountDig(t.obj)) \in Task
        /\ At("suggesting", "suggest", CountDig(t.obj)).pc = "suggesting"
    BY <1>0, AtType, RecordTypes DEF PC, EnginePC, Job, At, Idle
  <2> QED BY <1>1, <1>6, <2>1 DEF EngineShape, Moves, Quiet, Local
<1>7. Reopen(t.obj) \in Record
  BY <1>0, RecordTypes
<1> QED BY <1>0, <1>3, <1>4, <1>5, <1>6, <1>7 DEF EnterSlot

\* The shape of Recheck.
LEMMA RecheckShape ==
    ASSUME TypeOK, NEW i \in Incident, Recheck(i) PROVE EngineShape(i)
<1> DEFINE t == task(i)
           rec == Reopened(t.obj)
<1>0. t \in Task /\ t.obj \in Record /\ t.pc = "rechecking"
  BY LocalTypes, TaskFields DEF Recheck
<1>1. HoldsLease(t) /\ t.pc \notin Guarded /\ UNCHANGED lock
  BY <1>0 DEF HoldsLease, Guarded, Executing, Recheck
<1>2. /\ Investigating(i, rec, 1) \in Task
      /\ Investigating(i, rec, 1).pc = "investigating"
  BY <1>0, RecordTypes, InvestigatingType DEF Investigating, At, Idle
<1>3. CASE release(i, Engine)
  BY <1>1, <1>3 DEF EngineShape
<1>4. CASE SetTask(i, Engine, Investigating(i, rec, 1)) /\ UNCHANGED live
  BY <1>1, <1>2, <1>4 DEF EngineShape, Moves, Quiet, Local
<1> QED BY <1>3, <1>4 DEF Recheck

\* The shape of Investigated.
LEMMA InvestigatedShape ==
    ASSUME TypeOK, NEW i \in Incident, Investigated(i) PROVE EngineShape(i)
<1> DEFINE t == task(i)
<1>0. t \in Task /\ t.pc = "investigating"
  BY LocalTypes DEF Investigated
<1>1. HoldsLease(t) /\ t.pc \notin Guarded
  BY <1>0 DEF HoldsLease, Guarded, Executing
<1>2. /\ [t EXCEPT !.pc = "analysing"] \in Task
      /\ [t EXCEPT !.pc = "analysing"].pc = "analysing"
  BY <1>0 DEF Task, EnginePC
<1> QED BY <1>1, <1>2 DEF Investigated, EngineShape, Moves, Quiet, Local

\* The shape of Analysed.
LEMMA AnalysedShape ==
    ASSUME TypeOK, NEW i \in Incident, Analysed(i) PROVE EngineShape(i)
<1> DEFINE t == task(i)
           rec == [t.obj EXCEPT !.status = "remediating", !.diagnosed = TRUE]
<1>0. t \in Task /\ t.obj \in Record /\ t.pc = "analysing"
  BY LocalTypes, TaskFields DEF Analysed
<1>1. HoldsLease(t) /\ t.pc \notin Guarded
  BY <1>0 DEF HoldsLease, Guarded, Executing
<1>2. rec \in Record
  BY <1>0 DEF Record, Status, ActiveStatus
<1>3. PICK plans \in Candidates(rec) :
         IF plans = {}
         THEN Deepen(i, rec, "no_safe_action")
         ELSE SetTask(i, Engine, [t EXCEPT !.pc = "waiting", !.obj = rec,
                                           !.plans = plans, !.ran = FALSE])
  BY DEF Analysed
<1>4. plans \in SUBSET Action
  BY <1>3 DEF Candidates
<1>5. Moves(i, Engine, Quiet)
  <2>1. CASE plans = {}
    BY <1>2, <1>3, <2>1, QuietMoves DEF EscalationReason
  <2>2. CASE plans # {}
    <3> DEFINE t2 == [t EXCEPT !.pc = "waiting", !.obj = rec, !.plans = plans,
                               !.ran = FALSE]
    <3>1. t2 \in Task
      BY <1>0, <1>2, <1>4, TaskTypes DEF PC, EnginePC
    <3>2. t2.pc = "waiting"
      BY <1>0 DEF Task
    <3> QED BY <1>3, <2>2, <3>1, <3>2 DEF Moves, Quiet, Local
  <2> QED BY <2>1, <2>2
<1> QED BY <1>1, <1>5 DEF Analysed, EngineShape

\* The shape of TryCandidate.
LEMMA TryCandidateShape ==
    ASSUME TypeOK, NEW i \in Incident, TryCandidate(i) PROVE EngineShape(i)
<1> DEFINE t == task(i)
           d == Target(i)
<1>0. /\ t \in Task
      /\ t.obj \in Record
      /\ t.ran \in BOOLEAN
      /\ t.plans \in SUBSET Action
      /\ t.pc = "waiting"
      /\ LockFree(i)
      /\ clock[d] \in Nat
      /\ UNCHANGED live
  BY LocalTypes, TaskFields DEF TryCandidate
<1>1. HoldsLease(t) /\ t.pc \notin Guarded
  BY <1>0 DEF HoldsLease, Guarded, Executing
<1>2. ASSUME NEW act \in t.plans,
             NextCycle(i, t.obj) \/ NextCandidate(i, t.obj, act, t.ran),
             UNCHANGED lock
      PROVE  EngineShape(i)
  <2>1. Moves(i, Engine, Quiet)
    BY <1>0, <1>2, QuietMoves
  <2> QED BY <1>0, <1>1, <1>2, <2>1 DEF EngineShape
<1>3. ASSUME Conclude(i, Escalate(t.obj, "remediation_error")),
             lock' = [lock EXCEPT ![d] = i]
      PROVE  EngineShape(i)
  <2>1. Moves(i, Engine, {"finishing"})
    BY <1>0, <1>3, QuietMoves, RecordTypes DEF EscalationReason
  <2>2. Moves(i, Engine, {"executing", "finishing"})
    BY <2>1 DEF Moves
  <2> QED BY <1>0, <1>1, <1>3, <2>2 DEF EngineShape, Take
<1>4. ASSUME NEW act \in t.plans,
             SetTask(i, Engine, [t EXCEPT !.pc = "executing", !.act = act,
                                          !.at = clock[d] + 1]),
             lock' = [lock EXCEPT ![d] = i]
      PROVE  EngineShape(i)
  <2> DEFINE t2 == [t EXCEPT !.pc = "executing", !.act = act, !.at = clock[d] + 1]
  <2>1. clock[d] + 1 \in Nat
    BY <1>0
  <2>2. t2 \in Task
    BY <1>0, <2>1, TaskTypes DEF PC, EnginePC
  <2>3. t2.pc = "executing" /\ t2.act \in Action
    BY <1>0 DEF Task
  <2>4. Moves(i, Engine, {"executing", "finishing"})
    BY <1>4, <2>2, <2>3 DEF Moves, Local
  <2> QED BY <1>0, <1>1, <1>4, <2>4 DEF EngineShape, Take
<1> QED BY <1>2, <1>3, <1>4 DEF TryCandidate

\* The shape of Executed.
LEMMA ExecutedShape ==
    ASSUME TypeOK, LocalsOK, NEW i \in Incident, Executed(i)
    PROVE  EngineShape(i)
<1> DEFINE t == task(i)
           rec == WithResult(t.obj, t.act, t.at)
           val == [rec EXCEPT !.status = "validating"]
<1>0. /\ t \in Task
      /\ t.obj \in Record
      /\ t.at \in Nat
      /\ t.pc = "executing"
      /\ UNCHANGED live
  BY LocalTypes, TaskFields DEF Executed
<1>1. HoldsLease(t) /\ t.pc \in Executing
  BY <1>0 DEF HoldsLease, Executing
<1>2. t.act \in Action
  BY <1>0 DEF LocalsOK, Local, task, Writer
<1>3. rec \in Record /\ val \in Record
  BY <1>0, <1>2, RecordTypes DEF Status, ActiveStatus
<1>4. ASSUME SetTask(i, Engine, [t EXCEPT !.pc = "validating", !.ran = TRUE,
                                          !.obj = val]),
             UNCHANGED lock
      PROVE  EngineShape(i)
  <2> DEFINE t2 == [t EXCEPT !.pc = "validating", !.ran = TRUE, !.obj = val]
  <2>1. t2 \in Task
    BY <1>0, <1>3, TaskTypes DEF PC, EnginePC
  <2>2. t2.pc = "validating"
    BY <1>0 DEF Task
  <2>3. Moves(i, Engine, {"validating"})
    BY <1>4, <2>1, <2>2 DEF Moves, Local
  <2> QED BY <1>0, <1>1, <1>4, <2>3 DEF EngineShape
<1>5. ASSUME NextCandidate(i, rec, t.act, TRUE) \/ EndOfCycle(i, rec, TRUE),
             Release(i)
      PROVE  EngineShape(i)
  <2>1. Moves(i, Engine, Quiet)
    BY <1>2, <1>3, <1>5, QuietMoves
  <2> QED BY <1>0, <1>1, <1>5, <2>1 DEF EngineShape
<1> QED BY <1>4, <1>5 DEF Executed

\* The shape of Validated.
LEMMA ValidatedShape ==
    ASSUME TypeOK, NEW i \in Incident, Validated(i) PROVE EngineShape(i)
<1>0. /\ task(i).obj \in Record
      /\ [task(i).obj EXCEPT !.status = "resolved"] \in Record
  BY LocalTypes, TaskFields, RecordTypes DEF Status, ClosedStatus
<1>1. HoldsLease(task(i)) /\ task(i).pc \in Executing
  BY DEF Validated, HoldsLease, Executing
<1>2. Moves(i, Engine, {"finishing"}) => Moves(i, Engine, Quiet)
  BY DEF Moves, Quiet
<1>3. Moves(i, Engine, Quiet)
  BY <1>0, <1>2, QuietMoves DEF Validated
<1> QED BY <1>1, <1>3 DEF EngineShape, Validated

\* The shapes of Dug and Suggested.
LEMMA DeepShape ==
    ASSUME TypeOK, LocalsOK, NEW i \in Incident, Dug(i) \/ Suggested(i)
    PROVE  EngineShape(i)
<1>1. CASE Dug(i)
  <2>0. task(i).obj \in Record /\ task(i).pc = "digging"
    BY <1>1, LocalTypes, TaskFields DEF Dug
  <2>1. task(i).why \in EscalationReason
    BY <2>0 DEF LocalsOK, Local, task, Writer
  <2>2. PICK rec \in DeepOutcomes(task(i).obj) :
           Conclude(i, Escalate(rec, task(i).why))
    BY <1>1 DEF Dug
  <2>3. Moves(i, Engine, {"finishing"})
    BY <2>0, <2>1, <2>2, DeepOutcomesType, RecordTypes, QuietMoves
  <2>4. Moves(i, Engine, Quiet)
    BY <2>3 DEF Moves, Quiet
  <2> QED BY <1>1, <2>0, <2>4
          DEF Dug, EngineShape, HoldsLease, Guarded, Executing
<1>2. CASE Suggested(i)
  BY <1>2 DEF Suggested, EngineShape, HoldsLease, Guarded, Executing
<1> QED BY <1>1, <1>2

\* The shapes of InternalError and Finished.
LEMMA EndShape ==
    ASSUME TypeOK, NEW i \in Incident, InternalError(i) \/ Finished(i)
    PROVE  EngineShape(i)
<1>1. CASE InternalError(i)
  <2>1. Moves(i, Engine, {"finishing"})
    <3>1. Escalate(Stopped(task(i)), "internal_error") \in Record
      BY LocalTypes, TaskFields, StoppedType, RecordTypes DEF EscalationReason
    <3> QED BY <1>1, <3>1, QuietMoves DEF InternalError
  <2> QED BY <1>1, <2>1 DEF InternalError, EngineShape, HoldsLease
<1>2. CASE Finished(i)
  BY <1>2 DEF Finished, EngineShape, HoldsLease
<1> QED BY <1>1, <1>2

\* Every step of the engine's task has the engine's shape.
LEMMA StepShape ==
    ASSUME TypeOK, LocalsOK, NEW i \in Incident, Step(i) PROVE EngineShape(i)
  BY EnterSlotShape, RecheckShape, InvestigatedShape, AnalysedShape,
     TryCandidateShape, ExecutedShape, ValidatedShape, DeepShape, EndShape
  DEF Step

-----------------------------------------------------------------------------
(***************************************************************************)
(* The shape of an administrator's step: the lease is kept, taken or given *)
(* back, and no lock is touched.                                           *)
(***************************************************************************)
LeasePC == AdminPC \ {"checked", "read"}

AdminShape(i, a) ==
    /\ UNCHANGED lock
    /\ \/ /\ ~HoldsLease(run[i][a])
          /\ Moves(i, a, {"idle", "checked", "read"})
          /\ UNCHANGED live
       \/ try_acquire(i, a) /\ Moves(i, a, LeasePC)
       \/ /\ HoldsLease(run[i][a])
          /\ Moves(i, a, LeasePC)
          /\ UNCHANGED live
       \/ HoldsLease(run[i][a]) /\ release(i, a)

\* Every step of an administrator's task has the administrator's shape.
LEMMA AdminStepShape ==
    ASSUME TypeOK, LocalsOK, NEW i \in Incident, NEW a \in Admin, AdminStep(i, a)
    PROVE  AdminShape(i, a)
<1> DEFINE t == run[i][a]
<1>0. /\ t \in Task
      /\ t.obj \in Record
      /\ t.at \in Nat
      /\ store[i] \in Record
      /\ clock[Target(i)] \in Nat
      /\ a \in Writer
  BY LocalTypes, TaskFields DEF Writer
<1>1. /\ Idle \in Task
      /\ Idle.pc = "idle"
      /\ Local(Idle)
  BY IdleType DEF Idle, Local
<1>2. \A pc : /\ [t EXCEPT !.pc = pc].pc = pc
              /\ \A rec : [t EXCEPT !.pc = pc, !.obj = rec].pc = pc
  BY <1>0 DEF Task
<1>3. \A pc \in PC : /\ [t EXCEPT !.pc = pc] \in Task
                     /\ \A rec \in Record :
                           [t EXCEPT !.pc = pc, !.obj = rec] \in Task
  BY <1>0, TaskTypes
<1>4. CASE Granted(i, a)
  <2>1. /\ [t EXCEPT !.pc = "granted"] \in Task
        /\ [t EXCEPT !.pc = "granted"].pc = "granted"
    BY <1>2, <1>3 DEF PC, AdminPC
  <2> QED BY <1>1, <1>4, <2>1
          DEF Granted, AdminShape, Moves, Local, LeasePC, AdminPC, HoldsLease
<1>5. CASE Authorised(i, a)
  <2> DEFINE t2 == [t EXCEPT !.pc = "auth_investigating",
                             !.obj.status = "investigating"]
  <2>1. t2 \in Task /\ t2.pc = "auth_investigating"
    BY <1>0 DEF Task, Record, AdminPC, Status, ActiveStatus
  <2> QED BY <1>5, <2>1
          DEF Authorised, AdminShape, Moves, Local, LeasePC, AdminPC, HoldsLease
<1>6. CASE AuthChecked(i, a)
  <2>0. HoldsLease(t) /\ UNCHANGED lock
    BY <1>6 DEF AuthChecked, HoldsLease
  <2>1. CASE release(i, a)
    BY <2>0, <2>1 DEF AdminShape
  <2>2. CASE /\ SetTask(i, a, [t EXCEPT !.pc = "finishing",
                                 !.obj = Returned(Mark(t, t.obj, "failed"))])
             /\ UNCHANGED live
    <3> DEFINE rec == Returned(Mark(t, t.obj, "failed"))
    <3>1. rec \in Record
      BY <1>0, MarkType, RecordTypes DEF ProposalStatus
    <3>2. /\ [t EXCEPT !.pc = "finishing", !.obj = rec] \in Task
          /\ [t EXCEPT !.pc = "finishing", !.obj = rec].pc = "finishing"
      BY <1>2, <1>3, <3>1 DEF PC, AdminPC
    <3> QED BY <2>0, <2>2, <3>2 DEF AdminShape, Moves, Local, LeasePC, AdminPC
  <2>3. ASSUME NEW act \in Action, UNCHANGED live,
               SetTask(i, a, [t EXCEPT !.pc = "auth_executing",
                                       !.obj = Started(t),
                                       !.act = act,
                                       !.at = clock[Target(i)] + 1])
        PROVE  AdminShape(i, a)
    <3> DEFINE t2 == [t EXCEPT !.pc = "auth_executing", !.obj = Started(t),
                               !.act = act, !.at = clock[Target(i)] + 1]
    <3>1. Started(t) \in Record
      BY <1>0, MarkType DEF Started, ProposalStatus
    <3>2. clock[Target(i)] + 1 \in Nat
      BY <1>0
    <3>3. t2 \in Task
      BY <1>0, <3>1, <3>2, TaskTypes DEF PC, AdminPC
    <3>4. t2.pc = "auth_executing" /\ t2.act = act
      BY <1>0 DEF Task
    <3> QED BY <2>0, <2>3, <3>3, <3>4 DEF AdminShape, Moves, Local, LeasePC, AdminPC
  <2> QED BY <1>6, <2>1, <2>2, <2>3 DEF AuthChecked, Decline
<1>7. CASE AuthExecuted(i, a)
  <2> DEFINE done == AuthRecord(t)
             marked == [Mark(t, done, "executed") EXCEPT !.status = "validating"]
             failed == Returned(Mark(t, done, "failed"))
  <2>0. t.act \in Action /\ HoldsLease(t)
    BY <1>0, <1>7 DEF AuthExecuted, LocalsOK, Local, HoldsLease
  <2>1. done \in Record
    BY <1>0, <2>0, RecordTypes DEF AuthRecord
  <2>2. marked \in Record /\ failed \in Record
    BY <1>0, <2>1, MarkType, RecordTypes DEF ProposalStatus, Status, ActiveStatus
  <2>3. /\ [t EXCEPT !.pc = "auth_validating", !.obj = marked] \in Task
        /\ [t EXCEPT !.pc = "auth_validating", !.obj = marked].pc = "auth_validating"
        /\ [t EXCEPT !.pc = "finishing", !.obj = failed] \in Task
        /\ [t EXCEPT !.pc = "finishing", !.obj = failed].pc = "finishing"
    BY <1>2, <1>3, <2>2 DEF PC, AdminPC
  <2> QED BY <1>7, <2>0, <2>3
          DEF AuthExecuted, Decline, AdminShape, Moves, Local, LeasePC, AdminPC
<1>8. CASE AuthValidated(i, a)
  <2> DEFINE ends == {[Mark(t, t.obj, "validated") EXCEPT !.status = "resolved"],
                      Returned(Mark(t, t.obj, "failed"))}
  <2>1. \A rec \in ends : rec \in Record
    BY <1>0, MarkType, RecordTypes DEF ProposalStatus, Status, ClosedStatus
  <2>2. \A rec \in ends : /\ [t EXCEPT !.pc = "finishing", !.obj = rec] \in Task
                          /\ [t EXCEPT !.pc = "finishing", !.obj = rec].pc = "finishing"
    BY <1>2, <1>3, <2>1 DEF PC, AdminPC
  <2> QED BY <1>8, <2>2
          DEF AuthValidated, Decline, AdminShape, Moves, Local, LeasePC, AdminPC,
              HoldsLease
<1>9. CASE AuthFinished(i, a)
  BY <1>9 DEF AuthFinished, AdminShape, HoldsLease
<1>10. CASE RejectReads(i, a)
  <2>1. \A p \in Proposal :
           /\ [At("read", "reject", store[i]) EXCEPT !.prop = p] \in Task
           /\ [At("read", "reject", store[i]) EXCEPT !.prop = p].pc = "read"
    <3>1. At("read", "reject", store[i]) \in Task
      BY <1>0, AtType DEF PC, AdminPC, Job
    <3> QED BY <3>1 DEF Task, At, Idle
  <2> QED BY <1>1, <1>10, <2>1
          DEF RejectReads, AdminShape, Moves, Local, HoldsLease
<1>11. CASE RejectWrites(i, a)
  BY <1>1, <1>11 DEF RejectWrites, AdminShape, Moves, HoldsLease
<1> QED BY <1>4, <1>5, <1>6, <1>7, <1>8, <1>9, <1>10, <1>11 DEF AdminStep

\* A webhook or a request served on the event loop gives an incident a task
\* with its lease, or leaves both alone.
SpawnShape(i) ==
    try_acquire(i, Engine) /\ Moves(i, Engine, {"queued"})

\* A spawned task is queued.
LEMMA SpawnMoves ==
    ASSUME TypeOK, NEW i \in Incident, NEW rec \in Record, NEW job \in Job,
           spawn(i, job, rec)
    PROVE  Moves(i, Engine, {"queued"})
<1>1. /\ At("queued", job, rec) \in Task
      /\ At("queued", job, rec).pc = "queued"
  BY AtType DEF PC, EnginePC, At, Idle
<1> QED BY <1>1 DEF spawn, Moves, Local

\* An alert spawns a task under the lease or leaves tasks and leases alone.
LEMMA AlertShape ==
    ASSUME TypeOK, NEW p \in Problem, handle_alert(p)
    PROVE  /\ UNCHANGED lock
           /\ \/ UNCHANGED <<live, run>>
              \/ \E i \in Incident : SpawnShape(i)
<1>1. ASSUME NEW i \in Incident, create(i) PROVE SpawnShape(i)
  <2>1. NewIncident \in Record
    BY BlankType DEF NewIncident, Status, ActiveStatus
  <2> QED BY <1>1, <2>1, SpawnMoves DEF create, SpawnShape, Job
<1>2. ASSUME NEW i \in Incident, NEW rec \in Record, join_escalated(i, rec)
      PROVE  UNCHANGED <<live, run>> \/ SpawnShape(i)
  BY <1>2, SpawnMoves DEF join_escalated, SpawnShape, Job
<1>3. ASSUME NEW i \in Incident, i[1] = p, i[2] < MaxOccurrences
      PROVE  <<p, i[2] + 1>> \in Incident
  <2>1. i[2] \in 1..MaxOccurrences
    BY DEF Incident
  <2>2. i[2] + 1 \in 1..MaxOccurrences
    BY <1>3, <2>1, RecordAssumption
  <2> QED BY <2>2 DEF Incident
<1>4. \A i \in Incident : store[i] \in Record /\ interrupt(store[i]) \in Record
  BY LocalTypes, RecordTypes
<1>5. UNCHANGED lock
  BY DEF handle_alert
<1>6. CASE <<p, 1>> \in Incident /\ create(<<p, 1>>)
  BY <1>1, <1>5, <1>6
<1>7. ASSUME NEW i \in Incident,
             \/ join_running(i)
             \/ join_escalated(i, store[i])
             \/ join_escalated(i, interrupt(store[i]))
             \/ absorb_after_resolution(i)
             \/ i[1] = p /\ i[2] < MaxOccurrences /\ create(<<p, i[2] + 1>>)
      PROVE  UNCHANGED <<live, run>> \/ \E j \in Incident : SpawnShape(j)
  <2>1. CASE join_running(i) \/ absorb_after_resolution(i)
    BY <2>1 DEF join_running, absorb_after_resolution
  <2>2. CASE join_escalated(i, store[i]) \/ join_escalated(i, interrupt(store[i]))
    BY <1>2, <1>4, <2>2
  <2>3. CASE i[1] = p /\ i[2] < MaxOccurrences /\ create(<<p, i[2] + 1>>)
    BY <1>1, <1>3, <2>3
  <2> QED BY <1>7, <2>1, <2>2, <2>3
<1> QED BY <1>5, <1>6, <1>7 DEF handle_alert

\* A request spawns a task, or puts an administrator's task in place.
LEMMA RequestShape ==
    ASSUME TypeOK, NEW i \in Incident, Request(i)
    PROVE  /\ UNCHANGED lock
           /\ SpawnShape(i) \/ \E a \in Admin : AdminShape(i, a)
<1>0. store[i] \in Record /\ UNCHANGED lock
  BY LocalTypes DEF Request, reinvestigate, suggest_fix, authorize_incident,
                    authorize_deep_proposal, reject_deep_proposal
<1>1. CASE reinvestigate(i) \/ suggest_fix(i)
  BY <1>0, <1>1, SpawnMoves DEF reinvestigate, suggest_fix, SpawnShape, Job
<1>2. ASSUME NEW a \in Admin, NEW t \in Task, run[i][a] = Idle,
             t.pc \in {"checked", "read"}, SetTask(i, a, t), UNCHANGED live
      PROVE  AdminShape(i, a)
  <2>0. Idle.pc = "idle"
    BY DEF Idle
  <2>1. ~HoldsLease(run[i][a])
    BY <1>2, <2>0 DEF HoldsLease
  <2>2. Moves(i, a, {"idle", "checked", "read"})
    BY <1>2 DEF Moves, Local
  <2> QED BY <1>0, <1>2, <2>1, <2>2 DEF AdminShape
<1>3. \A pc \in {"checked", "read"}, job \in Job, rec \in Record :
         At(pc, job, rec) \in Task /\ At(pc, job, rec).pc = pc
  BY AtType DEF PC, AdminPC, At, Idle
<1>4. \A t \in Task, p \in Proposal : /\ [t EXCEPT !.prop = p] \in Task
                                      /\ [t EXCEPT !.prop = p].pc = t.pc
  BY DEF Task
<1>5. Absent \in Record
  BY BlankType DEF Absent
<1>6. ASSUME NEW a \in Admin, authorize_incident(i, a) PROVE AdminShape(i, a)
  BY <1>0, <1>2, <1>3, <1>6 DEF authorize_incident, Job
<1>7. ASSUME NEW a \in Admin, authorize_deep_proposal(i, a) PROVE AdminShape(i, a)
  <2> DEFINE t == At("read", "authorize_deep", store[i])
  <2>1. t \in Task /\ t.pc = "read"
    BY <1>0, <1>3 DEF Job
  <2> HIDE DEF t
  <2>2. \A p \in Proposal : /\ [t EXCEPT !.prop = p] \in Task
                            /\ [t EXCEPT !.prop = p].pc \in {"checked", "read"}
    BY <1>4, <2>1
  <2>3. run[i][a] = Idle /\ UNCHANGED live
    BY <1>7 DEF authorize_deep_proposal
  <2>4. PICK p \in Proposal : SetTask(i, a, [t EXCEPT !.prop = p])
    BY <1>7 DEF authorize_deep_proposal, t
  <2> QED BY <1>2, <2>2, <2>3, <2>4
<1>8. ASSUME NEW a \in Admin, reject_deep_proposal(i, a) PROVE AdminShape(i, a)
  BY <1>2, <1>3, <1>5, <1>8 DEF reject_deep_proposal, Job
<1> QED BY <1>0, <1>1, <1>6, <1>7, <1>8 DEF Request

-----------------------------------------------------------------------------
(***************************************************************************)
(* The inductive invariant.  SingleWriter is inductive given the types;    *)
(* the locks need it: a new task replaces an idle one only because the     *)
(* lease was free, and a task that held the lock would have held a lease.  *)
(***************************************************************************)
LockInv == OneRemediationPerTarget /\ LockIsOwned

LeaseInv == TypeOK /\ LocalsOK /\ SingleWriter /\ LockInv

\* After SetTask every other task is what it was.
LEMMA RunAfter ==
    ASSUME TypeOK, NEW i \in Incident, NEW w \in Writer, NEW t, SetTask(i, w, t)
    PROVE  \A j \in Incident : \A v \in Writer :
              run'[j][v] = IF j = i /\ v = w THEN t ELSE run[j][v]
  BY DEF TypeOK, SetTask

\* The locals stay sound when a sound task replaces another.
LEMMA LocalsAfter ==
    ASSUME TypeOK, LocalsOK, NEW i \in Incident, NEW w \in Writer
    PROVE  /\ \A pcs : Moves(i, w, pcs) => LocalsOK'
           /\ release(i, w) => LocalsOK'
           /\ UNCHANGED run => LocalsOK'
<1>1. ASSUME NEW pcs, Moves(i, w, pcs) PROVE LocalsOK'
  <2>1. PICK t \in Task : Local(t) /\ SetTask(i, w, t)
    BY <1>1 DEF Moves
  <2> QED BY <2>1, RunAfter DEF LocalsOK
<1>2. ASSUME release(i, w) PROVE LocalsOK'
  <2>1. Local(Idle) /\ SetTask(i, w, Idle)
    BY <1>2 DEF Local, Idle, release
  <2> QED BY <2>1, RunAfter DEF LocalsOK
<1>3. ASSUME UNCHANGED run PROVE LocalsOK'
  BY <1>3 DEF LocalsOK
<1> QED BY <1>1, <1>2, <1>3

\* The lease after a step: unchanged, taken or given back with its task.
LEMMA LeaseAfter ==
    ASSUME TypeOK, SingleWriter, NEW i \in Incident, NEW w \in Writer, NEW pcs
    PROVE  /\ /\ Moves(i, w, pcs)
              /\ UNCHANGED live
              /\ \A pc \in pcs : (pc \in {"idle", "checked", "read"}) <=>
                                 ~HoldsLease(run[i][w])
              => SingleWriter'
           /\ /\ Moves(i, w, pcs)
              /\ try_acquire(i, w)
              /\ pcs \cap {"idle", "checked", "read"} = {}
              => SingleWriter'
           /\ release(i, w) /\ HoldsLease(run[i][w]) => SingleWriter'
           /\ UNCHANGED <<live, run>> => SingleWriter'
<1>0. Nobody \notin Writer
  BY ManagerAssumption DEF Writer
<1>1. ASSUME Moves(i, w, pcs), UNCHANGED live,
             \A pc \in pcs : (pc \in {"idle", "checked", "read"}) <=>
                             ~HoldsLease(run[i][w])
      PROVE  SingleWriter'
  <2>1. PICK t \in Task : t.pc \in pcs /\ SetTask(i, w, t)
    BY <1>1 DEF Moves
  <2>2. HoldsLease(t) <=> HoldsLease(run[i][w])
    BY <1>1, <2>1 DEF HoldsLease
  <2> QED BY <1>1, <2>1, <2>2, RunAfter DEF SingleWriter, HoldsLease
<1>2. ASSUME Moves(i, w, pcs), try_acquire(i, w),
             pcs \cap {"idle", "checked", "read"} = {}
      PROVE  SingleWriter'
  <2>1. PICK t \in Task : t.pc \in pcs /\ SetTask(i, w, t)
    BY <1>2 DEF Moves
  <2>2. HoldsLease(t)
    BY <1>2, <2>1 DEF HoldsLease
  <2>3. /\ live[i] = Nobody
        /\ \A j \in Incident : live'[j] = IF j = i THEN w ELSE live[j]
    BY <1>2 DEF try_acquire, TypeOK
  <2> QED BY <1>0, <2>1, <2>2, <2>3, RunAfter DEF SingleWriter, HoldsLease
<1>3. ASSUME release(i, w), HoldsLease(run[i][w]) PROVE SingleWriter'
  <2>1. SetTask(i, w, Idle) /\ ~HoldsLease(Idle) /\ live[i] = w
    BY <1>3 DEF release, HoldsLease, Idle, SingleWriter
  <2>2. \A j \in Incident : live'[j] = IF j = i THEN Nobody ELSE live[j]
    BY <1>3 DEF release, TypeOK
  <2> QED BY <1>0, <2>1, <2>2, RunAfter DEF SingleWriter, HoldsLease
<1>4. ASSUME UNCHANGED <<live, run>> PROVE SingleWriter'
  BY <1>4 DEF SingleWriter, HoldsLease
<1> QED BY <1>1, <1>2, <1>3, <1>4

\* The target locks after a step of the engine's task.
LEMMA LocksAfterStep ==
    ASSUME TypeOK, SingleWriter, LockInv, NEW i \in Incident, EngineShape(i)
    PROVE  LockInv'
<1> DEFINE d == Target(i)
<1>0. /\ Engine \in Writer
      /\ d \in Deployment
      /\ lock \in [Deployment -> Incident \cup {Nobody}]
      /\ Nobody \notin Incident
  BY TargetType, ManagerAssumption DEF Writer, TypeOK
<1>1. \A pcs : Moves(i, Engine, pcs) =>
         /\ task(i)'.pc \in pcs
         /\ \A j \in Incident : j # i => task(j)' = task(j)
  BY <1>0, RunAfter DEF Moves, task
<1>2. release(i, Engine) =>
         /\ task(i)'.pc = "idle"
         /\ \A j \in Incident : j # i => task(j)' = task(j)
  <2>1. Idle.pc = "idle"
    BY DEF Idle
  <2> QED BY <1>0, <2>1, RunAfter DEF release, task
<1>3. CASE Moves(i, Engine, Quiet) /\ task(i).pc \notin Guarded /\ UNCHANGED lock
  BY <1>0, <1>1, <1>3
  DEF LockInv, OneRemediationPerTarget, LockIsOwned, Quiet, Guarded, Executing
<1>4. CASE Moves(i, Engine, Quiet) /\ task(i).pc \in Executing /\ Release(i)
  BY <1>0, <1>1, <1>4
  DEF LockInv, OneRemediationPerTarget, LockIsOwned, Quiet, Executing, Release
<1>5. CASE Moves(i, Engine, {"executing", "finishing"}) /\ Take(i)
  BY <1>0, <1>1, <1>5
  DEF LockInv, OneRemediationPerTarget, LockIsOwned, Executing, Take, LockFree
<1>6. CASE /\ Moves(i, Engine, {"validating"})
           /\ task(i).pc = "executing"
           /\ UNCHANGED lock
  BY <1>0, <1>1, <1>6
  DEF LockInv, OneRemediationPerTarget, LockIsOwned, Executing
<1>7. ASSUME ReleaseIfHeld(i),
             task(i)'.pc \in {"finishing", "idle"},
             \A j \in Incident : j # i => task(j)' = task(j)
      PROVE  LockInv'
  <2>1. CASE lock[d] = i
    <3>1. Release(i)
      BY <1>7, <2>1 DEF ReleaseIfHeld
    <3> QED BY <1>0, <1>7, <2>1, <3>1
            DEF LockInv, OneRemediationPerTarget, LockIsOwned, Executing, Release
  <2>2. CASE lock[d] # i
    <3>1. UNCHANGED lock
      BY <1>7, <2>2 DEF ReleaseIfHeld
    <3> QED BY <1>0, <1>7, <2>2, <3>1
            DEF LockInv, OneRemediationPerTarget, LockIsOwned, Executing
  <2> QED BY <2>1, <2>2
<1>8. CASE /\ Moves(i, Engine, {"finishing"}) \/ release(i, Engine)
           /\ ReleaseIfHeld(i)
  BY <1>1, <1>2, <1>7, <1>8
<1>9. CASE release(i, Engine) /\ task(i).pc \notin Guarded /\ UNCHANGED lock
  BY <1>0, <1>2, <1>9
  DEF LockInv, OneRemediationPerTarget, LockIsOwned, Executing, Guarded
<1> QED BY <1>3, <1>4, <1>5, <1>6, <1>8, <1>9 DEF EngineShape

\* A task is spawned over an idle one, and administrators hold no lock.
LEMMA LocksAfterOthers ==
    ASSUME TypeOK, SingleWriter, LockInv, UNCHANGED lock, NEW i \in Incident
    PROVE  /\ SpawnShape(i) => LockInv'
           /\ \A a \in Admin : AdminShape(i, a) => LockInv'
           /\ UNCHANGED run => LockInv'
<1>0. Engine \in Writer /\ Engine \notin Admin /\ Nobody \notin Writer
  BY ManagerAssumption DEF Writer
<1>1. ASSUME SpawnShape(i) PROVE LockInv'
  <2>1. task(i).pc \in {"idle", "checked", "read"}
    BY <1>0, <1>1 DEF SpawnShape, try_acquire, SingleWriter, HoldsLease, task
  <2>2. /\ task(i)'.pc = "queued"
        /\ \A j \in Incident : j # i => task(j)' = task(j)
    BY <1>0, <1>1, RunAfter DEF SpawnShape, Moves, task
  <2> QED BY <2>1, <2>2
          DEF LockInv, OneRemediationPerTarget, LockIsOwned, Executing
<1>2. ASSUME NEW a \in Admin, AdminShape(i, a) PROVE LockInv'
  <2>1. a \in Writer /\ a # Engine
    BY <1>0 DEF Writer
  <2>2. \E t : SetTask(i, a, t)
    BY <1>2 DEF AdminShape, Moves, release
  <2>3. \A j \in Incident : task(j)' = task(j)
    BY <1>0, <2>1, <2>2, RunAfter DEF task
  <2> QED BY <2>3 DEF LockInv, OneRemediationPerTarget, LockIsOwned
<1>3. ASSUME UNCHANGED run PROVE LockInv'
  BY <1>3 DEF LockInv, OneRemediationPerTarget, LockIsOwned, task
<1> QED BY <1>1, <1>2, <1>3

-----------------------------------------------------------------------------
\* The invariant holds initially.
LEMMA InitInv == Init => LeaseInv
<1> SUFFICES ASSUME Init PROVE LeaseInv
  OBVIOUS
<1>0. Idle.pc = "idle" /\ Nobody \notin Writer /\ Nobody \notin Incident
  BY ManagerAssumption DEF Idle, Writer
<1>1. TypeOK
  <2>1. Absent \in Record
    BY BlankType DEF Absent
  <2> QED BY <2>1, IdleType DEF Init, TypeOK
<1>2. \A i \in Incident : \A w \in Writer : run[i][w] = Idle
  BY DEF Init
<1>3. \A i \in Incident : live[i] = Nobody
  BY DEF Init
<1>4. \A d \in Deployment : lock[d] = Nobody
  BY DEF Init
<1>5. LocalsOK
  BY <1>0, <1>2 DEF LocalsOK, Local
<1>6. SingleWriter
  BY <1>0, <1>2, <1>3 DEF SingleWriter, HoldsLease
<1>7. LockInv
  BY <1>0, <1>2, <1>4
  DEF LockInv, OneRemediationPerTarget, LockIsOwned, Executing, task, Writer
<1> QED BY <1>1, <1>5, <1>6, <1>7 DEF LeaseInv

\* Steps of the engine's task keep the types.
LEMMA StepType ==
    ASSUME TypeOK, LocalsOK, NEW i \in Incident, Step(i) PROVE TypeOK'
<1>1. CASE Executed(i)
  <2>1. task(i).act \in Action
    BY <1>1 DEF Executed, LocalsOK, Local, task, Writer
  <2> QED BY <1>1, <2>1, ExecutedType
<1>2. CASE Dug(i)
  <2>1. task(i).why \in EscalationReason
    BY <1>2 DEF Dug, LocalsOK, Local, task, Writer
  <2> QED BY <1>2, <2>1, DugType
<1> QED BY <1>1, <1>2, EnterSlotType, RecheckType, InvestigatedType, AnalysedType,
           TryCandidateType, ValidatedType, SuggestedType, InternalErrorType,
           FinishedType DEF Step

\* Steps of administrators' tasks keep the types.
LEMMA AdminStepType ==
    ASSUME TypeOK, LocalsOK, NEW i \in Incident, NEW a \in Admin, AdminStep(i, a)
    PROVE  TypeOK'
<1>1. CASE AuthExecuted(i, a)
  <2>1. run[i][a].act \in Action
    BY <1>1 DEF AuthExecuted, LocalsOK, Local, Writer
  <2> QED BY <1>1, <2>1, AuthExecutedType
<1> QED BY <1>1, GrantedType, AuthorisedType, AuthCheckedType, AuthValidatedType,
           AuthFinishedType, RejectType DEF AdminStep

\* A step of the engine's task preserves the invariant.
LEMMA StepInv ==
    ASSUME LeaseInv, NEW i \in Incident, Step(i) PROVE LeaseInv'
<1>0. TypeOK /\ LocalsOK /\ SingleWriter /\ LockInv /\ Engine \in Writer
  BY DEF LeaseInv, Writer
<1>1. EngineShape(i)
  BY <1>0, StepShape
<1>2. LocalsOK'
  BY <1>0, <1>1, LocalsAfter DEF EngineShape
<1>3. SingleWriter'
  <2>1. HoldsLease(run[i][Engine])
    BY <1>1 DEF EngineShape, task
  <2>2. \/ release(i, Engine)
        \/ UNCHANGED live /\ Moves(i, Engine, Quiet)
        \/ UNCHANGED live /\ Moves(i, Engine, {"executing", "finishing"})
        \/ UNCHANGED live /\ Moves(i, Engine, {"validating"})
        \/ UNCHANGED live /\ Moves(i, Engine, {"finishing"})
    BY <1>1 DEF EngineShape
  <2>3. \A pc \in Quiet \cup {"executing", "finishing", "validating"} :
           pc \notin {"idle", "checked", "read"}
    BY DEF Quiet
  <2> QED BY <1>0, <2>1, <2>2, <2>3, LeaseAfter
<1>4. LockInv'
  BY <1>0, <1>1, LocksAfterStep
<1>5. TypeOK'
  BY <1>0, StepType
<1> QED BY <1>2, <1>3, <1>4, <1>5 DEF LeaseInv

\* So do an administrator's requests and their steps, alerts and restarts.
LEMMA AdminShapeInv ==
    ASSUME LeaseInv, NEW i \in Incident, NEW a \in Admin, AdminShape(i, a)
    PROVE  LocalsOK' /\ SingleWriter' /\ LockInv'
<1>0. TypeOK /\ LocalsOK /\ SingleWriter /\ LockInv /\ a \in Writer
  BY DEF LeaseInv, Writer
<1>1. LocalsOK'
  BY <1>0, LocalsAfter DEF AdminShape
<1>2. SingleWriter'
  <2>1. \A pc \in LeasePC : pc \notin {"idle", "checked", "read"}
    BY DEF LeasePC, AdminPC
  <2>2. LeasePC \cap {"idle", "checked", "read"} = {}
    BY <2>1
  <2> QED BY <1>0, <2>1, <2>2, LeaseAfter DEF AdminShape
<1>3. LockInv'
  BY <1>0, LocksAfterOthers DEF AdminShape
<1> QED BY <1>1, <1>2, <1>3

\* A spawn preserves the invariant.
LEMMA SpawnShapeInv ==
    ASSUME LeaseInv, NEW i \in Incident, SpawnShape(i), UNCHANGED lock
    PROVE  LocalsOK' /\ SingleWriter' /\ LockInv'
<1>0. TypeOK /\ LocalsOK /\ SingleWriter /\ LockInv /\ Engine \in Writer
  BY DEF LeaseInv, Writer
<1>1. {"queued"} \cap {"idle", "checked", "read"} = {}
  OBVIOUS
<1>2. LocalsOK' /\ SingleWriter'
  BY <1>0, <1>1, LocalsAfter, LeaseAfter DEF SpawnShape
<1>3. LockInv'
  BY <1>0, LocksAfterOthers
<1> QED BY <1>2, <1>3

\* So does a step that changes no task, lease or lock.
LEMMA NoTaskInv ==
    ASSUME LeaseInv, UNCHANGED <<live, run, lock>>
    PROVE  LocalsOK' /\ SingleWriter' /\ LockInv'
  BY DEF LeaseInv, LocalsOK, SingleWriter, LockInv, OneRemediationPerTarget,
         LockIsOwned, task

\* So does a restart.
LEMMA CrashInv == ASSUME LeaseInv, CrashAndRestart PROVE LeaseInv'
<1>0. /\ Nobody \notin Writer
      /\ Nobody \notin Incident
      /\ Engine \in Writer
      /\ Idle.pc = "idle"
      /\ \A rec : At("queued", "lifecycle", rec).pc = "queued"
  BY ManagerAssumption DEF Writer, Idle, At
<1>1. \A i \in Incident : \A w \in Writer :
         run'[i][w] = IF w = Engine /\ Resumes(i)
                      THEN At("queued", "lifecycle", Resume(store[i]))
                      ELSE Idle
  BY DEF CrashAndRestart, recover_interrupted
<1>2. \A i \in Incident : live'[i] = IF Resumes(i) THEN Engine ELSE Nobody
  BY DEF CrashAndRestart, recover_interrupted
<1>3. \A i \in Incident : \A w \in Writer :
         run'[i][w].pc = IF w = Engine /\ Resumes(i) THEN "queued" ELSE "idle"
  BY <1>0, <1>1
<1>4. \A d \in Deployment : lock'[d] = Nobody
  BY DEF CrashAndRestart
<1>5. LocalsOK'
  BY <1>3 DEF LocalsOK, Local
<1>6. SingleWriter'
  BY <1>0, <1>2, <1>3 DEF SingleWriter, HoldsLease
<1>7. LockInv'
  BY <1>0, <1>3, <1>4
  DEF LockInv, OneRemediationPerTarget, LockIsOwned, Executing, task
<1>8. TypeOK'
  BY CrashType DEF LeaseInv
<1> QED BY <1>5, <1>6, <1>7, <1>8 DEF LeaseInv

\* The invariant is inductive.
LEMMA NextInv == LeaseInv /\ [Next]_vars => LeaseInv'
<1> SUFFICES ASSUME LeaseInv, [Next]_vars PROVE LeaseInv'
  OBVIOUS
<1>0. TypeOK /\ LocalsOK
  BY DEF LeaseInv
<1>1. ASSUME NEW p \in Problem, handle_alert(p) PROVE LeaseInv'
  <2>1. TypeOK'
    BY <1>0, <1>1, HandleAlertType
  <2> QED BY <1>0, <1>1, <2>1, AlertShape, SpawnShapeInv, NoTaskInv DEF LeaseInv
<1>2. ASSUME NEW p \in Problem, handle_resolved(p) PROVE LeaseInv'
  <2>1. TypeOK' /\ UNCHANGED <<live, run, lock>>
    BY <1>0, <1>2, HandleResolvedType DEF handle_resolved
  <2> QED BY <2>1, NoTaskInv DEF LeaseInv
<1>3. CASE CrashAndRestart
  BY <1>3, CrashInv
<1>4. ASSUME NEW i \in Incident, auto_resolve_incident(i) PROVE LeaseInv'
  <2>1. TypeOK' /\ UNCHANGED <<live, run, lock>>
    BY <1>0, <1>4, AutoResolveType DEF auto_resolve_incident
  <2> QED BY <2>1, NoTaskInv DEF LeaseInv
<1>5. ASSUME NEW i \in Incident, Request(i) PROVE LeaseInv'
  <2>1. TypeOK'
    BY <1>0, <1>5, RequestType
  <2> QED BY <1>0, <1>5, <2>1, RequestShape, SpawnShapeInv, AdminShapeInv DEF LeaseInv
<1>6. ASSUME NEW i \in Incident, Step(i) PROVE LeaseInv'
  BY <1>6, StepInv
<1>7. ASSUME NEW i \in Incident, NEW a \in Admin, AdminStep(i, a) PROVE LeaseInv'
  <2>1. TypeOK' /\ AdminShape(i, a)
    BY <1>0, <1>7, AdminStepType, AdminStepShape
  <2> QED BY <2>1, AdminShapeInv DEF LeaseInv
<1>8. CASE UNCHANGED vars
  <2>1. TypeOK'
    BY <1>0, <1>8, UnchangedTypes, TypeParts, RestParts DEF vars
  <2>2. UNCHANGED <<live, run, lock>>
    BY <1>8 DEF vars
  <2> QED BY <2>1, <2>2, NoTaskInv DEF LeaseInv
<1> QED BY <1>1, <1>2, <1>3, <1>4, <1>5, <1>6, <1>7, <1>8 DEF Next, Webhook

-----------------------------------------------------------------------------
\* The invariant holds in every reachable state.
LEMMA LeaseInvariant == Spec => []LeaseInv
  BY InitInv, NextInv, PTL DEF Spec

\* Every variable keeps its type, whatever interleaves and restarts.
THEOREM TypeCorrect == Spec => []TypeOK
<1>1. LeaseInv => TypeOK
  BY DEF LeaseInv
<1> QED BY <1>1, LeaseInvariant, PTL

(***************************************************************************)
(* The single-writer lease (incident_manager.py): at every moment, for     *)
(* every incident, the tasks past try_acquire are exactly the holder.      *)
(***************************************************************************)
THEOREM OneWriterPerIncident == Spec => []SingleWriter
<1>1. LeaseInv => SingleWriter
  BY DEF LeaseInv
<1> QED BY <1>1, LeaseInvariant, PTL

(***************************************************************************)
(* The target lock (orchestrator.py): remediation by lifecycles is         *)
(* serialised per Deployment, and no lock outlives the task that took it.  *)
(***************************************************************************)
THEOREM RemediationIsSerialised == Spec => []OneRemediationPerTarget
<1>1. LeaseInv => OneRemediationPerTarget
  BY DEF LeaseInv, LockInv
<1> QED BY <1>1, LeaseInvariant, PTL

\* No target lock is leaked: its owner is an incident of that Deployment whose
\* task is still executing, validating or in _finish (async with lock).
THEOREM LocksAreOwned == Spec => []LockIsOwned
<1>1. LeaseInv => LockIsOwned
  BY DEF LeaseInv, LockInv
<1> QED BY <1>1, LeaseInvariant, PTL

-----------------------------------------------------------------------------
(***************************************************************************)
(* Deep proposals.  A proposal is settled on a copy of the record once the *)
(* copy says what became of it; a copy descends from another when nothing  *)
(* settled there is open again.                                            *)
(***************************************************************************)
Settled(rec, p) == rec.proposals[p] \notin {"none", "suggested"}

Descends(r, s) == /\ \A p \in Proposal : Settled(r, p) => Settled(s, p)
                  /\ r.status # "absent" => s.status # "absent"

\* A task past its first read has a copy of the record.
HasCopy(t) == t.pc \notin {"idle", "checked"}

\* A step of w on incident i, whose copy was r.
Hands(i, w, r) ==
    /\ UNCHANGED store \/ \E rec : Persist(i, rec) /\ Descends(r, rec)
    /\ \/ UNCHANGED run
       \/ \E t : SetTask(i, w, t) /\ (HasCopy(t) => Descends(r, t.obj))

\* A change that keeps the proposals and gives a status keeps what is settled.
LEMMA SameProposals ==
    ASSUME NEW r, NEW s, s.proposals = r.proposals,
           s.status # "absent" \/ s.status = r.status
    PROVE  Descends(r, s)
  BY DEF Descends, Settled

\* Descent is transitive.
LEMMA DescendsOn ==
    ASSUME NEW r, NEW s, NEW u, Descends(r, s), Descends(s, u)
    PROVE  Descends(r, u)
  BY DEF Descends

\* What the engine does to a record reopens no proposal.
LEMMA RecordMoves ==
    ASSUME NEW r \in Record
    PROVE  /\ Descends(r, r)
           /\ \A s \in Status : Descends(r, [r EXCEPT !.status = s])
           /\ \A s \in Status : Descends(r, [r EXCEPT !.status = s, !.diagnosed = TRUE])
           /\ \A why : Descends(r, Escalate(r, why))
           /\ Descends(r, Reopen(r)) /\ Descends(r, Reopened(r))
           /\ Descends(r, Resume(r)) /\ Descends(r, interrupt(r))
           /\ Descends(r, CountDig(r)) /\ Descends(r, Dig(r))
           /\ \A act, at : Descends(r, WithResult(r, act, at))
<1>1. /\ r.proposals = r.proposals
      /\ \A s \in Status : s # "absent"
  BY DEF Status, ActiveStatus, ClosedStatus
<1>2. Descends(r, r)
  BY SameProposals
<1>3. \A s \in Status : Descends(r, [r EXCEPT !.status = s])
  <2> TAKE s \in Status
  <2> DEFINE u == [r EXCEPT !.status = s]
  <2>1. u.proposals = r.proposals /\ u.status # "absent"
    BY <1>1 DEF Record
  <2> QED BY <2>1, SameProposals
<1>4. \A s \in Status : Descends(r, [r EXCEPT !.status = s, !.diagnosed = TRUE])
  <2> TAKE s \in Status
  <2> DEFINE u == [r EXCEPT !.status = s, !.diagnosed = TRUE]
  <2>1. u.proposals = r.proposals /\ u.status # "absent"
    BY <1>1 DEF Record
  <2> QED BY <2>1, SameProposals
<1>5. \A why : Descends(r, Escalate(r, why))
  <2> TAKE why
  <2>1. Escalate(r, why).proposals = r.proposals /\ Escalate(r, why).status # "absent"
    BY DEF Record, Escalate
  <2> QED BY <2>1, SameProposals
<1>6. Descends(r, Reopen(r)) /\ Descends(r, Reopened(r))
  <2>1. /\ Reopen(r).proposals = r.proposals /\ Reopen(r).status # "absent"
        /\ Reopened(r).proposals = r.proposals /\ Reopened(r).status # "absent"
    BY DEF Record, Reopen, Reopened
  <2> QED BY <2>1, SameProposals
<1>7. Descends(r, Resume(r)) /\ Descends(r, interrupt(r))
  <2>1. Resume(r).proposals = r.proposals /\ Resume(r).status # "absent"
    BY DEF Record, Resume
  <2> QED BY <1>5, <2>1, SameProposals DEF interrupt
<1>8. Descends(r, CountDig(r)) /\ Descends(r, Dig(r))
  <2>1. /\ CountDig(r).proposals = r.proposals /\ CountDig(r).status = r.status
        /\ Dig(r).proposals = r.proposals /\ Dig(r).status = r.status
    BY DEF Record, CountDig, Dig
  <2> QED BY <2>1, SameProposals
<1>9. \A act, at : Descends(r, WithResult(r, act, at))
  <2> TAKE act, at
  <2>1. /\ WithResult(r, act, at).proposals = r.proposals
        /\ WithResult(r, act, at).status = r.status
    BY DEF Record, WithResult
  <2> QED BY <2>1, SameProposals
<1> QED BY <1>2, <1>3, <1>4, <1>5, <1>6, <1>7, <1>8, <1>9

\* A deep investigation adds a proposal where there was none.
LEMMA DeepDescends ==
    ASSUME NEW r \in Record, NEW s \in DeepOutcomes(r) PROVE Descends(r, s)
<1>1. Descends(r, Dig(r))
  BY RecordMoves
<1>2. ASSUME NEW p \in Proposal, r.proposals[p] = "none", NEW v
      PROVE  Descends(r, Propose(r, p, v))
  <2>1. /\ Propose(r, p, v).proposals = [r.proposals EXCEPT ![p] = v]
        /\ Propose(r, p, v).status = r.status
    BY DEF Record, Propose, Dig
  <2>2. r.proposals \in [Proposal -> ProposalStatus]
    BY DEF Record
  <2>3. \A q \in Proposal : q # p => Propose(r, p, v).proposals[q] = r.proposals[q]
    BY <2>1, <2>2
  <2>4. \A q \in Proposal : Settled(r, q) => Settled(Propose(r, p, v), q)
    BY <1>2, <2>3 DEF Settled
  <2> QED BY <2>1, <2>4 DEF Descends
<1>3. CASE s = Dig(r)
  BY <1>1, <1>3
<1>4. CASE \E x \in {p \in Proposal : r.proposals[p] = "none"} \X Verdicts(r) :
              s = Propose(r, x[1], x[2])
  BY <1>2, <1>4
<1> QED BY <1>3, <1>4 DEF DeepOutcomes

\* What an authorisation notes about its own proposal settles it.
LEMMA MarkDescends ==
    ASSUME NEW t \in Task, NEW rec \in Record,
           NEW v \in {"executing", "executed", "validated", "failed", "rejected"}
    PROVE  /\ Descends(rec, Mark(t, rec, v))
           /\ \A s \in Status : Descends(rec, [Mark(t, rec, v) EXCEPT !.status = s])
           /\ Descends(rec, Returned(Mark(t, rec, v)))
           /\ Descends(rec, Returned(rec))
           /\ IsDeep(t) /\ t.prop \in Proposal => Settled(Mark(t, rec, v), t.prop)
<1>0. rec.proposals \in [Proposal -> ProposalStatus]
  BY DEF Record
<1>1. Mark(t, rec, v) \in Record
  BY MarkType DEF ProposalStatus
<1>2. /\ IsDeep(t) => Mark(t, rec, v).proposals = [rec.proposals EXCEPT ![t.prop] = v]
      /\ ~IsDeep(t) => Mark(t, rec, v).proposals = rec.proposals
      /\ Mark(t, rec, v).status = rec.status
  BY DEF Record, Mark
<1>3. Descends(rec, Mark(t, rec, v))
  BY <1>0, <1>2 DEF Descends, Settled
<1>4. IsDeep(t) /\ t.prop \in Proposal => Settled(Mark(t, rec, v), t.prop)
  BY <1>0, <1>2 DEF Settled
<1>5. \A s \in Status : Descends(rec, [Mark(t, rec, v) EXCEPT !.status = s])
  BY <1>1, <1>3, RecordMoves, DescendsOn
<1>6. "escalated" \in Status
  BY DEF Status
<1>7. Descends(rec, Returned(Mark(t, rec, v))) /\ Descends(rec, Returned(rec))
  BY <1>5, <1>6, RecordMoves DEF Returned
<1> QED BY <1>3, <1>4, <1>5, <1>7

-----------------------------------------------------------------------------
\* A task that is replaced by one with a copy of rec.
LEMMA HandsTask ==
    ASSUME NEW i, NEW w, NEW r, NEW rec, NEW t, SetTask(i, w, t),
           t.obj = rec, Descends(r, rec), Persist(i, rec) \/ UNCHANGED store
    PROVE  Hands(i, w, r)
  BY DEF Hands

\* Idle holds no copy.
LEMMA HandsIdle ==
    ASSUME NEW i, NEW w, NEW r, SetTask(i, w, Idle),
           UNCHANGED store \/ \E rec : Persist(i, rec) /\ Descends(r, rec)
    PROVE  Hands(i, w, r)
<1>1. ~HasCopy(Idle)
  BY DEF Idle, HasCopy
<1> QED BY <1>1 DEF Hands

\* The ways out of a step of the engine's task.
LEMMA WaysOut ==
    ASSUME TypeOK, NEW i \in Incident, NEW r \in Record, NEW rec \in Record,
           Descends(r, rec)
    PROVE  /\ Conclude(i, rec) => Hands(i, Engine, r)
           /\ \A why : Deepen(i, rec, why) => Hands(i, Engine, r)
           /\ NextCycle(i, rec) => Hands(i, Engine, r)
           /\ \A ran : EndOfCycle(i, rec, ran) => Hands(i, Engine, r)
           /\ \A act, ran : NextCandidate(i, rec, act, ran) => Hands(i, Engine, r)
<1>0. /\ \A pc, job, x : At(pc, job, x).obj = x
      /\ \A pc, job, x, why : [At(pc, job, x) EXCEPT !.why = why].obj = x
      /\ \A pc, job, x, c, n :
            [At(pc, job, x) EXCEPT !.cycle = c, !.seen = n].obj = x
  BY DEF At, Idle
<1>1. \A x : Descends(r, x) /\ Conclude(i, x) => Hands(i, Engine, r)
  BY <1>0, HandsTask DEF Conclude
<1>2. \A why : Descends(r, Escalate(rec, why))
  BY RecordMoves, DescendsOn
<1>3. ASSUME NEW why, Deepen(i, rec, why) PROVE Hands(i, Engine, r)
  <2>1. CASE rec.diagnosed
    <3> DEFINE t == [At("digging", "lifecycle", CountDig(rec)) EXCEPT !.why = why]
    <3>1. Descends(r, CountDig(rec))
      BY RecordMoves, DescendsOn
    <3>2. t.obj = CountDig(rec)
      BY <1>0
    <3>3. Persist(i, rec) /\ SetTask(i, Engine, t)
      BY <1>3, <2>1 DEF Deepen
    <3> HIDE DEF t
    <3> QED BY <3>1, <3>2, <3>3 DEF Hands
  <2>2. CASE ~rec.diagnosed
    BY <1>1, <1>2, <1>3, <2>2 DEF Deepen
  <2> QED BY <2>1, <2>2
<1>4. ASSUME NextCycle(i, rec) PROVE Hands(i, Engine, r)
  <2>1. CASE Persist(i, rec) /\
             SetTask(i, Engine, Investigating(i, rec, task(i).cycle + 1))
    <3> DEFINE u == [rec EXCEPT !.status = "investigating"]
               t == Investigating(i, rec, task(i).cycle + 1)
    <3>1. Descends(r, u)
      <4>1. "investigating" \in Status
        BY DEF Status, ActiveStatus
      <4> QED BY <4>1, RecordMoves, DescendsOn
    <3>2. t.obj = u
      BY <1>0 DEF Investigating
    <3> HIDE DEF t, u
    <3> QED BY <2>1, <3>1, <3>2 DEF Hands, t
  <2> QED BY <1>1, <1>2, <1>3, <1>4, <2>1 DEF NextCycle
<1>5. ASSUME NEW ran, EndOfCycle(i, rec, ran) PROVE Hands(i, Engine, r)
  BY <1>3, <1>4, <1>5 DEF EndOfCycle
<1>6. ASSUME NEW act, NEW ran, NextCandidate(i, rec, act, ran)
      PROVE  Hands(i, Engine, r)
  <2> DEFINE left == task(i).plans \ {act}
             t == [task(i) EXCEPT !.pc = "waiting", !.obj = rec, !.plans = left,
                                  !.ran = ran, !.act = Nobody, !.at = 0]
  <2>1. CASE left = {}
    BY <1>5, <1>6, <2>1 DEF NextCandidate
  <2>2. CASE left # {}
    <3>1. t.obj = rec
      BY LocalTypes DEF Task
    <3>2. Persist(i, rec) /\ SetTask(i, Engine, t)
      BY <1>6, <2>2 DEF NextCandidate
    <3> HIDE DEF t
    <3> QED BY <3>1, <3>2, HandsTask
  <2> QED BY <2>1, <2>2
<1> QED BY <1>1, <1>3, <1>4, <1>5, <1>6

\* Whatever the engine's task does, what it hands on descends from its copy.
LEMMA StepHands ==
    ASSUME TypeOK, LocalsOK, NEW i \in Incident, Step(i)
    PROVE  UNCHANGED deep /\ HasCopy(task(i)) /\ Hands(i, Engine, task(i).obj)
<1> DEFINE t == task(i)
           r == t.obj
<1>0. t \in Task /\ r \in Record
  BY LocalTypes, TaskFields DEF task, Writer
<1>1. /\ Descends(r, r)
      /\ \A s \in Status : Descends(r, [r EXCEPT !.status = s])
      /\ \A why : Descends(r, Escalate(r, why))
      /\ \A act, at : Descends(r, WithResult(r, act, at))
      /\ Descends(r, CountDig(r))
  BY <1>0, RecordMoves
<1>2. {"investigating", "remediating", "validating", "resolved"} \subseteq Status
  BY DEF Status, ActiveStatus, ClosedStatus
<1>3. \A pc, job, x : At(pc, job, x).obj = x
  BY DEF At, Idle
<1>4. ASSUME NEW u \in Record, Descends(r, u), NEW c,
             SetTask(i, Engine, Investigating(i, u, c)), Persist(i, u) \/ UNCHANGED store
      PROVE  Hands(i, Engine, r)
  <2> DEFINE v == [u EXCEPT !.status = "investigating"]
             s == Investigating(i, u, c)
  <2>1. Descends(r, v)
    BY <1>2, <1>4, RecordMoves, DescendsOn
  <2>2. s.obj = v
    BY DEF Investigating, At, Idle
  <2> HIDE DEF s, v
  <2> QED BY <1>4, <2>1, <2>2 DEF Hands, s
<1>5. CASE EnterSlot(i)
  <2>1. UNCHANGED deep /\ HasCopy(t)
    BY <1>5 DEF EnterSlot, worldVars, HasCopy
  <2>2. CASE SetTask(i, Engine, Investigating(i, r, 1)) /\ UNCHANGED store
    BY <1>0, <1>1, <1>4, <2>1, <2>2
  <2>3. CASE SetTask(i, Engine, [t EXCEPT !.pc = "rechecking"]) /\ UNCHANGED store
    <3>1. [t EXCEPT !.pc = "rechecking"].obj = r
      BY <1>0 DEF Task
    <3> QED BY <1>1, <2>1, <2>3, <3>1 DEF Hands
  <2>4. CASE /\ Persist(i, Reopen(r))
             /\ SetTask(i, Engine, Investigating(i, Reopen(r), 1))
    <3>1. Reopen(r) \in Record
      BY <1>0, RecordTypes
    <3> QED BY <1>0, <1>4, <2>1, <2>4, <3>1, RecordMoves
  <2>5. CASE release(i, Engine) /\ (UNCHANGED store \/ Persist(i, r))
    BY <1>1, <2>1, <2>5, HandsIdle DEF release
  <2>6. CASE /\ SetTask(i, Engine, At("suggesting", "suggest", CountDig(r)))
             /\ UNCHANGED store
    BY <1>1, <1>3, <2>1, <2>6 DEF Hands
  <2> QED BY <1>5, <2>1, <2>2, <2>3, <2>4, <2>5, <2>6 DEF EnterSlot
<1>6. CASE Recheck(i)
  <2>1. UNCHANGED deep /\ HasCopy(t)
    BY <1>6 DEF Recheck, worldVars, HasCopy
  <2>2. CASE (Persist(i, r) \/ UNCHANGED store) /\ release(i, Engine)
    BY <1>1, <2>1, <2>2, HandsIdle DEF release
  <2>3. CASE /\ Persist(i, Reopened(r))
             /\ SetTask(i, Engine, Investigating(i, Reopened(r), 1))
    <3>1. Reopened(r) \in Record
      BY <1>0, RecordTypes
    <3> QED BY <1>0, <1>4, <2>1, <2>3, <3>1, RecordMoves
  <2> QED BY <1>6, <2>1, <2>2, <2>3 DEF Recheck
<1>7. CASE Investigated(i)
  <2>1. [t EXCEPT !.pc = "analysing"].obj = r
    BY <1>0 DEF Task
  <2> QED BY <1>1, <1>7, <2>1, HandsTask DEF Investigated, worldVars, HasCopy
<1>8. CASE Analysed(i)
  <2> DEFINE rec == [r EXCEPT !.status = "remediating", !.diagnosed = TRUE]
  <2>1. UNCHANGED deep /\ HasCopy(t)
    BY <1>8 DEF Analysed, worldVars, HasCopy
  <2>2. rec \in Record /\ Descends(r, rec)
    BY <1>0, <1>2, RecordMoves DEF Record
  <2>3. PICK plans \in Candidates(rec) :
           IF plans = {}
           THEN Deepen(i, rec, "no_safe_action")
           ELSE /\ Persist(i, rec)
                /\ SetTask(i, Engine, [t EXCEPT !.pc = "waiting", !.obj = rec,
                                                !.plans = plans, !.ran = FALSE])
    BY <1>8 DEF Analysed
  <2> HIDE DEF rec
  <2>4. [t EXCEPT !.pc = "waiting", !.obj = rec, !.plans = plans, !.ran = FALSE].obj = rec
    BY <1>0 DEF Task
  <2>5. CASE plans = {}
    BY <1>0, <2>1, <2>2, <2>3, <2>5, WaysOut
  <2>6. CASE plans # {}
    BY <2>1, <2>2, <2>3, <2>4, <2>6, HandsTask
  <2> QED BY <2>5, <2>6
<1>9. CASE TryCandidate(i)
  <2>1. HasCopy(t)
    BY <1>9 DEF TryCandidate, HasCopy
  <2>2. PICK act \in t.plans :
          \/ NextCycle(i, r) /\ UNCHANGED worldVars
          \/ NextCandidate(i, r, act, t.ran) /\ UNCHANGED worldVars
          \/ Conclude(i, Escalate(r, "remediation_error")) /\ UNCHANGED worldVars
          \/ /\ SetTask(i, Engine, [t EXCEPT !.pc = "executing", !.act = act,
                                             !.at = clock[Target(i)] + 1])
             /\ UNCHANGED <<store, deep>>
    BY <1>9 DEF TryCandidate
  <2>3. [t EXCEPT !.pc = "executing", !.act = act, !.at = clock[Target(i)] + 1].obj = r
    BY <1>0 DEF Task
  <2>4. Escalate(r, "remediation_error") \in Record
    BY <1>0, RecordTypes DEF EscalationReason
  <2>5. CASE NextCycle(i, r) /\ UNCHANGED worldVars
    BY <1>0, <1>1, <2>1, <2>5, WaysOut DEF worldVars
  <2>6. CASE NextCandidate(i, r, act, t.ran) /\ UNCHANGED worldVars
    BY <1>0, <1>1, <2>1, <2>6, WaysOut DEF worldVars
  <2>7. CASE Conclude(i, Escalate(r, "remediation_error")) /\ UNCHANGED worldVars
    BY <1>0, <1>1, <2>1, <2>4, <2>7, WaysOut DEF worldVars
  <2>8. CASE /\ SetTask(i, Engine, [t EXCEPT !.pc = "executing", !.act = act,
                                             !.at = clock[Target(i)] + 1])
             /\ UNCHANGED <<store, deep>>
    BY <1>1, <2>1, <2>3, <2>8, HandsTask
  <2> QED BY <2>2, <2>5, <2>6, <2>7, <2>8
<1>10. CASE Executed(i)
  <2> DEFINE rec == WithResult(r, t.act, t.at)
             u == [rec EXCEPT !.status = "validating"]
             s == [t EXCEPT !.pc = "validating", !.ran = TRUE, !.obj = u]
  <2>1. UNCHANGED deep /\ HasCopy(t)
    BY <1>10 DEF Executed, worldVars, HasCopy
  <2>2. rec \in Record
    <3>1. t.act \in Action /\ t.at \in Nat
      BY <1>0, <1>10, TaskFields DEF Executed, LocalsOK, Local, task, Writer
    <3> QED BY <1>0, <3>1, RecordTypes
  <2>3. Descends(r, rec)
    BY <1>1
  <2> HIDE DEF rec
  <2>4. Descends(r, u)
    BY <1>2, <2>2, <2>3, RecordMoves, DescendsOn
  <2>5. s.obj = u
    BY <1>0 DEF Task
  <2>6. CASE Persist(i, rec) /\ SetTask(i, Engine, s)
    <3> HIDE DEF s, u
    <3> QED BY <2>1, <2>3, <2>4, <2>5, <2>6 DEF Hands
  <2>7. CASE NextCandidate(i, rec, t.act, TRUE) \/ EndOfCycle(i, rec, TRUE)
    BY <1>0, <2>1, <2>2, <2>3, <2>7, WaysOut
  <2> QED BY <1>10, <2>6, <2>7 DEF Executed, rec
<1>11. CASE Validated(i)
  <2> DEFINE u == [r EXCEPT !.status = "resolved"]
  <2>1. UNCHANGED deep /\ HasCopy(t)
    BY <1>11 DEF Validated, worldVars, HasCopy
  <2>2. u \in Record /\ Descends(r, u)
    BY <1>0, <1>1, <1>2, RecordTypes DEF Record
  <2>3. Conclude(i, u) \/ EndOfCycle(i, r, TRUE)
    BY <1>11 DEF Validated
  <2> HIDE DEF u
  <2> QED BY <1>0, <1>1, <2>1, <2>2, <2>3, WaysOut
<1>12. CASE Dug(i)
  <2>1. UNCHANGED deep /\ HasCopy(t)
    BY <1>12 DEF Dug, worldVars, HasCopy
  <2>2. PICK rec \in DeepOutcomes(r) : Conclude(i, Escalate(rec, t.why))
    BY <1>12 DEF Dug
  <2>3. rec \in Record
    BY <1>0, DeepOutcomesType
  <2>4. Escalate(rec, t.why) \in Record
    <3>1. t.why \in EscalationReason
      BY <1>12 DEF Dug, LocalsOK, Local, task, Writer
    <3> QED BY <2>3, <3>1, RecordTypes
  <2>5. Descends(r, Escalate(rec, t.why))
    BY <1>0, <2>3, DeepDescends, RecordMoves, DescendsOn
  <2> QED BY <1>0, <2>1, <2>2, <2>4, <2>5, WaysOut
<1>13. CASE Suggested(i)
  <2>1. UNCHANGED store \/ \E rec : Persist(i, rec) /\ Descends(r, rec)
    BY <1>0, <1>13, DeepDescends DEF Suggested
  <2> QED BY <1>13, <2>1, HandsIdle DEF Suggested, worldVars, HasCopy, release
<1>14. CASE InternalError(i)
  <2> DEFINE u == Escalate(Stopped(t), "internal_error")
  <2>1. Stopped(t) \in Record /\ u \in Record
    BY <1>0, StoppedType, RecordTypes DEF EscalationReason
  <2>2. Descends(r, Stopped(t))
    BY <1>0, <1>1, StoppedType, DeepDescends
  <2>3. Descends(r, u)
    BY <1>0, <2>1, <2>2, RecordMoves, DescendsOn
  <2>4. Conclude(i, u) /\ HasCopy(t) /\ UNCHANGED deep
    BY <1>14 DEF InternalError, HasCopy, worldVars
  <2> HIDE DEF u
  <2> QED BY <1>0, <1>1, <2>1, <2>3, <2>4, WaysOut
<1>15. CASE Finished(i)
  BY <1>1, <1>15, HandsIdle DEF Finished, release, worldVars, HasCopy
<1> QED BY <1>5, <1>6, <1>7, <1>8, <1>9, <1>10, <1>11, <1>12, <1>13, <1>14, <1>15
        DEF Step

-----------------------------------------------------------------------------
(***************************************************************************)
(* With one administrator a proposal is carried out at most once.  What    *)
(* has been started is settled on the stored record and on every copy of   *)
(* it; an authorisation under way has a copy on which its proposal is      *)
(* still suggested, so it has not been started.                            *)
(***************************************************************************)
OneAdministrator == \A a, b \in Admin : a = b

\* A copy of the record of i that knows what was started.
Knows(i, r) == /\ r.status # "absent"
               /\ \A p \in Proposal : deep[i][p] # 0 => Settled(r, p)

\* An authorisation of a deep proposal that has not come to its start.
Pending(t) == IsDeep(t) /\ t.pc \in {"read", "granted", "auth_investigating"}

Sane(w, t) ==
    /\ w = Engine => t.pc \notin {"checked", "read"}
    /\ Pending(t) => /\ t.prop \in Proposal
                     /\ t.obj.proposals[t.prop] = "suggested"

KnownOnce(i) ==
    /\ store[i].status = "absent" => store[i] = Absent
    /\ \A p \in Proposal : deep[i][p] \in {0, 1}
    /\ \A p \in Proposal : deep[i][p] # 0 => Settled(store[i], p)
    /\ \A w \in Writer : HasCopy(run[i][w]) => Knows(i, run[i][w].obj)
    /\ \A w \in Writer : Sane(w, run[i][w])

OnceInv == \A i \in Incident : KnownOnce(i)

\* Nothing was started of an incident that does not exist.
LEMMA NotStarted ==
    ASSUME NEW i \in Incident, KnownOnce(i), store[i].status = "absent"
    PROVE  \A p \in Proposal : deep[i][p] = 0
<1>1. \A p \in Proposal : ~Settled(Absent, p)
  BY DEF Absent, Blank, Settled
<1>2. store[i] = Absent /\ \A p \in Proposal : deep[i][p] # 0 => Settled(store[i], p)
  BY DEF KnownOnce
<1> QED BY <1>1, <1>2

\* The stored record of an incident that exists knows what was started.
LEMMA StoreKnows ==
    ASSUME NEW i \in Incident, KnownOnce(i), store[i].status # "absent"
    PROVE  Knows(i, store[i])
  BY DEF KnownOnce, Knows

\* What descends from a copy that knows, knows.
LEMMA KnowsOn ==
    ASSUME NEW i \in Incident, NEW r, NEW s, Knows(i, r), Descends(r, s)
    PROVE  Knows(i, s)
  BY DEF Knows, Descends

\* A step that hands on what descends from a copy keeps the invariant.
LEMMA Handed ==
    ASSUME TypeOK, OnceInv, NEW i \in Incident, NEW w \in Writer, NEW r,
           Knows(i, r), Hands(i, w, r), UNCHANGED deep,
           UNCHANGED run \/ Sane(w, run'[i][w])
    PROVE  OnceInv'
<1>1. \A j \in Incident : KnownOnce(j)
  BY DEF OnceInv
<1>2. \A j \in Incident : \/ store'[j] = store[j]
                          \/ j = i /\ Knows(i, store'[j])
  <2>1. CASE UNCHANGED store
    BY <2>1
  <2>2. CASE \E rec : Persist(i, rec) /\ Descends(r, rec)
    <3>1. PICK rec : Persist(i, rec) /\ Descends(r, rec)
      BY <2>2
    <3>2. Knows(i, rec)
      BY <3>1, KnowsOn
    <3>3. \A j \in Incident : store'[j] = IF j = i THEN rec ELSE store[j]
      BY <3>1 DEF Persist, TypeOK
    <3> QED BY <3>2, <3>3
  <2> QED BY <2>1, <2>2 DEF Hands
<1>3. \A j \in Incident : \A v \in Writer :
         \/ run'[j][v] = run[j][v]
         \/ /\ j = i /\ v = w
            /\ HasCopy(run'[j][v]) => Knows(i, run'[j][v].obj)
            /\ Sane(v, run'[j][v])
  <2>1. CASE UNCHANGED run
    BY <2>1
  <2>2. CASE /\ \E t : SetTask(i, w, t) /\ (HasCopy(t) => Descends(r, t.obj))
             /\ Sane(w, run'[i][w])
    <3>1. PICK t : SetTask(i, w, t) /\ (HasCopy(t) => Descends(r, t.obj))
      BY <2>2
    <3>2. \A j \in Incident : \A v \in Writer :
             run'[j][v] = IF j = i /\ v = w THEN t ELSE run[j][v]
      BY <3>1, RunAfter
    <3>3. HasCopy(t) => Knows(i, t.obj)
      BY <3>1, KnowsOn
    <3> QED BY <2>2, <3>2, <3>3
  <2> QED BY <2>1, <2>2 DEF Hands
<1> SUFFICES ASSUME NEW j \in Incident PROVE KnownOnce(j)'
  BY DEF OnceInv
<1>4. deep' = deep
  OBVIOUS
<1>5. (store[j].status = "absent" => store[j] = Absent)'
  BY <1>1, <1>2 DEF KnownOnce, Knows
<1>6. (\A p \in Proposal : deep[j][p] \in {0, 1})'
  BY <1>1, <1>4 DEF KnownOnce
<1>7. (\A p \in Proposal : deep[j][p] # 0 => Settled(store[j], p))'
  BY <1>1, <1>2, <1>4 DEF KnownOnce, Knows, Settled
<1>8. (\A v \in Writer : HasCopy(run[j][v]) => Knows(j, run[j][v].obj))'
  BY <1>1, <1>3, <1>4 DEF KnownOnce, Knows, HasCopy, Settled
<1>9. (\A v \in Writer : Sane(v, run[j][v]))'
  BY <1>1, <1>3 DEF KnownOnce, Sane, Pending, IsDeep
<1> QED BY <1>5, <1>6, <1>7, <1>8, <1>9 DEF KnownOnce

\* A step of the engine's task keeps it.
LEMMA StepOnce ==
    ASSUME LeaseInv, OnceInv, NEW i \in Incident, Step(i) PROVE OnceInv'
<1>0. TypeOK /\ LocalsOK /\ Engine \in Writer
  BY DEF LeaseInv, Writer
<1>1. UNCHANGED deep /\ HasCopy(task(i)) /\ Hands(i, Engine, task(i).obj)
  BY <1>0, StepHands
<1>2. Knows(i, task(i).obj)
  BY <1>0, <1>1 DEF OnceInv, KnownOnce, task
<1>3. run'[i][Engine].pc \in EnginePC \cup {"idle"}
  <2>1. /\ Quiet \subseteq EnginePC
        /\ {"executing", "finishing", "validating"} \subseteq EnginePC
        /\ Idle.pc = "idle"
    BY DEF Quiet, EnginePC, Idle
  <2>2. \A pcs : Moves(i, Engine, pcs) => run'[i][Engine].pc \in pcs
    BY <1>0, RunAfter DEF Moves
  <2>3. release(i, Engine) => run'[i][Engine].pc = "idle"
    BY <1>0, <2>1, RunAfter DEF release
  <2> QED BY <1>0, <2>1, <2>2, <2>3, StepShape DEF EngineShape
<1>4. Sane(Engine, run'[i][Engine])
  BY <1>3 DEF Sane, Pending, EnginePC
<1> QED BY <1>0, <1>1, <1>2, <1>4, Handed

\* A task spawned with a copy of the record.
LEMMA SpawnHands ==
    ASSUME TypeOK, NEW i \in Incident, NEW job, NEW rec, NEW r, Descends(r, rec),
           job # "authorize_deep", spawn(i, job, rec),
           UNCHANGED store \/ \E x : Persist(i, x) /\ Descends(r, x)
    PROVE  Hands(i, Engine, r) /\ Sane(Engine, run'[i][Engine])
<1> DEFINE t == At("queued", job, rec)
<1>1. t.obj = rec /\ t.pc = "queued" /\ t.job = job
  BY DEF At, Idle
<1>2. SetTask(i, Engine, t)
  BY DEF spawn
<1>3. run'[i][Engine] = t
  BY <1>2, RunAfter DEF Writer
<1> HIDE DEF t
<1> QED BY <1>1, <1>2, <1>3 DEF Hands, Sane, Pending

\* An incident's first record, where there was none.
LEMMA CreateOnce ==
    ASSUME LeaseInv, OnceInv, NEW i \in Incident, store[i].status = "absent",
           create(i), UNCHANGED deep
    PROVE  OnceInv'
<1>0. TypeOK /\ KnownOnce(i) /\ Engine \in Writer
  BY DEF LeaseInv, OnceInv, Writer
<1>1. NewIncident.status # "absent"
  BY DEF NewIncident, Blank
<1>2. Knows(i, NewIncident)
  BY <1>0, <1>1, NotStarted DEF Knows
<1>3. Descends(NewIncident, NewIncident)
  BY DEF Descends
<1>4. Hands(i, Engine, NewIncident) /\ Sane(Engine, run'[i][Engine])
  BY <1>0, <1>3, SpawnHands DEF create
<1> QED BY <1>0, <1>2, <1>4, Handed

\* The records an alert or a recovery works on.
LEMMA SavedOnce ==
    ASSUME LeaseInv, OnceInv, NEW i \in Incident, store[i].status # "absent",
           UNCHANGED deep
    PROVE  /\ join_running(i) => OnceInv'
           /\ join_escalated(i, store[i]) => OnceInv'
           /\ join_escalated(i, interrupt(store[i])) => OnceInv'
           /\ close_unless_running(i) /\ UNCHANGED run => OnceInv'
<1>0. TypeOK /\ SingleWriter /\ KnownOnce(i) /\ Engine \in Writer /\ Nobody \notin Writer
  BY ManagerAssumption DEF LeaseInv, OnceInv, Writer
<1>1. Knows(i, store[i]) /\ store[i] \in Record
  BY <1>0, StoreKnows, LocalTypes
<1>2. ASSUME live[i] # Nobody, Persist(i, LiveObject(i)), UNCHANGED run
      PROVE  OnceInv'
  <2>1. live[i] \in Writer
    BY <1>0, <1>2 DEF TypeOK
  <2>2. HasCopy(run[i][live[i]])
    BY <1>0, <2>1 DEF SingleWriter, HoldsLease, HasCopy
  <2>3. Knows(i, LiveObject(i))
    BY <1>0, <2>1, <2>2 DEF KnownOnce, LiveObject
  <2>4. Descends(LiveObject(i), LiveObject(i))
    BY DEF Descends
  <2>5. Hands(i, live[i], LiveObject(i))
    BY <1>2, <2>4 DEF Hands
  <2> QED BY <1>0, <1>2, <2>1, <2>3, <2>5, Handed
<1>3. ASSUME NEW rec, Descends(store[i], rec), join_escalated(i, rec)
      PROVE  OnceInv'
  <2>1. Persist(i, rec)
    BY <1>3 DEF join_escalated
  <2>2. CASE UNCHANGED run
    BY <1>0, <1>1, <1>3, <2>1, <2>2, Handed DEF Hands
  <2>3. CASE spawn(i, "recheck", rec)
    <3>1. Hands(i, Engine, store[i]) /\ Sane(Engine, run'[i][Engine])
      BY <1>0, <1>3, <2>1, <2>3, SpawnHands
    <3> QED BY <1>0, <1>1, <3>1, Handed
  <2> QED BY <1>3, <2>2, <2>3 DEF join_escalated
<1>4. Descends(store[i], store[i]) /\ Descends(store[i], interrupt(store[i]))
  BY <1>1, RecordMoves
<1>5. ASSUME close_unless_running(i), UNCHANGED run PROVE OnceInv'
  <2> DEFINE u == [store[i] EXCEPT !.status = "auto_resolved"]
  <2>1. Descends(store[i], u)
    BY <1>1, RecordMoves DEF Status, ClosedStatus
  <2>2. CASE UNCHANGED store \/ Persist(i, u)
    <3>1. Hands(i, Engine, store[i])
      BY <1>5, <2>1, <2>2 DEF Hands
    <3> QED BY <1>0, <1>1, <1>5, <3>1, Handed
  <2> QED BY <1>2, <1>5, <2>2 DEF close_unless_running
<1> QED BY <1>2, <1>3, <1>4, <1>5 DEF join_running

\* Alerts, recoveries and closings keep the invariant.
LEMMA WebhookOnce ==
    ASSUME LeaseInv, OnceInv
    PROVE  /\ \A p \in Problem : handle_alert(p) => OnceInv'
           /\ \A p \in Problem : handle_resolved(p) => OnceInv'
           /\ \A i \in Incident : auto_resolve_incident(i) => OnceInv'
<1>0. TypeOK
  BY DEF LeaseInv
<1>1. ASSUME UNCHANGED <<store, run, deep>> PROVE OnceInv'
  BY <1>1 DEF OnceInv, KnownOnce, Knows
<1>2. ASSUME NEW p \in Problem, handle_alert(p) PROVE OnceInv'
  <2>1. UNCHANGED deep
    BY <1>2 DEF handle_alert, worldVars
  <2>2. CASE Unknown(p) /\ <<p, 1>> \in Incident /\ create(<<p, 1>>)
    <3>1. store[<<p, 1>>].status = "absent"
      BY <2>2, RecordAssumption DEF Unknown, Incident
    <3> QED BY <2>1, <2>2, <3>1, CreateOnce
  <2>3. ASSUME NEW i \in Incident, i[1] = p, IsLatest(i),
               \/ join_running(i)
               \/ join_escalated(i, store[i])
               \/ join_escalated(i, interrupt(store[i]))
               \/ absorb_after_resolution(i)
               \/ i[2] < MaxOccurrences /\ create(<<p, i[2] + 1>>)
        PROVE  OnceInv'
    <3>1. store[i].status # "absent"
      BY <2>3 DEF IsLatest
    <3>2. CASE i[2] < MaxOccurrences /\ create(<<p, i[2] + 1>>)
      <4>1. i[2] \in 1..MaxOccurrences
        BY DEF Incident
      <4>2. i[2] + 1 \in 1..MaxOccurrences /\ i[2] + 1 > i[2]
        BY <3>2, <4>1, RecordAssumption
      <4>3. <<p, i[2] + 1>> \in Incident /\ store[<<p, i[2] + 1>>].status = "absent"
        BY <2>3, <4>2 DEF Incident, IsLatest
      <4> QED BY <2>1, <3>2, <4>3, CreateOnce
    <3>3. CASE absorb_after_resolution(i)
      BY <1>1, <2>1, <3>3 DEF absorb_after_resolution
    <3> QED BY <2>1, <2>3, <3>1, <3>2, <3>3, SavedOnce
  <2> QED BY <1>2, <2>2, <2>3 DEF handle_alert
<1>3. ASSUME NEW p \in Problem, handle_resolved(p) PROVE OnceInv'
  <2>1. UNCHANGED <<deep, run>>
    BY <1>3 DEF handle_resolved, worldVars
  <2>2. CASE UNCHANGED store
    BY <1>1, <2>1, <2>2
  <2>3. ASSUME NEW i \in Incident, IsLatest(i), close_unless_running(i)
        PROVE  OnceInv'
    BY <2>1, <2>3, SavedOnce DEF IsLatest
  <2> QED BY <1>3, <2>2, <2>3 DEF handle_resolved
<1>4. ASSUME NEW i \in Incident, auto_resolve_incident(i) PROVE OnceInv'
  BY <1>4, SavedOnce DEF auto_resolve_incident, worldVars
<1> QED BY <1>2, <1>3, <1>4

\* A task that holds no copy may take the place of another.
LEMMA UncopiedOnce ==
    ASSUME LeaseInv, OnceInv, NEW i \in Incident, NEW a \in Admin,
           UNCHANGED <<store, deep>>,
           \/ SetTask(i, a, Idle)
           \/ SetTask(i, a, At("checked", "reject", Absent))
    PROVE  OnceInv'
<1>0. TypeOK /\ a \in Writer /\ a # Engine
  BY ManagerAssumption DEF LeaseInv, Writer
<1>1. PICK t : SetTask(i, a, t) /\ t \in {Idle, At("checked", "reject", Absent)}
  OBVIOUS
<1>2. ~HasCopy(t) /\ Sane(a, t)
  <2>1. Idle.pc = "idle" /\ At("checked", "reject", Absent).pc = "checked"
    BY DEF At, Idle
  <2>2. t.pc \in {"idle", "checked"}
    BY <1>1, <2>1
  <2> QED BY <1>0, <2>2 DEF HasCopy, Sane, Pending
<1>3. \A j \in Incident : \A v \in Writer :
         run'[j][v] = IF j = i /\ v = a THEN t ELSE run[j][v]
  BY <1>0, <1>1, RunAfter
<1> SUFFICES ASSUME NEW j \in Incident PROVE KnownOnce(j)'
  BY DEF OnceInv
<1>4. KnownOnce(j) /\ store' = store /\ deep' = deep
  BY DEF OnceInv
<1>5. (\A v \in Writer : HasCopy(run[j][v]) => Knows(j, run[j][v].obj))'
  BY <1>2, <1>3, <1>4 DEF KnownOnce, Knows, HasCopy, Settled
<1>6. (\A v \in Writer : Sane(v, run[j][v]))'
  BY <1>2, <1>3, <1>4 DEF KnownOnce, Sane, Pending, IsDeep
<1> QED BY <1>4, <1>5, <1>6 DEF KnownOnce, Settled

\* A request keeps it: a copy of the stored record, or none yet.
LEMMA RequestOnce ==
    ASSUME LeaseInv, OnceInv, NEW i \in Incident, Request(i) PROVE OnceInv'
<1>0. /\ TypeOK /\ KnownOnce(i) /\ Engine \in Writer /\ Engine \notin Admin
      /\ Admin \subseteq Writer
  BY ManagerAssumption DEF LeaseInv, OnceInv, Writer
<1>1. UNCHANGED <<store, deep>>
  BY DEF Request, reinvestigate, suggest_fix, authorize_incident,
         authorize_deep_proposal, reject_deep_proposal, worldVars
<1>2. store[i].status # "absent" => Knows(i, store[i])
  BY <1>0, StoreKnows
<1>3. Descends(store[i], store[i]) /\ Absent.status = "absent" /\ ~Absent.diagnosed
  BY DEF Descends, Absent, Blank
<1>4. \A p \in Proposal : Absent.proposals[p] = "none"
  BY DEF Absent, Blank
<1>5. store[i].status = "absent" => store[i] = Absent
  BY <1>0 DEF KnownOnce
<1>6. ASSUME NEW job, job # "authorize_deep", spawn(i, job, store[i]),
             store[i].status # "absent"
      PROVE  OnceInv'
  <2>1. Hands(i, Engine, store[i]) /\ Sane(Engine, run'[i][Engine])
    BY <1>0, <1>1, <1>3, <1>6, SpawnHands
  <2> QED BY <1>0, <1>1, <1>2, <1>6, <2>1, Handed
<1>7. CASE reinvestigate(i)
  BY <1>3, <1>6, <1>7 DEF reinvestigate
<1>8. CASE suggest_fix(i)
  BY <1>3, <1>5, <1>6, <1>8 DEF suggest_fix
<1>9. ASSUME NEW a \in Admin, NEW t, SetTask(i, a, t), t.obj = store[i],
             store[i].status # "absent",
             Pending(t) => /\ t.prop \in Proposal
                           /\ t.obj.proposals[t.prop] = "suggested"
      PROVE  OnceInv'
  <2>1. Hands(i, a, store[i])
    BY <1>1, <1>3, <1>9 DEF Hands
  <2>2. Sane(a, run'[i][a])
    <3>1. run'[i][a] = t
      BY <1>0, <1>9, RunAfter
    <3> QED BY <1>0, <1>9, <3>1 DEF Sane
  <2> QED BY <1>0, <1>1, <1>2, <1>9, <2>1, <2>2, Handed
<1>10. ASSUME NEW a \in Admin, authorize_incident(i, a) PROVE OnceInv'
  <2> DEFINE t == At("read", "authorize", store[i])
  <2>1. t.obj = store[i] /\ ~Pending(t)
    BY DEF At, Idle, Pending, IsDeep
  <2>2. SetTask(i, a, t) /\ store[i].status # "absent"
    BY <1>10 DEF authorize_incident
  <2> HIDE DEF t
  <2> QED BY <1>9, <2>1, <2>2
<1>11. ASSUME NEW a \in Admin, authorize_deep_proposal(i, a) PROVE OnceInv'
  <2>1. PICK p \in Proposal :
           /\ store[i].proposals[p] = "suggested"
           /\ SetTask(i, a, [At("read", "authorize_deep", store[i]) EXCEPT !.prop = p])
    BY <1>11 DEF authorize_deep_proposal
  <2> DEFINE t == [At("read", "authorize_deep", store[i]) EXCEPT !.prop = p]
  <2>2. t.obj = store[i] /\ t.prop = p
    BY DEF At, Idle
  <2>3. store[i].status # "absent"
    BY <1>4, <1>5, <2>1
  <2>4. SetTask(i, a, t)
    BY <2>1
  <2> HIDE DEF t
  <2> QED BY <1>9, <2>1, <2>2, <2>3, <2>4
<1>12. ASSUME NEW a \in Admin, reject_deep_proposal(i, a) PROVE OnceInv'
  BY <1>0, <1>1, <1>12, UncopiedOnce DEF reject_deep_proposal
<1> QED BY <1>7, <1>8, <1>10, <1>11, <1>12 DEF Request

\* Attempts of an authorisation that hand on a copy and start nothing.
LEMMA AdminHands ==
    ASSUME LeaseInv, OnceInv, NEW i \in Incident, NEW a \in Admin, UNCHANGED deep,
           HasCopy(run[i][a]), Hands(i, a, run[i][a].obj), ~Pending(run'[i][a])
    PROVE  OnceInv'
<1>0. TypeOK /\ KnownOnce(i) /\ a \in Writer /\ a # Engine
  BY ManagerAssumption DEF LeaseInv, OnceInv, Writer
<1>1. Knows(i, run[i][a].obj)
  BY <1>0 DEF KnownOnce
<1>2. Sane(a, run'[i][a])
  BY <1>0 DEF Sane
<1> QED BY <1>0, <1>1, <1>2, Handed

\* A task that saves a copy and is over.
LEMMA AdminEnds ==
    ASSUME LeaseInv, OnceInv, NEW i \in Incident, NEW a \in Admin, UNCHANGED deep,
           HasCopy(run[i][a]), NEW rec, Persist(i, rec),
           Descends(run[i][a].obj, rec), SetTask(i, a, Idle)
    PROVE  OnceInv'
<1>1. Hands(i, a, run[i][a].obj)
  BY HandsIdle
<1>2. run'[i][a] = Idle
  BY RunAfter DEF LeaseInv, Writer
<1>3. ~Pending(Idle)
  BY DEF Pending, Idle
<1> QED BY <1>1, <1>2, <1>3, AdminHands

\* A task that saves a copy and goes on, with nothing left to start.
LEMMA AdminGoes ==
    ASSUME LeaseInv, OnceInv, NEW i \in Incident, NEW a \in Admin, UNCHANGED deep,
           HasCopy(run[i][a]), NEW rec, Persist(i, rec),
           Descends(run[i][a].obj, rec), NEW u, Descends(run[i][a].obj, u.obj),
           ~Pending(u), SetTask(i, a, u)
    PROVE  OnceInv'
<1>1. Hands(i, a, run[i][a].obj)
  BY DEF Hands
<1>2. run'[i][a] = u
  BY RunAfter DEF LeaseInv, Writer
<1> QED BY <1>1, <1>2, AdminHands

\* The steps of an administrator's task that start nothing keep it.
LEMMA AdminQuietOnce ==
    ASSUME LeaseInv, OnceInv, NEW i \in Incident, NEW a \in Admin,
           \/ Granted(i, a) \/ Authorised(i, a) \/ AuthExecuted(i, a)
           \/ AuthValidated(i, a) \/ AuthFinished(i, a)
           \/ RejectReads(i, a) \/ RejectWrites(i, a)
    PROVE  OnceInv'
<1> DEFINE t == run[i][a]
           r == t.obj
<1>0. /\ TypeOK /\ LocalsOK /\ KnownOnce(i) /\ a \in Writer /\ a # Engine
      /\ t \in Task /\ r \in Record /\ store[i] \in Record
  BY ManagerAssumption, LocalTypes, TaskFields DEF LeaseInv, OnceInv, Writer
<1>1. HasCopy(t) => Knows(i, r)
  BY <1>0 DEF KnownOnce
<1>2. Descends(r, r) /\ \A s \in Status : Descends(r, [r EXCEPT !.status = s])
  BY <1>0, RecordMoves
<1>3. ~Pending(Idle)
  BY DEF Pending, Idle
<1>4. \A u : SetTask(i, a, u) => run'[i][a] = u
  BY <1>0, RunAfter
<1>5. CASE Granted(i, a)
  <2>1. t.pc = "read" /\ HasCopy(t) /\ UNCHANGED <<store, deep>>
    BY <1>5 DEF Granted, HasCopy, worldVars
  <2>2. CASE SetTask(i, a, Idle)
    BY <2>1, <2>2, UncopiedOnce
  <2>3. CASE SetTask(i, a, [t EXCEPT !.pc = "granted"])
    <3> DEFINE u == [t EXCEPT !.pc = "granted"]
    <3>1. u.obj = r /\ u.prop = t.prop /\ u.job = t.job
      BY <1>0 DEF Task
    <3>2. Hands(i, a, r)
      <4> HIDE DEF u
      <4> QED BY <1>2, <2>1, <2>3, <3>1 DEF Hands, u
    <3>3. Sane(a, u)
      <4>1. Sane(a, t)
        BY <1>0 DEF KnownOnce
      <4> HIDE DEF u
      <4> QED BY <1>0, <2>1, <3>1, <4>1 DEF Sane, Pending, IsDeep
    <3>4. run'[i][a] = u
      BY <1>4, <2>3
    <3> QED BY <1>0, <1>1, <2>1, <3>2, <3>3, <3>4, Handed
  <2> QED BY <1>5, <2>2, <2>3 DEF Granted
<1>6. CASE Authorised(i, a)
  <2>1. t.pc = "granted" /\ HasCopy(t) /\ UNCHANGED <<store, deep>>
    BY <1>6 DEF Authorised, HasCopy, worldVars
  <2>2. CASE release(i, a)
    BY <2>1, <2>2, UncopiedOnce DEF release
  <2>3. CASE SetTask(i, a, [t EXCEPT !.pc = "auth_investigating",
                                     !.obj.status = "investigating"])
    <3> DEFINE u == [t EXCEPT !.pc = "auth_investigating",
                              !.obj.status = "investigating"]
               v == [r EXCEPT !.status = "investigating"]
    <3>1. /\ u.obj = v /\ u.prop = t.prop /\ u.job = t.job
          /\ v.proposals = r.proposals
      BY <1>0 DEF Task, Record
    <3>2. Descends(r, v)
      BY <1>2 DEF Status, ActiveStatus
    <3>3. Hands(i, a, r)
      <4> HIDE DEF u, v
      <4> QED BY <2>1, <2>3, <3>1, <3>2 DEF Hands, u
    <3>4. Sane(a, u)
      <4>1. Sane(a, t)
        BY <1>0 DEF KnownOnce
      <4> HIDE DEF u, v
      <4> QED BY <1>0, <2>1, <3>1, <4>1 DEF Sane, Pending, IsDeep
    <3>5. run'[i][a] = u
      BY <1>4, <2>3
    <3> QED BY <1>0, <1>1, <2>1, <3>3, <3>4, <3>5, Handed
  <2> QED BY <1>6, <2>2, <2>3 DEF Authorised
<1>8. \A v : \A pc \in {"auth_validating", "finishing"} :
         /\ [t EXCEPT !.pc = pc, !.obj = v].obj = v
         /\ ~Pending([t EXCEPT !.pc = pc, !.obj = v])
  BY <1>0 DEF Task, Pending
<1>9. CASE AuthExecuted(i, a)
  <2> DEFINE done == AuthRecord(t)
             v == [Mark(t, done, "executed") EXCEPT !.status = "validating"]
             w == Returned(Mark(t, done, "failed"))
  <2>1. HasCopy(t) /\ UNCHANGED deep /\ t.act \in Action
    BY <1>0, <1>9 DEF AuthExecuted, HasCopy, worldVars, LocalsOK, Local
  <2>2. done \in Record /\ Descends(r, done)
    BY <1>0, <1>2, <2>1, RecordTypes, RecordMoves, TaskFields DEF AuthRecord
  <2> HIDE DEF done
  <2>3. Descends(r, v) /\ Descends(r, w) /\ Descends(r, Returned(done))
    BY <1>0, <2>2, MarkDescends, RecordMoves, DescendsOn
       DEF Returned, Status, ActiveStatus
  <2>4. \/ Persist(i, done) /\ SetTask(i, a, [t EXCEPT !.pc = "auth_validating", !.obj = v])
        \/ Persist(i, w) /\ SetTask(i, a, [t EXCEPT !.pc = "finishing", !.obj = w])
        \/ Persist(i, Returned(done)) /\ SetTask(i, a, Idle)
    BY <1>9 DEF AuthExecuted, Decline, release, done
  <2> HIDE DEF v, w
  <2> QED BY <1>8, <2>1, <2>2, <2>3, <2>4, AdminEnds, AdminGoes
<1>10. CASE AuthValidated(i, a)
  <2> DEFINE v == [Mark(t, r, "validated") EXCEPT !.status = "resolved"]
             w == Returned(Mark(t, r, "failed"))
  <2>1. HasCopy(t) /\ UNCHANGED deep
    BY <1>10 DEF AuthValidated, HasCopy, worldVars
  <2>2. Descends(r, v) /\ Descends(r, w) /\ Descends(r, Returned(r))
    BY <1>0, MarkDescends DEF Status, ClosedStatus
  <2>3. \/ \E rec \in {v, w} : /\ Persist(i, rec)
                               /\ SetTask(i, a, [t EXCEPT !.pc = "finishing", !.obj = rec])
        \/ Persist(i, Returned(r)) /\ SetTask(i, a, Idle)
    BY <1>10 DEF AuthValidated, Decline, release
  <2> HIDE DEF v, w
  <2> QED BY <1>8, <2>1, <2>2, <2>3, AdminEnds, AdminGoes
<1>11. CASE AuthFinished(i, a)
  BY <1>2, <1>11, AdminEnds DEF AuthFinished, HasCopy, worldVars, release
<1>12. CASE RejectReads(i, a)
  <2>1. UNCHANGED <<store, deep>>
    BY <1>12 DEF RejectReads, worldVars
  <2>2. CASE SetTask(i, a, Idle)
    BY <2>1, <2>2, UncopiedOnce
  <2>3. ASSUME NEW p \in Proposal, store[i].proposals[p] = "suggested",
               SetTask(i, a, [At("read", "reject", store[i]) EXCEPT !.prop = p])
        PROVE  OnceInv'
    <3> DEFINE u == [At("read", "reject", store[i]) EXCEPT !.prop = p]
    <3>1. u.obj = store[i] /\ ~IsDeep(u)
      BY DEF At, Idle, IsDeep
    <3>2. Knows(i, store[i])
      <4>1. Absent.proposals[p] = "none"
        BY DEF Absent, Blank
      <4>2. store[i].status # "absent"
        BY <1>0, <2>3, <4>1 DEF KnownOnce
      <4> QED BY <1>0, <4>2, StoreKnows
    <3>3. run'[i][a] = u /\ SetTask(i, a, u)
      BY <1>4, <2>3
    <3> HIDE DEF u
    <3>4. Hands(i, a, store[i]) /\ Sane(a, u)
      BY <1>0, <2>1, <3>1, <3>3 DEF Hands, Sane, Pending, Descends
    <3> QED BY <1>0, <2>1, <3>2, <3>3, <3>4, Handed
  <2> QED BY <1>12, <2>2, <2>3 DEF RejectReads
<1>13. CASE RejectWrites(i, a)
  <2> DEFINE rec == [r EXCEPT !.proposals[t.prop] = "rejected"]
  <2>1. HasCopy(t) /\ UNCHANGED deep /\ Persist(i, rec) /\ SetTask(i, a, Idle)
    BY <1>13 DEF RejectWrites, HasCopy, worldVars
  <2>2. /\ rec.status = r.status
        /\ rec.proposals = [r.proposals EXCEPT ![t.prop] = "rejected"]
        /\ r.proposals \in [Proposal -> ProposalStatus]
    BY <1>0 DEF Record
  <2> HIDE DEF rec
  <2>3. Descends(r, rec)
    BY <2>2 DEF Descends, Settled
  <2> QED BY <2>1, <2>3, AdminEnds
<1> QED BY <1>5, <1>6, <1>9, <1>10, <1>11, <1>12, <1>13

\* So does the step that may start the attempt: the copies left besides the
\* one that says so are none, for the lease is held and nobody else asked.
LEMMA AuthCheckedOnce ==
    ASSUME OneAdministrator, LeaseInv, OnceInv, NEW i \in Incident, NEW a \in Admin,
           AuthChecked(i, a)
    PROVE  OnceInv'
<1> DEFINE t == run[i][a]
           r == t.obj
           d == Target(i)
<1>0. /\ TypeOK /\ SingleWriter /\ KnownOnce(i) /\ a \in Writer /\ a # Engine
      /\ t \in Task /\ r \in Record
  BY ManagerAssumption, LocalTypes, TaskFields DEF LeaseInv, OnceInv, Writer
<1>1. t.pc = "auth_investigating" /\ HasCopy(t)
  BY DEF AuthChecked, HasCopy
<1>2. Knows(i, r)
  BY <1>0, <1>1 DEF KnownOnce
<1>3. /\ Descends(r, Returned(Mark(t, r, "rejected"))) /\ Descends(r, Returned(r))
      /\ Descends(r, Returned(Mark(t, r, "failed"))) /\ Descends(r, Started(t))
  BY <1>0, MarkDescends DEF Started
<1>4. CASE /\ \/ Decline(i, a, Mark(t, r, "rejected")) \/ Decline(i, a, r)
           /\ UNCHANGED deep
  BY <1>1, <1>3, <1>4, AdminEnds DEF Decline, release
<1>5. CASE /\ UNCHANGED deep
           /\ LET rec == Returned(Mark(t, r, "failed")) IN
                 /\ Persist(i, rec)
                 /\ SetTask(i, a, [t EXCEPT !.pc = "finishing", !.obj = rec])
  <2> DEFINE rec == Returned(Mark(t, r, "failed"))
             u == [t EXCEPT !.pc = "finishing", !.obj = rec]
  <2>1. u.obj = rec /\ ~Pending(u)
    BY <1>0 DEF Task, Pending
  <2>2. Descends(r, rec) /\ Persist(i, rec) /\ SetTask(i, a, u) /\ UNCHANGED deep
    BY <1>3, <1>5
  <2> HIDE DEF rec, u
  <2> QED BY <1>1, <2>1, <2>2, AdminGoes
<1>6. ASSUME CountDeep(t, i), Persist(i, Started(t)), NEW act,
             SetTask(i, a, [t EXCEPT !.pc = "auth_executing", !.obj = Started(t),
                                     !.act = act, !.at = clock[d] + 1])
      PROVE  OnceInv'
  <2> DEFINE u == [t EXCEPT !.pc = "auth_executing", !.obj = Started(t),
                            !.act = act, !.at = clock[d] + 1]
  <2>1. u.obj = Started(t) /\ u.pc = "auth_executing" /\ ~Pending(u)
    BY <1>0 DEF Task, Pending
  <2>2. SetTask(i, a, u)
    BY <1>6
  <2> HIDE DEF u
  <2>3. CASE ~IsDeep(t)
    <3>1. UNCHANGED deep
      BY <1>6, <2>3 DEF CountDeep
    <3> QED BY <1>1, <1>3, <1>6, <2>1, <2>2, <3>1, AdminGoes
  <2>4. CASE IsDeep(t)
    <3> DEFINE p == t.prop
    <3>1. p \in Proposal /\ r.proposals[p] = "suggested"
      BY <1>0, <1>1, <2>4 DEF KnownOnce, Sane, Pending
    <3>2. deep[i][p] = 0
      BY <1>2, <3>1 DEF Knows, Settled
    <3>3. deep' = [deep EXCEPT ![i][p] = 1]
      BY <1>6, <2>4, <3>2 DEF CountDeep, TypeOK
    <3>4. Settled(Started(t), p)
      BY <1>0, <2>4, <3>1, MarkDescends DEF Started
    <3> HIDE DEF p
    <3>5. \A j \in Incident : \A q \in Proposal :
             deep'[j][q] = IF j = i /\ q = p THEN 1 ELSE deep[j][q]
      BY <1>0, <3>1, <3>3 DEF TypeOK
    <3>6. /\ Started(t).status # "absent"
          /\ \A q \in Proposal : deep'[i][q] # 0 => Settled(Started(t), q)
      BY <1>2, <1>3, <3>1, <3>4, <3>5 DEF Knows, Descends
    <3>7. \A v \in Writer \ {a} : ~HasCopy(run[i][v])
      <4>1. live[i] = a
        BY <1>0, <1>1 DEF SingleWriter, HoldsLease
      <4>2. ~HoldsLease(run[i][Engine])
        BY <1>0, <4>1 DEF SingleWriter, Writer
      <4>3. run[i][Engine].pc = "idle"
        BY <1>0, <4>2 DEF HoldsLease, KnownOnce, Sane, Writer
      <4>4. Writer = {a, Engine}
        BY OneAdministrator DEF OneAdministrator, Writer
      <4> QED BY <4>3, <4>4 DEF HasCopy
    <3>8. \A j \in Incident : \A v \in Writer :
             run'[j][v] = IF j = i /\ v = a THEN u ELSE run[j][v]
      BY <1>0, <2>2, RunAfter
    <3>9. \A j \in Incident : store'[j] = IF j = i THEN Started(t) ELSE store[j]
      BY <1>0, <1>6 DEF Persist, TypeOK
    <3>10. KnownOnce(i)'
      <4>1. (store[i].status = "absent" => store[i] = Absent)'
        BY <3>6, <3>9
      <4>2. (\A q \in Proposal : deep[i][q] \in {0, 1})'
        BY <1>0, <3>5 DEF KnownOnce
      <4>3. (\A q \in Proposal : deep[i][q] # 0 => Settled(store[i], q))'
        BY <3>6, <3>9 DEF Settled
      <4>4. (\A v \in Writer : HasCopy(run[i][v]) => Knows(i, run[i][v].obj))'
        BY <2>1, <3>6, <3>7, <3>8 DEF Knows, HasCopy, Settled
      <4>5. (\A v \in Writer : Sane(v, run[i][v]))'
        BY <1>0, <2>1, <3>8 DEF KnownOnce, Sane, Pending, IsDeep
      <4> QED BY <4>1, <4>2, <4>3, <4>4, <4>5 DEF KnownOnce
    <3>11. ASSUME NEW j \in Incident, j # i PROVE KnownOnce(j)'
      <4>1. KnownOnce(j) /\ store'[j] = store[j]
        BY <3>9, <3>11 DEF OnceInv
      <4>2. /\ \A q \in Proposal : deep'[j][q] = deep[j][q]
            /\ \A v \in Writer : run'[j][v] = run[j][v]
        BY <3>5, <3>8, <3>11
      <4>3. (\A v \in Writer : HasCopy(run[j][v]) => Knows(j, run[j][v].obj))'
        BY <4>1, <4>2 DEF KnownOnce, Knows, HasCopy, Settled
      <4>4. (\A v \in Writer : Sane(v, run[j][v]))'
        BY <4>1, <4>2 DEF KnownOnce, Sane, Pending, IsDeep
      <4> QED BY <4>1, <4>2, <4>3, <4>4 DEF KnownOnce, Settled
    <3> QED BY <3>10, <3>11 DEF OnceInv
  <2> QED BY <2>3, <2>4
<1> QED BY <1>4, <1>5, <1>6 DEF AuthChecked, worldVars

\* A restart leaves the rows that were stored, and tasks that resume them.
LEMMA CrashOnce == ASSUME LeaseInv, OnceInv, CrashAndRestart PROVE OnceInv'
<1>0. TypeOK /\ UNCHANGED deep
  BY DEF LeaseInv, CrashAndRestart, worldVars
<1> SUFFICES ASSUME NEW i \in Incident PROVE KnownOnce(i)'
  BY DEF OnceInv
<1>1. KnownOnce(i) /\ store[i] \in Record
  BY <1>0, LocalTypes DEF OnceInv
<1>2. store'[i] = store[i] \/ (store[i].status # "absent" /\ Knows(i, store'[i]))
  <2>1. \/ store'[i] = store[i]
        \/ IsActive(store[i]) /\ store'[i] \in {Resume(store[i]), interrupt(store[i])}
    BY DEF CrashAndRestart, recover_interrupted, Recovered
  <2>2. IsActive(store[i]) => store[i].status # "absent"
    BY DEF IsActive, ActiveStatus
  <2> QED BY <1>1, <2>1, <2>2, RecordMoves, StoreKnows, KnowsOn
<1>3. \A w \in Writer : \/ run'[i][w] = Idle
                        \/ /\ w = Engine /\ IsActive(store[i])
                           /\ run'[i][w] = At("queued", "lifecycle", Resume(store[i]))
  BY DEF CrashAndRestart, recover_interrupted, Resumes
<1>4. IsActive(store[i]) => Knows(i, Resume(store[i]))
  <2>1. IsActive(store[i]) => store[i].status # "absent"
    BY DEF IsActive, ActiveStatus
  <2> QED BY <1>1, <2>1, RecordMoves, StoreKnows, KnowsOn
<1>5. /\ Idle.pc = "idle"
      /\ \A rec : /\ At("queued", "lifecycle", rec).pc = "queued"
                  /\ At("queued", "lifecycle", rec).obj = rec
  BY DEF Idle, At
<1>6. (store[i].status = "absent" => store[i] = Absent)'
  BY <1>1, <1>2 DEF KnownOnce, Knows
<1>7. (\A p \in Proposal : deep[i][p] \in {0, 1})'
  BY <1>0, <1>1 DEF KnownOnce
<1>8. (\A p \in Proposal : deep[i][p] # 0 => Settled(store[i], p))'
  BY <1>0, <1>1, <1>2 DEF KnownOnce, Knows, Settled
<1>9. (\A w \in Writer : HasCopy(run[i][w]) => Knows(i, run[i][w].obj))'
  BY <1>0, <1>3, <1>4, <1>5 DEF Knows, HasCopy, Settled
<1>10. (\A w \in Writer : Sane(w, run[i][w]))'
  BY <1>3, <1>5 DEF Sane, Pending, IsDeep
<1> QED BY <1>6, <1>7, <1>8, <1>9, <1>10 DEF KnownOnce

\* The invariant holds initially.
LEMMA InitOnce == Init => OnceInv
<1> SUFFICES ASSUME Init, NEW i \in Incident PROVE KnownOnce(i)
  BY DEF OnceInv
<1>1. store[i] = Absent /\ \A w \in Writer : run[i][w] = Idle
  BY DEF Init
<1>2. \A p \in Proposal : deep[i][p] = 0
  BY DEF Init
<1>3. ~HasCopy(Idle) /\ \A w : Sane(w, Idle)
  BY DEF HasCopy, Sane, Pending, Idle
<1> QED BY <1>1, <1>2, <1>3 DEF KnownOnce

\* It is inductive.
LEMMA NextOnce ==
    ASSUME OneAdministrator PROVE LeaseInv /\ OnceInv /\ [Next]_vars => OnceInv'
<1> SUFFICES ASSUME LeaseInv, OnceInv, [Next]_vars PROVE OnceInv'
  OBVIOUS
<1>1. CASE UNCHANGED vars
  BY <1>1 DEF vars, worldVars, OnceInv, KnownOnce, Knows
<1>2. ASSUME NEW i \in Incident, NEW a \in Admin, AdminStep(i, a) PROVE OnceInv'
  BY <1>2, AdminQuietOnce, AuthCheckedOnce DEF AdminStep
<1> QED BY <1>1, <1>2, WebhookOnce, CrashOnce, RequestOnce, StepOnce
        DEF Next, Webhook

(***************************************************************************)
(* A deep proposal is carried out at most once (policy.py, "exactly        *)
(* once") over any number of lifecycles, alerts, restarts and requests, as *)
(* long as one administrator at a time makes them.  Two are too many: the  *)
(* run DeepTwice shows the second authorisation.                           *)
(***************************************************************************)
THEOREM ProposalsRunOnce ==
    ASSUME OneAdministrator PROVE Spec => []DeepProposalOnce
<1>1. OnceInv => DeepProposalOnce
  <2> SUFFICES ASSUME OnceInv, NEW i \in Incident, NEW p \in Proposal
               PROVE  deep[i][p] <= 1
    BY DEF DeepProposalOnce
  <2>1. deep[i][p] \in {0, 1}
    BY DEF OnceInv, KnownOnce
  <2> QED BY <2>1
<1> QED BY <1>1, InitOnce, NextOnce, LeaseInvariant, PTL DEF Spec
=============================================================================
