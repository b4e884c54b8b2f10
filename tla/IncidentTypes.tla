---------------------------- MODULE IncidentTypes ----------------------------
(***************************************************************************)
(* Type correctness of the incident engine, for every number of problems,  *)
(* incidents, administrators, actions and restarts.                        *)
(***************************************************************************)
EXTENDS IncidentEngine, TLAPS

\* A blank record is a record.
LEMMA BlankType == ASSUME NEW s \in Status \cup {"absent"} PROVE Blank(s) \in Record
  BY DEF Blank, Record, ProposalStatus

\* Every operator that makes a record from a record yields a record.
LEMMA RecordTypes ==
    ASSUME NEW rec \in Record
    PROVE  /\ \A a \in Action, n \in Nat : WithResult(rec, a, n) \in Record
           /\ \A r \in EscalationReason : Escalate(rec, r) \in Record
           /\ Reopen(rec) \in Record
           /\ Reopened(rec) \in Record
           /\ CountDig(rec) \in Record
           /\ Resume(rec) \in Record
           /\ interrupt(rec) \in Record
           /\ Returned(rec) \in Record
           /\ \A s \in Status : [rec EXCEPT !.status = s] \in Record
<1>0. /\ rec.count \in Nat
      /\ rec.reopens \in Nat
      /\ rec.digs \in Nat
  BY DEF Record
<1>1. \A a \in Action, n \in Nat : WithResult(rec, a, n) \in Record
  <2> TAKE a \in Action, n \in Nat
  <2>0. rec.count + 1 \in Nat
    BY <1>0
  <2>1. rec.tried \cup {a} \in SUBSET Action
    BY DEF Record
  <2>2. \A c \in Nat, t \in SUBSET Action :
           [rec EXCEPT !.count = c, !.tried = t, !.stamp = n] \in Record
    BY DEF Record
  <2> QED BY <2>0, <2>1, <2>2 DEF WithResult
<1>2. \A r \in EscalationReason : Escalate(rec, r) \in Record
  BY DEF Escalate, Record, Status
<1>3. Reopen(rec) \in Record
  BY DEF Reopen, Record, Status, ActiveStatus
<1>9. Reopened(rec) \in Record
  <2>1. rec.reopens + 1 \in Nat
    BY <1>0
  <2>2. \A n \in Nat : [rec EXCEPT !.reopens = n] \in Record
    BY DEF Record
  <2>3. \A r \in Record : Reopen(r) \in Record
    BY DEF Reopen, Record, Status, ActiveStatus
  <2> QED BY <2>1, <2>2, <2>3 DEF Reopened
<1>4. CountDig(rec) \in Record
  <2>1. (IF rec.digs > DeepBudget THEN rec.digs ELSE rec.digs + 1) \in Nat
    BY <1>0
  <2>2. \A n \in Nat : [rec EXCEPT !.digs = n, !.digging = TRUE] \in Record
    BY DEF Record
  <2> QED BY <2>1, <2>2 DEF CountDig
<1>5. Resume(rec) \in Record
  BY DEF Resume, Record, Status, ActiveStatus
<1>6. interrupt(rec) \in Record
  BY <1>2 DEF interrupt, EscalationReason
<1>7. \A s \in Status : [rec EXCEPT !.status = s] \in Record
  BY DEF Record
<1>8. Returned(rec) \in Record
  BY <1>7 DEF Returned, Status
<1> QED BY <1>1, <1>2, <1>3, <1>4, <1>5, <1>6, <1>7, <1>8, <1>9

-----------------------------------------------------------------------------
PC == EnginePC \cup AdminPC \cup {"idle"}

\* The idle task is a task.
LEMMA IdleType == Idle \in Task
  BY BlankType DEF Idle, Task, Absent

\* At yields a task from a pc, a job and a record.
LEMMA AtType ==
    ASSUME NEW pc \in PC, NEW job \in Job, NEW obj \in Record
    PROVE  At(pc, job, obj) \in Task
  BY IdleType DEF At, Task, PC

\* Every update the steps make to a task yields a task.
LEMMA TaskTypes ==
    ASSUME NEW t \in Task, NEW pc \in PC
    PROVE  /\ [t EXCEPT !.pc = pc] \in Task
           /\ \A rec \in Record : [t EXCEPT !.pc = pc, !.obj = rec] \in Task
           /\ \A rec \in Record, plans \in SUBSET Action, ran \in BOOLEAN :
                 /\ [t EXCEPT !.pc = pc, !.obj = rec, !.plans = plans,
                              !.ran = ran] \in Task
                 /\ [t EXCEPT !.pc = pc, !.obj = rec, !.plans = plans,
                              !.ran = ran, !.act = Nobody, !.at = 0] \in Task
                 /\ [t EXCEPT !.pc = pc, !.ran = ran, !.obj = rec] \in Task
           /\ \A a \in Action, n \in Nat :
                 [t EXCEPT !.pc = pc, !.act = a, !.at = n] \in Task
           /\ \A rec \in Record, a \in Action, n \in Nat :
                 [t EXCEPT !.pc = pc, !.obj = rec, !.act = a, !.at = n] \in Task
<1>1. [t EXCEPT !.pc = pc] \in Task
  BY DEF Task, PC
<1>2. \A rec \in Record : [t EXCEPT !.pc = pc, !.obj = rec] \in Task
  BY DEF Task, PC
<1>3. \A rec \in Record, plans \in SUBSET Action, ran \in BOOLEAN :
         [t EXCEPT !.pc = pc, !.obj = rec, !.plans = plans, !.ran = ran] \in Task
  BY DEF Task, PC
<1>4. \A rec \in Record, plans \in SUBSET Action, ran \in BOOLEAN :
         [t EXCEPT !.pc = pc, !.obj = rec, !.plans = plans, !.ran = ran,
                   !.act = Nobody, !.at = 0] \in Task
  BY DEF Task, PC
<1>5. \A rec \in Record, ran \in BOOLEAN :
         [t EXCEPT !.pc = pc, !.ran = ran, !.obj = rec] \in Task
  BY DEF Task, PC
<1>6. \A a \in Action, n \in Nat :
         [t EXCEPT !.pc = pc, !.act = a, !.at = n] \in Task
  BY DEF Task, PC
<1>7. \A rec \in Record, a \in Action, n \in Nat :
         [t EXCEPT !.pc = pc, !.obj = rec, !.act = a, !.at = n] \in Task
  BY DEF Task, PC
<1> QED BY <1>1, <1>2, <1>3, <1>4, <1>5, <1>6, <1>7

-----------------------------------------------------------------------------
StoreOK == store \in [Incident -> Record]
RunOK   == run \in [Incident -> [Writer -> Task]]
LiveOK  == live \in [Incident -> Writer \cup {Nobody}]

\* Saving a record keeps the type of the store.
LEMMA PersistType ==
    ASSUME TypeOK, NEW i \in Incident, NEW rec \in Record, Persist(i, rec)
    PROVE  StoreOK'
  BY DEF TypeOK, StoreOK, Persist

\* Replacing a task keeps the type of run.
LEMMA SetTaskType ==
    ASSUME TypeOK, NEW i \in Incident, NEW w \in Writer, NEW t \in Task,
           SetTask(i, w, t)
    PROVE  RunOK'
  BY DEF TypeOK, RunOK, SetTask

\* Taking and releasing a lease keep the type of live.
LEMMA LeaseType ==
    ASSUME TypeOK, NEW i \in Incident, NEW w \in Writer
    PROVE  /\ try_acquire(i, w) => LiveOK'
           /\ release(i, w) => LiveOK' /\ RunOK'
<1>1. try_acquire(i, w) => LiveOK'
  BY DEF TypeOK, LiveOK, try_acquire
<1>2. release(i, w) => LiveOK'
  BY DEF TypeOK, LiveOK, release
<1>3. release(i, w) => RunOK'
  BY SetTaskType, IdleType DEF release
<1> QED BY <1>1, <1>2, <1>3

-----------------------------------------------------------------------------
\* The target of an incident is a Deployment.
LEMMA TargetType == ASSUME NEW i \in Incident PROVE Target(i) \in Deployment
  BY RecordAssumption DEF Target, Incident

\* What TypeOK says of one incident.
LEMMA LocalTypes ==
    ASSUME TypeOK, NEW i \in Incident
    PROVE  /\ clock[Target(i)] \in Nat
           /\ store[i] \in Record
           /\ task(i) \in Task
           /\ \A w \in Writer : run[i][w] \in Task
<1>1. clock[Target(i)] \in Nat /\ store[i] \in Record
  BY TargetType DEF TypeOK
<1>2. \A w \in Writer : run[i][w] \in Task
  BY DEF TypeOK
<1>3. Engine \in Writer
  BY DEF Writer
<1> QED BY <1>1, <1>2, <1>3 DEF task

\* What Task says of each field of a task.
LEMMA TaskFields ==
    ASSUME NEW t \in Task
    PROVE  /\ t.obj \in Record
           /\ t.plans \in SUBSET Action
           /\ t.cycle \in Nat
           /\ t.ran \in BOOLEAN
           /\ t.at \in Nat
           /\ t.seen \in Nat
           /\ t.why \in EscalationReason \cup {""}
           /\ t.prop \in Proposal \cup {Nobody}
           /\ t.act \in Action \cup {Nobody}
  BY DEF Task

\* The start of a cycle yields a task.
LEMMA InvestigatingType ==
    ASSUME TypeOK, NEW i \in Incident, NEW rec \in Record, NEW n \in Nat
    PROVE  Investigating(i, rec, n) \in Task
<1>1. [rec EXCEPT !.status = "investigating"] \in Record
  BY RecordTypes DEF Status, ActiveStatus
<1>2. At("investigating", "lifecycle", [rec EXCEPT !.status = "investigating"])
         \in Task
  BY <1>1, AtType DEF PC, EnginePC, Job
<1>3. \A t \in Task, c \in Nat : [t EXCEPT !.cycle = n, !.seen = c] \in Task
  BY DEF Task
<1> QED BY <1>2, <1>3, LocalTypes DEF Investigating

\* Conclude keeps the types of store and run.
LEMMA ConcludeType ==
    ASSUME TypeOK, NEW i \in Incident, NEW rec \in Record, Conclude(i, rec)
    PROVE  StoreOK' /\ RunOK'
<1>1. At("finishing", "lifecycle", rec) \in Task
  BY AtType DEF PC, EnginePC, Job
<1>2. Engine \in Writer
  BY DEF Writer
<1> QED BY <1>1, <1>2, PersistType, SetTaskType DEF Conclude

\* So does Deepen,
LEMMA DeepenType ==
    ASSUME TypeOK, NEW i \in Incident, NEW rec \in Record,
           NEW why \in EscalationReason, Deepen(i, rec, why)
    PROVE  StoreOK' /\ RunOK'
<1>1. CASE rec.diagnosed
  <2>1. At("digging", "lifecycle", CountDig(rec)) \in Task
    BY AtType, RecordTypes DEF PC, EnginePC, Job
  <2>2. \A t \in Task : [t EXCEPT !.why = why] \in Task
    BY DEF Task
  <2>3. Engine \in Writer
    BY DEF Writer
  <2> QED BY <1>1, <2>1, <2>2, <2>3, PersistType, SetTaskType DEF Deepen
<1>2. CASE ~rec.diagnosed
  BY <1>2, ConcludeType, RecordTypes DEF Deepen
<1> QED BY <1>1, <1>2

\* and NextCycle,
LEMMA NextCycleType ==
    ASSUME TypeOK, NEW i \in Incident, NEW rec \in Record, NextCycle(i, rec)
    PROVE  StoreOK' /\ RunOK'
<1>1. CASE Deepen(i, rec, "validation_failed")
  BY <1>1, DeepenType DEF EscalationReason
<1>2. CASE Conclude(i, Escalate(rec, "lifecycle_timeout"))
  BY <1>2, ConcludeType, RecordTypes DEF EscalationReason
<1>3. CASE /\ Persist(i, rec)
           /\ SetTask(i, Engine, Investigating(i, rec, task(i).cycle + 1))
  <2>0. task(i).cycle \in Nat
    BY LocalTypes, TaskFields
  <2>1. task(i).cycle + 1 \in Nat
    BY <2>0
  <2>2. Engine \in Writer
    BY DEF Writer
  <2> QED BY <1>3, <2>1, <2>2, InvestigatingType, PersistType, SetTaskType
<1> QED BY <1>1, <1>2, <1>3 DEF NextCycle

\* and EndOfCycle,
LEMMA EndOfCycleType ==
    ASSUME TypeOK, NEW i \in Incident, NEW rec \in Record, NEW ran \in BOOLEAN,
           EndOfCycle(i, rec, ran)
    PROVE  StoreOK' /\ RunOK'
  BY DeepenType, NextCycleType DEF EndOfCycle, EscalationReason

\* and NextCandidate.
LEMMA NextCandidateType ==
    ASSUME TypeOK, NEW i \in Incident, NEW rec \in Record, NEW act \in Action,
           NEW ran \in BOOLEAN, NextCandidate(i, rec, act, ran)
    PROVE  StoreOK' /\ RunOK'
<1> DEFINE left == task(i).plans \ {act}
<1>1. CASE left = {}
  BY <1>1, EndOfCycleType DEF NextCandidate
<1>2. CASE left # {}
  <2>1. left \in SUBSET Action
    BY LocalTypes, TaskFields
  <2>2. [task(i) EXCEPT !.pc = "waiting", !.obj = rec, !.plans = left,
                        !.ran = ran, !.act = Nobody, !.at = 0] \in Task
    BY <2>1, LocalTypes, TaskTypes DEF PC, EnginePC
  <2>3. Engine \in Writer
    BY DEF Writer
  <2> QED BY <1>2, <2>2, <2>3, PersistType, SetTaskType DEF NextCandidate
<1> QED BY <1>1, <1>2

-----------------------------------------------------------------------------
RestOK ==
    /\ lock \in [Deployment -> Incident \cup {Nobody}]
    /\ clock \in [Deployment -> Nat]
    /\ acted \in [Incident -> Nat]
    /\ newest \in [Incident -> Nat]
    /\ deep \in [Incident -> [Proposal -> Nat]]
    /\ launched \in [Incident -> Nat]
    /\ firing \in [Problem -> BOOLEAN]
    /\ restarts \in Nat

\* TypeOK, conjunct by conjunct.
LEMMA TypeParts ==
    ASSUME StoreOK', RunOK', LiveOK', RestOK' PROVE TypeOK'
  BY DEF TypeOK, StoreOK, RunOK, LiveOK, RestOK

WorldOK == /\ clock \in [Deployment -> Nat]
           /\ acted \in [Incident -> Nat]
           /\ newest \in [Incident -> Nat]
           /\ deep \in [Incident -> [Proposal -> Nat]]
LockOK     == lock \in [Deployment -> Incident \cup {Nobody}]
LaunchedOK == launched \in [Incident -> Nat]

\* RestOK holds after a step if each of its parts does.
LEMMA RestParts ==
    ASSUME LockOK', WorldOK', LaunchedOK',
           (firing \in [Problem -> BOOLEAN])', (restarts \in Nat)'
    PROVE  RestOK'
  BY DEF RestOK, WorldOK, LockOK, LaunchedOK

\* What a step leaves alone keeps its type.
LEMMA UnchangedTypes ==
    ASSUME TypeOK
    PROVE  /\ UNCHANGED store => StoreOK'
           /\ UNCHANGED run => RunOK'
           /\ UNCHANGED live => LiveOK'
           /\ UNCHANGED lock => LockOK'
           /\ UNCHANGED worldVars => WorldOK'
           /\ UNCHANGED launched => LaunchedOK'
           /\ UNCHANGED firing => (firing \in [Problem -> BOOLEAN])'
           /\ UNCHANGED restarts => (restarts \in Nat)'
  BY DEF TypeOK, StoreOK, RunOK, LiveOK, LockOK, WorldOK, LaunchedOK, worldVars

\* Taking and releasing a target lock keep the type of lock.
LEMMA LockTypes ==
    ASSUME TypeOK, NEW i \in Incident
    PROVE  /\ Release(i) => LockOK'
           /\ ReleaseIfHeld(i) => LockOK'
           /\ lock' = [lock EXCEPT ![Target(i)] = i] => LockOK'
  BY TargetType DEF TypeOK, LockOK, Release, ReleaseIfHeld

\* Starting an action keeps the types of the world's counters.
LEMMA StartTypes ==
    ASSUME TypeOK, NEW i \in Incident, StartAction(i)
    PROVE  /\ (clock \in [Deployment -> Nat])'
           /\ (acted \in [Incident -> Nat])'
           /\ (newest \in [Incident -> Nat])'
<1>0. clock[Target(i)] \in Nat /\ acted[i] \in Nat
  BY TargetType DEF TypeOK
<1>1. clock[Target(i)] + 1 \in Nat /\ acted[i] + 1 \in Nat
  BY <1>0
<1> QED BY <1>1, TargetType DEF TypeOK, StartAction

\* Launching a lifecycle keeps the type of launched.
LEMMA LaunchType ==
    ASSUME TypeOK, NEW i \in Incident, Launch(i) PROVE LaunchedOK'
<1>0. launched[i] \in Nat
  BY DEF TypeOK
<1>1. launched[i] + 1 \in Nat
  BY <1>0
<1> QED BY <1>1 DEF TypeOK, LaunchedOK, Launch

-----------------------------------------------------------------------------
\* Keep leaves its variables with their types.
LEMMA KeepTypes ==
    ASSUME TypeOK, Keep, StoreOK', RunOK', LiveOK', LockOK', WorldOK'
    PROVE  TypeOK'
  BY UnchangedTypes, TypeParts, RestParts DEF Keep

\* Type correctness across EnterSlot.
LEMMA EnterSlotType ==
    ASSUME TypeOK, NEW i \in Incident, EnterSlot(i) PROVE TypeOK'
<1> DEFINE t == task(i)
<1>0. /\ t \in Task
      /\ t.obj \in Record
      /\ Engine \in Writer
  BY LocalTypes, TaskFields DEF Writer
<1>1. CASE /\ SetTask(i, Engine, Investigating(i, t.obj, 1))
           /\ UNCHANGED <<store, live>>
  BY <1>0, <1>1, InvestigatingType, SetTaskType, UnchangedTypes, KeepTypes DEF EnterSlot
<1>2. CASE /\ SetTask(i, Engine, [t EXCEPT !.pc = "rechecking"])
           /\ UNCHANGED <<store, live>>
  <2>1. [t EXCEPT !.pc = "rechecking"] \in Task
    BY <1>0, TaskTypes DEF PC, EnginePC
  <2> QED BY <1>0, <1>2, <2>1, SetTaskType, UnchangedTypes, KeepTypes DEF EnterSlot
<1>3. CASE /\ Persist(i, Reopen(t.obj))
           /\ SetTask(i, Engine, Investigating(i, Reopen(t.obj), 1))
           /\ UNCHANGED live
  <2>1. Reopen(t.obj) \in Record
    BY <1>0, RecordTypes
  <2> QED BY <1>0, <1>3, <2>1, InvestigatingType, PersistType, SetTaskType, UnchangedTypes, KeepTypes
          DEF EnterSlot
<1>4. CASE release(i, Engine) /\ (UNCHANGED store \/ Persist(i, t.obj))
  BY <1>0, <1>4, LeaseType, PersistType, UnchangedTypes, KeepTypes DEF EnterSlot
<1>5. CASE /\ SetTask(i, Engine, At("suggesting", "suggest", CountDig(t.obj)))
           /\ UNCHANGED <<store, live>>
  <2>1. At("suggesting", "suggest", CountDig(t.obj)) \in Task
    BY <1>0, AtType, RecordTypes DEF PC, EnginePC, Job
  <2> QED BY <1>0, <1>5, <2>1, SetTaskType, UnchangedTypes, KeepTypes DEF EnterSlot
<1> QED BY <1>1, <1>2, <1>3, <1>4, <1>5 DEF EnterSlot

\* Type correctness across Recheck.
LEMMA RecheckType ==
    ASSUME TypeOK, NEW i \in Incident, Recheck(i) PROVE TypeOK'
<1> DEFINE t == task(i)
<1>0. /\ t.obj \in Record
      /\ Reopened(t.obj) \in Record
      /\ Engine \in Writer
  BY LocalTypes, TaskFields, RecordTypes DEF Writer
<1>1. StoreOK' /\ RunOK' /\ LiveOK' /\ LaunchedOK'
  <2>1. CASE /\ Persist(i, t.obj) \/ UNCHANGED store
             /\ release(i, Engine)
             /\ UNCHANGED launched
    BY <1>0, <2>1, PersistType, LeaseType, UnchangedTypes
  <2>2. CASE /\ Persist(i, Reopened(t.obj))
             /\ SetTask(i, Engine, Investigating(i, Reopened(t.obj), 1))
             /\ Launch(i)
             /\ UNCHANGED live
    BY <1>0, <2>2, InvestigatingType, PersistType, SetTaskType, LaunchType, UnchangedTypes
  <2> QED BY <2>1, <2>2 DEF Recheck
<1>2. LockOK' /\ WorldOK' /\ (firing \in [Problem -> BOOLEAN])' /\ (restarts \in Nat)'
  BY UnchangedTypes DEF Recheck
<1> QED BY <1>1, <1>2, TypeParts, RestParts

\* Type correctness across Investigated.
LEMMA InvestigatedType ==
    ASSUME TypeOK, NEW i \in Incident, Investigated(i) PROVE TypeOK'
<1>0. /\ task(i).obj \in Record
      /\ [task(i) EXCEPT !.pc = "analysing"] \in Task
      /\ Engine \in Writer
  BY LocalTypes, TaskFields, TaskTypes DEF Writer, PC, EnginePC
<1> QED BY <1>0, PersistType, SetTaskType, UnchangedTypes, KeepTypes DEF Investigated

\* Type correctness across Analysed.
LEMMA AnalysedType ==
    ASSUME TypeOK, NEW i \in Incident, Analysed(i) PROVE TypeOK'
<1> DEFINE t == task(i)
           rec == [t.obj EXCEPT !.status = "remediating", !.diagnosed = TRUE]
<1>0. t \in Task /\ t.obj \in Record /\ Engine \in Writer
  BY LocalTypes, TaskFields DEF Writer
<1>1. rec \in Record
  BY <1>0 DEF Record, Status, ActiveStatus
<1>2. PICK plans \in Candidates(rec) :
         IF plans = {}
         THEN Deepen(i, rec, "no_safe_action")
         ELSE /\ Persist(i, rec)
              /\ SetTask(i, Engine, [t EXCEPT !.pc = "waiting", !.obj = rec,
                                              !.plans = plans, !.ran = FALSE])
  BY DEF Analysed
<1>3. StoreOK' /\ RunOK'
  <2>1. CASE plans = {}
    BY <1>1, <1>2, <2>1, DeepenType DEF EscalationReason
  <2>2. CASE plans # {}
    <3>1. plans \in SUBSET Action
      BY <1>2 DEF Candidates
    <3>2. [t EXCEPT !.pc = "waiting", !.obj = rec, !.plans = plans,
                    !.ran = FALSE] \in Task
      BY <1>0, <1>1, <3>1, TaskTypes DEF PC, EnginePC
    <3> QED BY <1>0, <1>1, <1>2, <2>2, <3>2, PersistType, SetTaskType
  <2> QED BY <2>1, <2>2
<1> QED BY <1>3, UnchangedTypes, KeepTypes DEF Analysed

\* Type correctness across TryCandidate.
LEMMA TryCandidateType ==
    ASSUME TypeOK, NEW i \in Incident, TryCandidate(i) PROVE TypeOK'
<1> DEFINE t == task(i)
           d == Target(i)
<1>0. /\ t \in Task
      /\ t.obj \in Record
      /\ t.plans \in SUBSET Action
      /\ t.ran \in BOOLEAN
      /\ Engine \in Writer
      /\ clock[d] \in Nat
  BY LocalTypes, TaskFields DEF Writer
<1>1. PICK act \in t.plans :
         \/ NextCycle(i, t.obj) /\ UNCHANGED <<lock, worldVars>>
         \/ NextCandidate(i, t.obj, act, t.ran) /\ UNCHANGED <<lock, worldVars>>
         \/ /\ Conclude(i, Escalate(t.obj, "remediation_error"))
            /\ lock' = [lock EXCEPT ![d] = i]
            /\ UNCHANGED worldVars
         \/ /\ StartAction(i)
            /\ lock' = [lock EXCEPT ![d] = i]
            /\ SetTask(i, Engine, [t EXCEPT !.pc = "executing", !.act = act,
                                            !.at = clock[d] + 1])
            /\ UNCHANGED <<store, deep>>
  BY DEF TryCandidate
<1>2. act \in Action
  BY <1>0, <1>1
<1>3. StoreOK' /\ RunOK' /\ LockOK' /\ WorldOK'
  <2>1. CASE NextCycle(i, t.obj) /\ UNCHANGED <<lock, worldVars>>
    BY <1>0, <2>1, NextCycleType, UnchangedTypes
  <2>2. CASE NextCandidate(i, t.obj, act, t.ran) /\ UNCHANGED <<lock, worldVars>>
    BY <1>0, <1>2, <2>2, NextCandidateType, UnchangedTypes
  <2>3. CASE /\ Conclude(i, Escalate(t.obj, "remediation_error"))
             /\ lock' = [lock EXCEPT ![d] = i]
             /\ UNCHANGED worldVars
    <3>1. Escalate(t.obj, "remediation_error") \in Record
      BY <1>0, RecordTypes DEF EscalationReason
    <3> QED BY <2>3, <3>1, ConcludeType, LockTypes, UnchangedTypes
  <2>4. CASE /\ StartAction(i)
             /\ lock' = [lock EXCEPT ![d] = i]
             /\ SetTask(i, Engine, [t EXCEPT !.pc = "executing", !.act = act,
                                             !.at = clock[d] + 1])
             /\ UNCHANGED <<store, deep>>
    <3>0. clock[d] + 1 \in Nat
      BY <1>0
    <3>1. [t EXCEPT !.pc = "executing", !.act = act, !.at = clock[d] + 1]
             \in Task
      BY <1>0, <1>2, <3>0, TaskTypes DEF PC, EnginePC
    <3>2. (deep \in [Incident -> [Proposal -> Nat]])'
      BY <2>4 DEF TypeOK
    <3> QED BY <1>0, <2>4, <3>1, <3>2, SetTaskType, StartTypes, LockTypes, UnchangedTypes
            DEF WorldOK
  <2> QED BY <1>1, <2>1, <2>2, <2>3, <2>4
<1> QED BY <1>3, UnchangedTypes, KeepTypes DEF TryCandidate

\* Type correctness across Executed.
LEMMA ExecutedType ==
    ASSUME TypeOK, NEW i \in Incident, Executed(i), task(i).act \in Action
    PROVE  TypeOK'
<1> DEFINE t == task(i)
           rec == WithResult(t.obj, t.act, t.at)
           validating == [rec EXCEPT !.status = "validating"]
<1>0. t \in Task /\ t.obj \in Record /\ t.at \in Nat /\ Engine \in Writer
  BY LocalTypes, TaskFields DEF Writer
<1>1. rec \in Record
  BY <1>0, RecordTypes
<1>2. validating \in Record
  BY <1>1, RecordTypes DEF Status, ActiveStatus
<1>3. CASE /\ Persist(i, rec)
           /\ SetTask(i, Engine, [t EXCEPT !.pc = "validating", !.ran = TRUE,
                                           !.obj = validating])
           /\ UNCHANGED lock
  <2>1. [t EXCEPT !.pc = "validating", !.ran = TRUE, !.obj = validating]
           \in Task
    BY <1>0, <1>2, TaskTypes DEF PC, EnginePC
  <2> QED BY <1>0, <1>1, <1>3, <2>1, PersistType, SetTaskType, UnchangedTypes, KeepTypes
          DEF Executed
<1>4. CASE NextCandidate(i, rec, t.act, TRUE) /\ Release(i)
  BY <1>1, <1>4, NextCandidateType, LockTypes, UnchangedTypes, KeepTypes DEF Executed
<1>5. CASE EndOfCycle(i, rec, TRUE) /\ Release(i)
  BY <1>1, <1>5, EndOfCycleType, LockTypes, UnchangedTypes, KeepTypes DEF Executed
<1> QED BY <1>3, <1>4, <1>5 DEF Executed

\* Type correctness across Validated.
LEMMA ValidatedType ==
    ASSUME TypeOK, NEW i \in Incident, Validated(i) PROVE TypeOK'
<1>0. task(i).obj \in Record
  BY LocalTypes, TaskFields
<1>1. [task(i).obj EXCEPT !.status = "resolved"] \in Record
  BY <1>0, RecordTypes DEF Status, ClosedStatus
<1> QED BY <1>0, <1>1, ConcludeType, EndOfCycleType, LockTypes, UnchangedTypes, KeepTypes
        DEF Validated

\* Every outcome of a deep investigation is a record.
LEMMA DeepOutcomesType ==
    ASSUME NEW rec \in Record PROVE DeepOutcomes(rec) \in SUBSET Record
<1>1. Dig(rec) \in Record
  BY DEF Dig, Record
<1>2. \A p \in Proposal, s \in ProposalStatus : Propose(rec, p, s) \in Record
  BY <1>1 DEF Propose, Record
<1>3. Verdicts(rec) \in SUBSET ProposalStatus
  BY DEF Verdicts, ProposalStatus
<1> QED BY <1>1, <1>2, <1>3 DEF DeepOutcomes

\* Type correctness across Dug.
LEMMA DugType ==
    ASSUME TypeOK, NEW i \in Incident, Dug(i), task(i).why \in EscalationReason
    PROVE  TypeOK'
<1>0. task(i).obj \in Record
  BY LocalTypes, TaskFields
<1>1. PICK rec \in DeepOutcomes(task(i).obj) :
         Conclude(i, Escalate(rec, task(i).why))
  BY DEF Dug
<1>2. Escalate(rec, task(i).why) \in Record
  BY <1>0, DeepOutcomesType, RecordTypes
<1> QED BY <1>1, <1>2, ConcludeType, UnchangedTypes, KeepTypes DEF Dug

\* Type correctness across Suggested.
LEMMA SuggestedType ==
    ASSUME TypeOK, NEW i \in Incident, Suggested(i) PROVE TypeOK'
<1>0. task(i).obj \in Record /\ Engine \in Writer
  BY LocalTypes, TaskFields DEF Writer
<1>1. UNCHANGED store \/ \E rec \in DeepOutcomes(task(i).obj) : Persist(i, rec)
  BY DEF Suggested
<1>2. \A rec \in DeepOutcomes(task(i).obj) : rec \in Record
  BY <1>0, DeepOutcomesType
<1> QED BY <1>0, <1>1, <1>2, PersistType, LeaseType, UnchangedTypes, KeepTypes DEF Suggested

\* The object an exception leaves is one of those a dig may leave, or the same.
LEMMA StoppedType ==
    ASSUME NEW t, t.obj \in Record
    PROVE  /\ Stopped(t) \in Record
           /\ Stopped(t) \in DeepOutcomes(t.obj) \/ Stopped(t) = t.obj
<1>1. Stopped(t) \in DeepOutcomes(t.obj) \/ Stopped(t) = t.obj
  BY DEF Stopped, DeepOutcomes
<1> QED BY <1>1, DeepOutcomesType

\* Type correctness across InternalError.
LEMMA InternalErrorType ==
    ASSUME TypeOK, NEW i \in Incident, InternalError(i) PROVE TypeOK'
<1>0. task(i).obj \in Record
  BY LocalTypes, TaskFields
<1>1. Escalate(Stopped(task(i)), "internal_error") \in Record
  BY <1>0, StoppedType, RecordTypes DEF EscalationReason
<1> QED BY <1>1, ConcludeType, LockTypes, UnchangedTypes, KeepTypes DEF InternalError

\* Type correctness across Finished.
LEMMA FinishedType ==
    ASSUME TypeOK, NEW i \in Incident, Finished(i) PROVE TypeOK'
<1>0. task(i).obj \in Record /\ Engine \in Writer
  BY LocalTypes, TaskFields DEF Writer
<1> QED BY <1>0, PersistType, LeaseType, LockTypes, UnchangedTypes, KeepTypes DEF Finished

-----------------------------------------------------------------------------
\* Type correctness across Create.
LEMMA CreateType ==
    ASSUME TypeOK, NEW i \in Incident, create(i)
    PROVE  StoreOK' /\ RunOK' /\ LiveOK' /\ LaunchedOK'
<1>0. NewIncident \in Record /\ Engine \in Writer
  BY BlankType DEF NewIncident, Status, ActiveStatus, Writer
<1>1. At("queued", "lifecycle", NewIncident) \in Task
  BY <1>0, AtType DEF PC, EnginePC, Job
<1> QED BY <1>0, <1>1, PersistType, SetTaskType, LeaseType, LaunchType DEF create, spawn

\* Type correctness across JoinEscalated.
LEMMA JoinEscalatedType ==
    ASSUME TypeOK, NEW i \in Incident, NEW rec \in Record, join_escalated(i, rec)
    PROVE  StoreOK' /\ RunOK' /\ LiveOK' /\ LaunchedOK'
<1>0. Engine \in Writer
  BY DEF Writer
<1>1. At("queued", "recheck", rec) \in Task
  BY AtType DEF PC, EnginePC, Job
<1> QED BY <1>0, <1>1, PersistType, SetTaskType, LeaseType, UnchangedTypes
        DEF join_escalated, spawn

\* The object of the lease holder is a record.
LEMMA LiveObjectType ==
    ASSUME TypeOK, NEW i \in Incident, live[i] # Nobody
    PROVE  LiveObject(i) \in Record
<1>1. live[i] \in Writer
  BY DEF TypeOK
<1> QED BY <1>1, LocalTypes, TaskFields DEF LiveObject

\* Type correctness across HandleAlert.
LEMMA HandleAlertType ==
    ASSUME TypeOK, NEW p \in Problem, handle_alert(p) PROVE TypeOK'
<1>1. StoreOK' /\ RunOK' /\ LiveOK' /\ LaunchedOK'
  <2>1. CASE <<p, 1>> \in Incident /\ create(<<p, 1>>)
    BY <2>1, CreateType
  <2>2. ASSUME NEW i \in Incident,
               \/ join_running(i)
               \/ join_escalated(i, store[i])
               \/ join_escalated(i, interrupt(store[i]))
               \/ absorb_after_resolution(i)
               \/ /\ i[1] = p
                  /\ i[2] < MaxOccurrences
                  /\ create(<<p, i[2] + 1>>)
        PROVE  StoreOK' /\ RunOK' /\ LiveOK' /\ LaunchedOK'
    <3>0. store[i] \in Record /\ interrupt(store[i]) \in Record
      BY LocalTypes, RecordTypes
    <3>1. CASE join_running(i)
      BY <3>1, LiveObjectType, PersistType, UnchangedTypes DEF join_running
    <3>2. CASE join_escalated(i, store[i])
      BY <3>0, <3>2, JoinEscalatedType
    <3>3. CASE join_escalated(i, interrupt(store[i]))
      BY <3>0, <3>3, JoinEscalatedType
    <3>4. CASE absorb_after_resolution(i)
      BY <3>4, UnchangedTypes DEF absorb_after_resolution
    <3>5. CASE i[1] = p /\ i[2] < MaxOccurrences /\ create(<<p, i[2] + 1>>)
      <4>1. i[2] \in 1..MaxOccurrences
        BY DEF Incident
      <4>2. i[2] + 1 \in 1..MaxOccurrences
        BY <3>5, <4>1, RecordAssumption
      <4>3. <<p, i[2] + 1>> \in Incident
        BY <4>2 DEF Incident
      <4> QED BY <3>5, <4>3, CreateType
    <3> QED BY <2>2, <3>1, <3>2, <3>3, <3>4, <3>5
  <2> QED BY <2>1, <2>2 DEF handle_alert
<1>2. (firing \in [Problem -> BOOLEAN])'
  BY DEF TypeOK, handle_alert
<1> QED BY <1>1, <1>2, UnchangedTypes, TypeParts, RestParts DEF handle_alert

\* Closing or noting keeps the type of the store.
LEMMA CloseType ==
    ASSUME TypeOK, NEW i \in Incident, close_unless_running(i) PROVE StoreOK'
<1>1. [store[i] EXCEPT !.status = "auto_resolved"] \in Record
  BY LocalTypes, RecordTypes DEF Status, ClosedStatus
<1> QED BY <1>1, LiveObjectType, PersistType, UnchangedTypes DEF close_unless_running

\* Type correctness across HandleResolved.
LEMMA HandleResolvedType ==
    ASSUME TypeOK, NEW p \in Problem, handle_resolved(p) PROVE TypeOK'
<1>1. StoreOK'
  BY CloseType, UnchangedTypes DEF handle_resolved
<1>2. (firing \in [Problem -> BOOLEAN])'
  BY DEF TypeOK, handle_resolved
<1> QED BY <1>1, <1>2, UnchangedTypes, TypeParts, RestParts DEF handle_resolved

\* Type correctness across AutoResolve.
LEMMA AutoResolveType ==
    ASSUME TypeOK, NEW i \in Incident, auto_resolve_incident(i) PROVE TypeOK'
  BY CloseType, UnchangedTypes, TypeParts, RestParts DEF auto_resolve_incident

\* Recovery leaves well-typed records, leases, tasks and launches.
LEMMA RecoverType ==
    ASSUME TypeOK, recover_interrupted
    PROVE  StoreOK' /\ RunOK' /\ LiveOK' /\ LaunchedOK'
<1>0. \A i \in Incident : /\ store[i] \in Record
                          /\ Recovered(store[i]) \in Record
                          /\ Resume(store[i]) \in Record
                          /\ launched[i] \in Nat
  BY LocalTypes, RecordTypes DEF Recovered, TypeOK
<1>1. StoreOK'
  BY <1>0 DEF recover_interrupted, StoreOK
<1>2. RunOK'
  <2>1. \A i \in Incident : At("queued", "lifecycle", Resume(store[i])) \in Task
    BY <1>0, AtType DEF PC, EnginePC, Job
  <2> QED BY <2>1, IdleType DEF recover_interrupted, RunOK
<1>3. LiveOK'
  BY DEF recover_interrupted, LiveOK, Writer
<1>4. LaunchedOK'
  <2>1. \A i \in Incident : launched[i] + 1 \in Nat
    BY <1>0
  <2> QED BY <1>0, <2>1 DEF recover_interrupted, LaunchedOK
<1> QED BY <1>1, <1>2, <1>3, <1>4

\* Type correctness across a restart.
LEMMA CrashType ==
    ASSUME TypeOK, CrashAndRestart PROVE TypeOK'
<1>1. LockOK' /\ (restarts \in Nat)'
  BY DEF TypeOK, CrashAndRestart, LockOK
<1> QED BY <1>1, RecoverType, UnchangedTypes, TypeParts, RestParts DEF CrashAndRestart

-----------------------------------------------------------------------------
\* Type correctness across Request.
LEMMA RequestType ==
    ASSUME TypeOK, NEW i \in Incident, Request(i) PROVE TypeOK'
<1>0. store[i] \in Record /\ Engine \in Writer
  BY LocalTypes DEF Writer
<1>1. CASE reinvestigate(i)
  <2>1. At("queued", "forced", store[i]) \in Task
    BY <1>0, AtType DEF PC, EnginePC, Job
  <2> QED BY <1>0, <1>1, <2>1, SetTaskType, LeaseType, UnchangedTypes, KeepTypes
          DEF reinvestigate, spawn
<1>2. CASE suggest_fix(i)
  <2>1. At("queued", "suggest", store[i]) \in Task
    BY <1>0, AtType DEF PC, EnginePC, Job
  <2> QED BY <1>0, <1>2, <2>1, SetTaskType, LeaseType, UnchangedTypes, KeepTypes
          DEF suggest_fix, spawn
<1>3. ASSUME NEW a \in Admin, authorize_incident(i, a) PROVE TypeOK'
  <2>1. At("read", "authorize", store[i]) \in Task /\ a \in Writer
    BY <1>0, AtType DEF PC, AdminPC, Job, Writer
  <2> QED BY <1>3, <2>1, SetTaskType, UnchangedTypes, KeepTypes DEF authorize_incident
<1>4. ASSUME NEW a \in Admin, authorize_deep_proposal(i, a) PROVE TypeOK'
  <2>1. At("read", "authorize_deep", store[i]) \in Task /\ a \in Writer
    BY <1>0, AtType DEF PC, AdminPC, Job, Writer
  <2>2. \A p \in Proposal :
           [At("read", "authorize_deep", store[i]) EXCEPT !.prop = p] \in Task
    BY <2>1 DEF Task
  <2> QED BY <1>4, <2>1, <2>2, SetTaskType, UnchangedTypes, KeepTypes
          DEF authorize_deep_proposal
<1>5. ASSUME NEW a \in Admin, reject_deep_proposal(i, a) PROVE TypeOK'
  <2>1. Absent \in Record
    BY BlankType DEF Absent
  <2>2. At("checked", "reject", Absent) \in Task /\ a \in Writer
    BY <2>1, AtType DEF PC, AdminPC, Job, Writer
  <2> QED BY <1>5, <2>2, SetTaskType, UnchangedTypes, KeepTypes DEF reject_deep_proposal
<1> QED BY <1>1, <1>2, <1>3, <1>4, <1>5 DEF Request

\* Marking a proposal yields a record.
LEMMA MarkType ==
    ASSUME NEW t \in Task, NEW rec \in Record, NEW s \in ProposalStatus
    PROVE  Mark(t, rec, s) \in Record
<1>1. \A p : [rec EXCEPT !.proposals[p] = s] \in Record
  BY DEF Record
<1> QED BY <1>1 DEF Mark

\* Type correctness across Decline.
LEMMA DeclineType ==
    ASSUME TypeOK, NEW i \in Incident, NEW a \in Admin, NEW rec \in Record,
           Decline(i, a, rec)
    PROVE  StoreOK' /\ RunOK' /\ LiveOK'
<1>1. Returned(rec) \in Record /\ a \in Writer
  BY RecordTypes DEF Writer
<1> QED BY <1>1, PersistType, LeaseType DEF Decline

\* Type correctness across Granted.
LEMMA GrantedType ==
    ASSUME TypeOK, NEW i \in Incident, NEW a \in Admin, Granted(i, a)
    PROVE  TypeOK'
<1>0. a \in Writer /\ run[i][a] \in Task
  BY LocalTypes DEF Writer
<1>1. [run[i][a] EXCEPT !.pc = "granted"] \in Task
  BY <1>0, TaskTypes DEF PC, AdminPC
<1> QED BY <1>0, <1>1, IdleType, SetTaskType, LeaseType, UnchangedTypes, KeepTypes
        DEF Granted

\* Type correctness across Authorised.
LEMMA AuthorisedType ==
    ASSUME TypeOK, NEW i \in Incident, NEW a \in Admin, Authorised(i, a)
    PROVE  TypeOK'
<1>0. a \in Writer /\ run[i][a] \in Task
  BY LocalTypes DEF Writer
<1>1. [run[i][a] EXCEPT !.pc = "auth_investigating",
                        !.obj.status = "investigating"] \in Task
  BY <1>0 DEF Task, Record, AdminPC, Status, ActiveStatus
<1> QED BY <1>0, <1>1, SetTaskType, LeaseType, UnchangedTypes, KeepTypes DEF Authorised

\* Counting a deep execution keeps the type of deep.
LEMMA CountDeepType ==
    ASSUME TypeOK, NEW i \in Incident, NEW t \in Task, CountDeep(t, i)
    PROVE  (deep \in [Incident -> [Proposal -> Nat]])'
<1>1. \A p \in Proposal : (IF deep[i][p] > 1 THEN deep[i][p] ELSE deep[i][p] + 1) \in Nat
  <2> TAKE p \in Proposal
  <2>1. deep[i][p] \in Nat
    BY DEF TypeOK
  <2> QED BY <2>1
<1>2. deep \in [Incident -> [Proposal -> Nat]]
  BY DEF TypeOK
<1> QED BY <1>1, <1>2 DEF CountDeep

\* Type correctness across AuthChecked.
LEMMA AuthCheckedType ==
    ASSUME TypeOK, NEW i \in Incident, NEW a \in Admin, AuthChecked(i, a)
    PROVE  TypeOK'
<1> DEFINE t == run[i][a]
           d == Target(i)
<1>0. a \in Writer /\ t \in Task /\ t.obj \in Record /\ clock[d] \in Nat
  BY LocalTypes, TaskFields DEF Writer
<1>1. CASE \E rec \in {Mark(t, t.obj, "rejected"), t.obj} :
              Decline(i, a, rec) /\ UNCHANGED worldVars
  <2>1. \A rec \in {Mark(t, t.obj, "rejected"), t.obj} : rec \in Record
    BY <1>0, MarkType DEF ProposalStatus
  <2>2. UNCHANGED lock /\ Keep
    BY DEF AuthChecked
  <2> QED BY <1>1, <2>1, <2>2, DeclineType, UnchangedTypes, KeepTypes
<1>2. CASE LET rec == Returned(Mark(t, t.obj, "failed")) IN
           /\ Persist(i, rec)
           /\ SetTask(i, a, [t EXCEPT !.pc = "finishing", !.obj = rec])
           /\ UNCHANGED <<live, worldVars>>
  <2> DEFINE rec == Returned(Mark(t, t.obj, "failed"))
  <2>1. rec \in Record
    BY <1>0, MarkType, RecordTypes DEF ProposalStatus
  <2>2. [t EXCEPT !.pc = "finishing", !.obj = rec] \in Task
    BY <1>0, <2>1, TaskTypes DEF PC, AdminPC
  <2>3. UNCHANGED lock /\ Keep
    BY DEF AuthChecked
  <2> QED BY <1>0, <1>2, <2>1, <2>2, <2>3, PersistType, SetTaskType,
             UnchangedTypes, KeepTypes
<1>3. ASSUME StartAction(i), CountDeep(t, i), UNCHANGED live,
             NEW act \in Action, Persist(i, Started(t)),
             SetTask(i, a, [t EXCEPT !.pc = "auth_executing", !.obj = Started(t),
                                     !.act = act, !.at = clock[d] + 1])
      PROVE  TypeOK'
  <2>1. Started(t) \in Record
    BY <1>0, MarkType DEF Started, ProposalStatus
  <2>2. clock[d] + 1 \in Nat
    BY <1>0
  <2>3. [t EXCEPT !.pc = "auth_executing", !.obj = Started(t), !.act = act,
                  !.at = clock[d] + 1] \in Task
    BY <1>0, <2>1, <2>2, TaskTypes DEF PC, AdminPC
  <2>4. WorldOK'
    BY <1>0, <1>3, StartTypes, CountDeepType DEF WorldOK
  <2>5. UNCHANGED lock /\ Keep
    BY DEF AuthChecked
  <2> QED BY <1>0, <1>3, <2>1, <2>3, <2>4, <2>5, PersistType, SetTaskType,
             UnchangedTypes, KeepTypes
<1> QED BY <1>1, <1>2, <1>3 DEF AuthChecked

\* Type correctness across AuthExecuted.
LEMMA AuthExecutedType ==
    ASSUME TypeOK, NEW i \in Incident, NEW a \in Admin, AuthExecuted(i, a),
           run[i][a].act \in Action
    PROVE  TypeOK'
<1> DEFINE t == run[i][a]
           done == AuthRecord(t)
           marked == [Mark(t, done, "executed") EXCEPT !.status = "validating"]
           failed == Returned(Mark(t, done, "failed"))
<1>0. a \in Writer /\ t \in Task /\ t.obj \in Record /\ t.at \in Nat
  BY LocalTypes, TaskFields DEF Writer
<1>1. done \in Record
  BY <1>0, RecordTypes DEF AuthRecord
<1>2. marked \in Record /\ failed \in Record
  BY <1>0, <1>1, MarkType, RecordTypes DEF ProposalStatus, Status, ActiveStatus
<1>3. /\ [t EXCEPT !.pc = "auth_validating", !.obj = marked] \in Task
      /\ [t EXCEPT !.pc = "finishing", !.obj = failed] \in Task
  BY <1>0, <1>2, TaskTypes DEF PC, AdminPC
<1>4. Returned(done) \in Record
  BY <1>1, RecordTypes DEF Status, ActiveStatus
<1>5. StoreOK' /\ RunOK' /\ LiveOK'
  BY <1>0, <1>1, <1>2, <1>3, <1>4, PersistType, SetTaskType, LeaseType,
     UnchangedTypes DEF AuthExecuted, Decline
<1> QED BY <1>5, UnchangedTypes, KeepTypes DEF AuthExecuted

\* Type correctness across AuthValidated.
LEMMA AuthValidatedType ==
    ASSUME TypeOK, NEW i \in Incident, NEW a \in Admin, AuthValidated(i, a)
    PROVE  TypeOK'
<1> DEFINE t == run[i][a]
           ends == {[Mark(t, t.obj, "validated") EXCEPT !.status = "resolved"],
                    Returned(Mark(t, t.obj, "failed"))}
<1>0. a \in Writer /\ t \in Task /\ t.obj \in Record
  BY LocalTypes, TaskFields DEF Writer
<1>1. \A rec \in ends : rec \in Record
  BY <1>0, MarkType, RecordTypes DEF ProposalStatus, Status, ClosedStatus
<1>2. \A rec \in ends : [t EXCEPT !.pc = "finishing", !.obj = rec] \in Task
  BY <1>0, <1>1, TaskTypes DEF PC, AdminPC
<1>3. StoreOK' /\ RunOK' /\ LiveOK'
  BY <1>0, <1>1, <1>2, PersistType, SetTaskType, DeclineType, UnchangedTypes
  DEF AuthValidated
<1> QED BY <1>3, UnchangedTypes, KeepTypes DEF AuthValidated

\* Type correctness across AuthFinished.
LEMMA AuthFinishedType ==
    ASSUME TypeOK, NEW i \in Incident, NEW a \in Admin, AuthFinished(i, a)
    PROVE  TypeOK'
<1>0. a \in Writer /\ run[i][a].obj \in Record
  BY LocalTypes, TaskFields DEF Writer
<1> QED BY <1>0, PersistType, LeaseType, UnchangedTypes, KeepTypes DEF AuthFinished

\* Type correctness across the three steps of a rejection.
LEMMA RejectType ==
    ASSUME TypeOK, NEW i \in Incident, NEW a \in Admin,
           RejectReads(i, a) \/ RejectWrites(i, a)
    PROVE  TypeOK'
<1>0. a \in Writer /\ store[i] \in Record /\ run[i][a].obj \in Record
  BY LocalTypes, TaskFields DEF Writer
<1>1. \A p \in Proposal :
         [At("read", "reject", store[i]) EXCEPT !.prop = p] \in Task
  <2>1. At("read", "reject", store[i]) \in Task
    BY <1>0, AtType DEF PC, AdminPC, Job
  <2> QED BY <2>1 DEF Task
<1>2. [run[i][a].obj EXCEPT !.proposals[run[i][a].prop] = "rejected"] \in Record
  BY <1>0 DEF Record, ProposalStatus
<1>3. CASE RejectReads(i, a)
  BY <1>0, <1>1, <1>3, IdleType, SetTaskType, UnchangedTypes, KeepTypes DEF RejectReads
<1>4. CASE RejectWrites(i, a)
  BY <1>0, <1>2, <1>4, IdleType, PersistType, SetTaskType, UnchangedTypes, KeepTypes
  DEF RejectWrites
<1> QED BY <1>3, <1>4
=============================================================================
