---------------------------- MODULE IncidentLedger ----------------------------
(***************************************************************************)
(* What the record of an incident says, what its task knows and what was   *)
(* really done, held together: the proofs that the engine's budgets, its   *)
(* audit trail and its terminal states hold for every number of problems,  *)
(* occurrences, actions, slots, cycles and restarts, as long as no         *)
(* administrator works on a stale copy of a record.                        *)
(***************************************************************************)
EXTENDS IncidentLease

(***************************************************************************)
(* The requests under which the engine keeps its budgets: suggest_fix is   *)
(* always harmless; a forced re-run is, unless a restart has made the      *)
(* record forget an action.                                                *)
(***************************************************************************)
Unattended ==
    \/ HumanOps \subseteq {"suggest"}
    \/ HumanOps \subseteq {"suggest", "reinvestigate"} /\ MaxRestarts = 0

\* Two records that agree on everything that is counted.
SameBooks(r, s) ==
    /\ r.count = s.count /\ r.tried = s.tried /\ r.stamp = s.stamp
    /\ r.reopens = s.reopens /\ r.resumed = s.resumed

\* Within the budgets, for l launches.
Budgeted(r, l) ==
    /\ r.count <= Cap /\ r.reopens <= MaxReopens
    /\ l <= 1 + r.reopens + (IF r.resumed THEN 1 ELSE 0)

\* What was done, n actions and the newest at k, is what the record says.
Even(r, n, k) == n = r.count /\ k = r.stamp

\* A restart met an action under way: the record does not count it, and is
\* never acted on again.  q is the number of restarts.
Lost(r, n, q) ==
    /\ q > 0 /\ n = r.count + 1 /\ n <= Cap
    /\ r.status \in {"escalated", "auto_resolved"}
    /\ r.reason = "interrupted_by_restart"

AtRest(s, n, k, q) == ~IsActive(s) /\ (Even(s, n, k) \/ Lost(s, n, q))

Recheckable(s) == s.status = "escalated" /\ MayReconsider(s)

Queued(s, t, n, k, q) ==
    \/ t.job = "lifecycle" /\ s.status = "open" /\ s.count = 0 /\ Even(s, n, k)
    \/ t.job = "recheck" /\ Recheckable(s) /\ Even(s, n, k)
    \/ /\ t.job = "forced" /\ "reinvestigate" \in HumanOps
       /\ s.status = "escalated" /\ Even(s, n, k)
    \/ t.job = "suggest" /\ AtRest(s, n, k, q)

Working == {"investigating", "analysing", "validating", "digging"}

\* The stored record s and the task t of an incident that is worked on.
Busy(s, t, n, k, q) ==
    \/ t.pc = "queued" /\ t.obj = s /\ Queued(s, t, n, k, q)
    \/ t.pc = "rechecking" /\ t.obj = s /\ Recheckable(s) /\ Even(s, n, k)
    \/ /\ t.pc = "suggesting" /\ AtRest(s, n, k, q)
       /\ t.obj.status = s.status /\ t.obj.reason = s.reason
    \/ /\ t.pc \in Working /\ IsActive(s) /\ IsActive(t.obj) /\ Even(s, n, k)
       /\ t.pc = "validating" => n > 0
    \/ /\ t.pc = "waiting" /\ s.status = "remediating"
       /\ t.obj.status = "remediating" /\ Even(s, n, k)
    \/ /\ t.pc = "executing" /\ s.status = "remediating"
       /\ t.obj.status = "remediating"
       /\ n = s.count + 1 /\ n <= Cap /\ k = t.at
    \/ /\ t.pc = "finishing" /\ s.status = t.obj.status
       /\ s.status \in {"escalated", "resolved"} /\ Even(s, n, k)

Fits(s, v, t, n, k, l, q) ==
    \/ s = Absent /\ v = Nobody /\ n = 0 /\ k = 0 /\ l = 0
    \/ /\ s.status # "absent" /\ Budgeted(s, l)
       /\ v = Nobody /\ AtRest(s, n, k, q)
    \/ /\ s.status # "absent" /\ Budgeted(s, l)
       /\ v = Engine /\ SameBooks(t.obj, s) /\ Busy(s, t, n, k, q)

Ledger(i) ==
    Fits(store[i], live[i], task(i), acted[i], newest[i], launched[i], restarts)

AdminsIdle == \A i \in Incident : \A a \in Admin : run[i][a] = Idle

LedgerInv ==
    /\ LeaseInv
    /\ AdminsIdle
    /\ restarts <= MaxRestarts
    /\ \A i \in Incident : Ledger(i)
    /\ OneOpenPerProblem

-----------------------------------------------------------------------------
(***************************************************************************)
(* What a step does to the books.                                          *)
(***************************************************************************)
\* Closed stays closed, and nothing that was counted is forgotten.
Later(r, s) ==
    /\ IsClosed(r) => s.status = r.status
    /\ r.count <= s.count /\ r.tried \subseteq s.tried

\* What the step means for the promise: the phase of the incident from p to q,
\* what was done for it from m to n.
Advance(p, q, m, n) ==
    \/ q = p /\ n = m
    \/ p = "absent" /\ q = "working" /\ n = m
    \/ p = "working" /\ q = p /\ m < Cap /\ n = m + 1
    \/ p = "working" /\ q = "waiting" /\ n = m
    \/ p = "working" /\ q = "closed" /\ m > 0 /\ n = m
    \/ p = "waiting" /\ q = "closed" /\ n = m
    \/ /\ p = "waiting" /\ q = "working" /\ n = m
       /\ m = 0 \/ "reinvestigate" \in HumanOps

Phase(i) == PhaseOf(Known(i))

\* What is kept of incident i becomes this, and nothing else changes.
Becomes(i, s, v, t, n, k, l) ==
    /\ \A j \in Incident :
          /\ store'[j] = (IF j = i THEN s ELSE store[j])
          /\ live'[j] = (IF j = i THEN v ELSE live[j])
          /\ acted'[j] = (IF j = i THEN n ELSE acted[j])
          /\ newest'[j] = (IF j = i THEN k ELSE newest[j])
          /\ launched'[j] = (IF j = i THEN l ELSE launched[j])
          /\ \A w \in Writer :
                run'[j][w] = IF j = i /\ w = Engine THEN t ELSE run[j][w]
    /\ UNCHANGED restarts

\* A step of incident i leaves the others alone and the books of i right.
Entry(i) ==
    /\ \A j \in Incident \ {i} :
          /\ store'[j] = store[j] /\ acted'[j] = acted[j]
          /\ Ledger(j)' /\ Phase(j)' = Phase(j)
    /\ AdminsIdle' /\ UNCHANGED restarts
    /\ Ledger(i)' /\ Later(store[i], store'[i])
    /\ Advance(Phase(i), Phase(i)', acted[i], acted'[i])

\* The fields of a task that has just been made.
LEMMA AtFacts ==
    ASSUME NEW pc, NEW job, NEW obj
    PROVE  /\ At(pc, job, obj).pc = pc /\ At(pc, job, obj).job = job
           /\ At(pc, job, obj).obj = obj
           /\ \A why : LET t == [At(pc, job, obj) EXCEPT !.why = why] IN
                        t.pc = pc /\ t.obj = obj
  BY DEF At, Idle

\* and of a cycle that has just begun.
LEMMA InvestigatingFacts ==
    ASSUME NEW i, NEW rec, NEW c
    PROVE  /\ Investigating(i, rec, c).pc = "investigating"
           /\ Investigating(i, rec, c).obj = [rec EXCEPT !.status = "investigating"]
  BY DEF Investigating, At, Idle

\* The statuses a record can have and the ones it then has not.
LEMMA StatusFacts ==
    ASSUME NEW r
    PROVE  /\ IsActive(r) => ~IsClosed(r) /\ r.status \notin {"absent", "escalated"}
           /\ r.status = "escalated" => ~IsClosed(r) /\ ~IsActive(r)
           /\ r.status \in {"open", "investigating", "remediating", "validating"}
                 => IsActive(r)
           /\ IsClosed(r) => r.status \in {"resolved", "auto_resolved"}
  BY DEF IsActive, IsClosed, ActiveStatus, ClosedStatus

\* Operators that change no count.
LEMMA SameBooksFacts ==
    ASSUME NEW r \in Record
    PROVE  /\ \A status : SameBooks([r EXCEPT !.status = status], r)
           /\ \A why : /\ SameBooks(Escalate(r, why), r)
                       /\ Escalate(r, why).status = "escalated"
           /\ SameBooks(Reopen(r), r) /\ Reopen(r).status = "investigating"
           /\ SameBooks(CountDig(r), r) /\ CountDig(r).status = r.status
           /\ CountDig(r).reason = r.reason
           /\ \A s \in DeepOutcomes(r) :
                 SameBooks(s, r) /\ s.status = r.status /\ s.reason = r.reason
  <1>1. /\ \A status : SameBooks([r EXCEPT !.status = status], r)
        /\ \A why : /\ SameBooks(Escalate(r, why), r)
                    /\ Escalate(r, why).status = "escalated"
        /\ SameBooks(Reopen(r), r) /\ Reopen(r).status = "investigating"
    BY DEF Record, SameBooks, Escalate, Reopen
  <1>2. /\ SameBooks(CountDig(r), r) /\ CountDig(r).status = r.status
        /\ CountDig(r).reason = r.reason
    BY DEF Record, SameBooks, CountDig
  <1>3. SameBooks(Dig(r), r) /\ Dig(r).status = r.status /\ Dig(r).reason = r.reason
    BY DEF Record, SameBooks, Dig
  <1>4. \A p, v : /\ SameBooks(Propose(r, p, v), r)
                 /\ Propose(r, p, v).status = r.status
                 /\ Propose(r, p, v).reason = r.reason
    BY DEF Record, SameBooks, Propose, Dig
  <1> QED
    BY <1>1, <1>2, <1>3, <1>4 DEF DeepOutcomes

\* Books that are the same are within the same budgets.
LEMMA SameBudget ==
    ASSUME NEW r, NEW s, SameBooks(r, s)
    PROVE  /\ \A l : Budgeted(s, l) => Budgeted(r, l)
           /\ \A n, k : Even(s, n, k) => Even(r, n, k)
           /\ SameBooks(s, r)
           /\ \A x : SameBooks(s, x) => SameBooks(r, x)
  BY DEF SameBooks, Budgeted, Even

\* The phase of a record is a matter of its status.
LEMMA PhaseFacts ==
    ASSUME NEW r
    PROVE  /\ r.status = "absent" => PhaseOf(r) = "absent"
           /\ IsActive(r) => PhaseOf(r) = "working"
           /\ r.status = "escalated" => PhaseOf(r) = "waiting"
           /\ IsClosed(r) => PhaseOf(r) = "closed"
           /\ \A s : s.status = r.status => PhaseOf(s) = PhaseOf(r)
  BY DEF PhaseOf, IsActive, IsClosed, ActiveStatus, ClosedStatus

\* Only the engine holds a lease, and then its copy is what is known.
LEMMA Holder ==
    ASSUME LedgerInv, NEW i \in Incident
    PROVE  /\ live[i] = Nobody \/ live[i] = Engine
           /\ live[i] = Engine => Known(i) = task(i).obj
           /\ live[i] = Nobody => Known(i) = store[i]
           /\ HoldsLease(task(i)) <=> live[i] = Engine
  <1>1. /\ Engine \in Writer /\ Engine \notin Admin /\ Nobody \notin Writer
        /\ Writer = Admin \cup {Engine}
    BY ManagerAssumption DEF Writer
  <1>2. live[i] \in Writer \cup {Nobody} /\ SingleWriter
    BY DEF LedgerInv, LeaseInv, TypeOK
  <1>3. ~HoldsLease(Idle)
    BY DEF HoldsLease, Idle
  <1>4. \A a \in Admin : live[i] # a
    BY <1>1, <1>2, <1>3 DEF LedgerInv, AdminsIdle, SingleWriter
  <1> QED
    BY <1>1, <1>2, <1>4 DEF Known, LiveObject, task, SingleWriter

\* What the invariant says of an incident the engine works on.
LEMMA Works ==
    ASSUME LedgerInv, NEW i \in Incident, HoldsLease(task(i))
    PROVE  /\ live[i] = Engine /\ Known(i) = task(i).obj
           /\ store[i].status # "absent" /\ Budgeted(store[i], launched[i])
           /\ SameBooks(task(i).obj, store[i])
           /\ Busy(store[i], task(i), acted[i], newest[i], restarts)
           /\ task(i) \in Task /\ task(i).obj \in Record /\ store[i] \in Record
           /\ TypeOK /\ AdminsIdle
  <1>1. live[i] = Engine /\ Known(i) = task(i).obj /\ Engine # Nobody
    BY Holder, ManagerAssumption
  <1>2. TypeOK /\ AdminsIdle /\ Ledger(i)
    BY DEF LedgerInv, LeaseInv
  <1>3. task(i) \in Task /\ task(i).obj \in Record /\ store[i] \in Record
    BY <1>2, LocalTypes, TaskFields
  <1> QED
    BY <1>1, <1>2, <1>3 DEF Ledger, Fits

\* What the invariant says of an incident nobody works on.
LEMMA Rests ==
    ASSUME LedgerInv, NEW i \in Incident, live[i] = Nobody
    PROVE  /\ Known(i) = store[i] /\ store[i] \in Record /\ TypeOK /\ AdminsIdle
           /\ \/ /\ store[i] = Absent /\ acted[i] = 0 /\ newest[i] = 0
                 /\ launched[i] = 0
              \/ /\ store[i].status # "absent" /\ Budgeted(store[i], launched[i])
                 /\ AtRest(store[i], acted[i], newest[i], restarts)
  <1>1. Known(i) = store[i] /\ Engine # Nobody
    BY Holder, ManagerAssumption
  <1>2. TypeOK /\ AdminsIdle /\ Ledger(i)
    BY DEF LedgerInv, LeaseInv
  <1>3. store[i] \in Record
    BY <1>2, LocalTypes
  <1> QED
    BY <1>1, <1>2, <1>3 DEF Ledger, Fits

\* and of one that exists.
LEMMA RestsThere ==
    ASSUME LedgerInv, NEW i \in Incident, live[i] = Nobody,
           store[i].status # "absent"
    PROVE  /\ Known(i) = store[i] /\ store[i] \in Record /\ TypeOK /\ AdminsIdle
           /\ Budgeted(store[i], launched[i])
           /\ AtRest(store[i], acted[i], newest[i], restarts)
  <1>1. Absent.status = "absent"
    BY DEF Absent, Blank
  <1> QED
    BY <1>1, Rests

\* A step that makes of incident i what fits is an entry.
LEMMA Enters ==
    ASSUME LedgerInv, NEW i \in Incident, NEW s, NEW v \in {Engine, Nobody},
           NEW t, NEW n, NEW k, NEW l,
           Becomes(i, s, v, t, n, k, l),
           Fits(s, v, t, n, k, l, restarts), Later(store[i], s),
           Advance(Phase(i), PhaseOf(IF v = Nobody THEN s ELSE t.obj), acted[i], n)
    PROVE  Entry(i)
  <1>1. /\ Engine \in Writer /\ Engine \notin Admin /\ Admin \subseteq Writer
        /\ Engine # Nobody /\ AdminsIdle
    BY ManagerAssumption DEF Writer, LedgerInv
  <1>2. AdminsIdle'
    BY <1>1 DEF AdminsIdle, Becomes
  <1>3. task(i)' = t /\ \A j \in Incident \ {i} : task(j)' = task(j)
    BY <1>1 DEF task, Becomes
  <1>4. Ledger(i)'
    BY <1>3 DEF Ledger, Becomes
  <1>5. ASSUME NEW j \in Incident \ {i}
        PROVE  /\ store'[j] = store[j] /\ acted'[j] = acted[j]
               /\ Ledger(j)' /\ Phase(j)' = Phase(j)
    <2>1. /\ store'[j] = store[j] /\ acted'[j] = acted[j] /\ live'[j] = live[j]
          /\ newest'[j] = newest[j] /\ launched'[j] = launched[j]
          /\ \A w \in Writer : run'[j][w] = run[j][w]
          /\ restarts' = restarts /\ task(j)' = task(j)
      BY <1>3 DEF Becomes
    <2>2. Ledger(j)
      BY DEF LedgerInv
    <2>3. Ledger(j)'
      BY <2>1, <2>2 DEF Ledger
    <2>4. live[j] = Nobody \/ live[j] \in Writer
      BY <1>1, Holder
    <2>5. Known(j)' = Known(j)
      BY <2>1, <2>4 DEF Known, LiveObject
    <2> QED
      BY <2>1, <2>3, <2>5 DEF Phase
  <1>6. Known(i)' = IF v = Nobody THEN s ELSE t.obj
    BY <1>1, <1>3 DEF Known, LiveObject, task, Becomes
  <1>7. Later(store[i], store'[i]) /\ acted'[i] = n
    BY DEF Becomes
  <1>8. Advance(Phase(i), Phase(i)', acted[i], acted'[i])
    BY <1>6, <1>7 DEF Phase
  <1> QED
    BY <1>2, <1>4, <1>5, <1>7, <1>8 DEF Entry, Becomes

\* The parts of a step of incident i, one by one.
LEMMA Parts ==
    ASSUME TypeOK, NEW i \in Incident
    PROVE  /\ \A s : Persist(i, s) =>
                 \A j \in Incident : store'[j] = IF j = i THEN s ELSE store[j]
           /\ \A t : SetTask(i, Engine, t) =>
                 \A j \in Incident : \A w \in Writer :
                    run'[j][w] = IF j = i /\ w = Engine THEN t ELSE run[j][w]
           /\ release(i, Engine) =>
                 /\ SetTask(i, Engine, Idle)
                 /\ \A j \in Incident :
                       live'[j] = IF j = i THEN Nobody ELSE live[j]
           /\ try_acquire(i, Engine) =>
                 /\ live[i] = Nobody
                 /\ \A j \in Incident :
                       live'[j] = IF j = i THEN Engine ELSE live[j]
           /\ Launch(i) =>
                 \A j \in Incident :
                    launched'[j] = IF j = i THEN launched[i] + 1 ELSE launched[j]
           /\ StartAction(i) =>
                 \A j \in Incident :
                    /\ acted'[j] = IF j = i THEN acted[i] + 1 ELSE acted[j]
                    /\ newest'[j] = IF j = i THEN clock[Target(i)] + 1
                                    ELSE newest[j]
  <1>1. Engine \in Writer
    BY DEF Writer
  <1>2. \A t : SetTask(i, Engine, t) =>
           \A j \in Incident : \A w \in Writer :
              run'[j][w] = IF j = i /\ w = Engine THEN t ELSE run[j][w]
    BY <1>1, RunAfter
  <1> QED
    BY <1>2 DEF TypeOK, Persist, release, try_acquire, Launch, StartAction

-----------------------------------------------------------------------------
(***************************************************************************)
(* The ways out of a step of a task that works on an incident, with rec as *)
(* the step leaves it.                                                     *)
(***************************************************************************)
Steady == UNCHANGED <<live, worldVars>> /\ Keep

Onward(i, rec) ==
    /\ LedgerInv /\ Steady /\ live[i] = Engine
    /\ rec \in Record /\ IsActive(rec)
    /\ Budgeted(rec, launched[i]) /\ Even(rec, acted[i], newest[i])
    /\ Phase(i) = "working" /\ Later(store[i], rec) /\ ~IsClosed(store[i])

\* A task moves on, saving s.
LEMMA Moved ==
    ASSUME LedgerInv, Steady, NEW i \in Incident, live[i] = Engine, NEW s, NEW t,
           Persist(i, s), SetTask(i, Engine, t),
           Fits(s, Engine, t, acted[i], newest[i], launched[i], restarts),
           Later(store[i], s), Advance(Phase(i), PhaseOf(t.obj), acted[i], acted[i])
    PROVE  Entry(i)
  <1>1. TypeOK /\ Engine # Nobody
    BY ManagerAssumption DEF LedgerInv, LeaseInv
  <1>2. Becomes(i, s, Engine, t, acted[i], newest[i], launched[i])
    BY <1>1, Parts DEF Becomes, Steady, Keep, worldVars
  <1> QED
    BY <1>1, <1>2, Enters

\* The record is escalated or resolved.
LEMMA Ends ==
    ASSUME NEW i \in Incident, NEW rec, Onward(i, rec),
           NEW r, SameBooks(r, rec), r.status \in {"escalated", "resolved"},
           r.status = "resolved" => acted[i] > 0, Conclude(i, r)
    PROVE  Entry(i)
  <1> DEFINE t == At("finishing", "lifecycle", r)
  <1>1. t.pc = "finishing" /\ t.obj = r
    BY AtFacts
  <1> HIDE DEF t
  <1>2. Persist(i, r) /\ SetTask(i, Engine, t)
    BY DEF Conclude, t
  <1>3. Budgeted(r, launched[i]) /\ Even(r, acted[i], newest[i])
    BY SameBudget DEF Onward
  <1>4. Fits(r, Engine, t, acted[i], newest[i], launched[i], restarts)
    BY <1>1, <1>3 DEF Fits, Busy, SameBooks
  <1>5. Later(store[i], r)
    BY DEF Onward, Later, SameBooks
  <1>6. PhaseOf(r) = IF r.status = "resolved" THEN "closed" ELSE "waiting"
    BY PhaseFacts DEF IsClosed, ClosedStatus
  <1> QED
    BY <1>1, <1>2, <1>4, <1>5, <1>6, Moved DEF Onward, Advance

\* Or a deep investigation comes first.
LEMMA Deepens ==
    ASSUME NEW i \in Incident, NEW rec, Onward(i, rec), NEW why,
           Deepen(i, rec, why)
    PROVE  Entry(i)
  <1>1. /\ rec \in Record /\ IsActive(rec)
        /\ Budgeted(rec, launched[i]) /\ Even(rec, acted[i], newest[i])
        /\ Later(store[i], rec) /\ Phase(i) = "working"
    BY DEF Onward
  <1>2. CASE rec.diagnosed
    <2> DEFINE t == [At("digging", "lifecycle", CountDig(rec)) EXCEPT !.why = why]
    <2>1. t.pc = "digging" /\ t.obj = CountDig(rec)
      BY AtFacts
    <2> HIDE DEF t
    <2>2. Persist(i, rec) /\ SetTask(i, Engine, t)
      BY <1>2 DEF Deepen, t
    <2>3. SameBooks(CountDig(rec), rec) /\ CountDig(rec).status = rec.status
      BY <1>1, SameBooksFacts
    <2>4. IsActive(CountDig(rec)) /\ PhaseOf(CountDig(rec)) = "working"
      BY <1>1, <2>3, PhaseFacts DEF IsActive
    <2>5. rec.status # "absent"
      BY <1>1, StatusFacts
    <2>6. Fits(rec, Engine, t, acted[i], newest[i], launched[i], restarts)
      BY <1>1, <2>1, <2>3, <2>4, <2>5 DEF Fits, Busy, Working
    <2> QED
      BY <1>1, <2>1, <2>2, <2>4, <2>6, Moved DEF Onward, Advance
  <1>3. CASE ~rec.diagnosed
    <2>1. SameBooks(Escalate(rec, why), rec) /\ Escalate(rec, why).status = "escalated"
      BY <1>1, SameBooksFacts
    <2>2. Conclude(i, Escalate(rec, why))
      BY <1>3 DEF Deepen
    <2> QED
      BY <2>1, <2>2, Ends
  <1> QED
    BY <1>2, <1>3

\* Or the lifecycle goes round again.
LEMMA Cycles ==
    ASSUME NEW i \in Incident, NEW rec, Onward(i, rec), NextCycle(i, rec)
    PROVE  Entry(i)
  <1>1. /\ rec \in Record /\ IsActive(rec)
        /\ Budgeted(rec, launched[i]) /\ Even(rec, acted[i], newest[i])
        /\ Later(store[i], rec) /\ Phase(i) = "working"
    BY DEF Onward
  <1>2. CASE Deepen(i, rec, "validation_failed")
    BY <1>2, Deepens
  <1>3. CASE Conclude(i, Escalate(rec, "lifecycle_timeout"))
    <2>1. /\ SameBooks(Escalate(rec, "lifecycle_timeout"), rec)
          /\ Escalate(rec, "lifecycle_timeout").status = "escalated"
      BY <1>1, SameBooksFacts
    <2> QED
      BY <1>3, <2>1, Ends
  <1>4. CASE /\ Persist(i, rec)
             /\ SetTask(i, Engine, Investigating(i, rec, task(i).cycle + 1))
    <2> DEFINE t   == Investigating(i, rec, task(i).cycle + 1)
               obj == [rec EXCEPT !.status = "investigating"]
    <2>1. t.pc = "investigating" /\ t.obj = obj
      BY InvestigatingFacts
    <2>2. SameBooks(obj, rec) /\ obj.status = "investigating"
      BY <1>1, SameBooksFacts DEF Record
    <2> HIDE DEF t, obj
    <2>3. IsActive(obj) /\ PhaseOf(obj) = "working" /\ rec.status # "absent"
      BY <1>1, <2>2, PhaseFacts, StatusFacts
    <2>4. Fits(rec, Engine, t, acted[i], newest[i], launched[i], restarts)
      BY <1>1, <2>1, <2>2, <2>3 DEF Fits, Busy, Working
    <2>5. Persist(i, rec) /\ SetTask(i, Engine, t)
      BY <1>4 DEF t
    <2> QED
      BY <1>1, <2>1, <2>3, <2>4, <2>5, Moved DEF Onward, Advance
  <1> QED
    BY <1>2, <1>3, <1>4 DEF NextCycle

\* Or the candidates are exhausted, or there is another one.
LEMMA Candidate ==
    ASSUME NEW i \in Incident, NEW rec, Onward(i, rec), NEW ran
    PROVE  /\ EndOfCycle(i, rec, ran) => Entry(i)
           /\ \A act : rec.status = "remediating" /\ NextCandidate(i, rec, act, ran)
                        => Entry(i)
  <1>1. EndOfCycle(i, rec, ran) => Entry(i)
    BY Deepens, Cycles DEF EndOfCycle
  <1>2. ASSUME NEW act, rec.status = "remediating", NextCandidate(i, rec, act, ran)
        PROVE  Entry(i)
    <2> DEFINE left == task(i).plans \ {act}
               t    == [task(i) EXCEPT !.pc = "waiting", !.obj = rec,
                                       !.plans = left, !.ran = ran,
                                       !.act = Nobody, !.at = 0]
    <2>1. CASE left = {}
      BY <1>1, <1>2, <2>1 DEF NextCandidate
    <2>2. CASE left # {}
      <3>1. Persist(i, rec) /\ SetTask(i, Engine, t)
        BY <1>2, <2>2 DEF NextCandidate
      <3>2. TypeOK
        BY DEF Onward, LedgerInv, LeaseInv
      <3>3. task(i) \in Task
        BY <3>2, LocalTypes
      <3>4. t.pc = "waiting" /\ t.obj = rec
        BY <3>3 DEF Task
      <3> HIDE DEF t
      <3>5. SameBooks(rec, rec) /\ PhaseOf(rec) = "working"
        BY PhaseFacts DEF SameBooks, Onward
      <3>6. Fits(rec, Engine, t, acted[i], newest[i], launched[i], restarts)
        BY <1>2, <3>4, <3>5 DEF Fits, Busy, Onward
      <3> QED
        BY <3>1, <3>4, <3>5, <3>6, Moved DEF Onward, Advance
    <2> QED
      BY <2>1, <2>2
  <1> QED
    BY <1>1, <1>2

-----------------------------------------------------------------------------
(***************************************************************************)
(* Each step of the engine's task is an entry.                             *)
(***************************************************************************)
\* What is left of a budget when books are the same, and order in time.
LEMMA LaterFacts ==
    ASSUME NEW r \in Record, NEW s \in Record
    PROVE  /\ SameBooks(s, r) /\ (IsClosed(r) => s.status = r.status) => Later(r, s)
           /\ Later(r, r)
  <1>1. r.count \in Nat /\ s.count \in Nat
    BY DEF Record
  <1> QED
    BY <1>1 DEF SameBooks, Later

\* A task that works on an incident goes on from its copy.
LEMMA Goes ==
    ASSUME LedgerInv, NEW i \in Incident, Steady,
           task(i).pc \in Working \cup {"waiting"},
           NEW rec \in Record, IsActive(rec), SameBooks(rec, task(i).obj)
    PROVE  Onward(i, rec)
  <1>1. HoldsLease(task(i))
    BY DEF HoldsLease, Working
  <1>2. /\ live[i] = Engine /\ Known(i) = task(i).obj
        /\ Budgeted(store[i], launched[i])
        /\ SameBooks(task(i).obj, store[i])
        /\ Busy(store[i], task(i), acted[i], newest[i], restarts)
        /\ task(i).obj \in Record /\ store[i] \in Record
    BY <1>1, Works
  <1>3. /\ IsActive(store[i]) /\ IsActive(task(i).obj)
        /\ Even(store[i], acted[i], newest[i])
    BY <1>2, StatusFacts DEF Busy, Working
  <1>4. SameBooks(rec, store[i])
    BY <1>2, SameBudget
  <1>5. /\ Budgeted(rec, launched[i]) /\ Even(rec, acted[i], newest[i])
    BY <1>2, <1>3, <1>4, SameBudget
  <1>6. ~IsClosed(store[i])
    BY <1>3, StatusFacts
  <1>7. Later(store[i], rec)
    BY <1>2, <1>4, <1>6, LaterFacts
  <1>8. Phase(i) = "working"
    BY <1>2, <1>3, PhaseFacts DEF Phase
  <1> QED
    BY <1>2, <1>5, <1>6, <1>7, <1>8 DEF Onward

\* Investigated is an entry.
LEMMA InvestigatedEntry ==
    ASSUME LedgerInv, NEW i \in Incident, Investigated(i) PROVE Entry(i)
  <1> DEFINE t == [task(i) EXCEPT !.pc = "analysing"]
  <1>1. Steady /\ task(i).pc = "investigating"
    BY DEF Investigated, Steady
  <1>2. HoldsLease(task(i))
    BY <1>1 DEF HoldsLease
  <1>3. /\ task(i) \in Task /\ task(i).obj \in Record
        /\ Busy(store[i], task(i), acted[i], newest[i], restarts)
        /\ live[i] = Engine
    BY <1>2, Works
  <1>4. IsActive(task(i).obj) /\ SameBooks(task(i).obj, task(i).obj)
    BY <1>1, <1>3 DEF Busy, Working, SameBooks
  <1>5. Onward(i, task(i).obj)
    BY <1>1, <1>3, <1>4, Goes DEF Working
  <1>6. t.pc = "analysing" /\ t.obj = task(i).obj
    BY <1>3 DEF Task
  <1>7. Persist(i, task(i).obj) /\ SetTask(i, Engine, t)
    BY DEF Investigated
  <1> HIDE DEF t
  <1>8. task(i).obj.status # "absent" /\ PhaseOf(task(i).obj) = "working"
    BY <1>4, StatusFacts, PhaseFacts
  <1>9. Fits(task(i).obj, Engine, t, acted[i], newest[i], launched[i], restarts)
    BY <1>4, <1>5, <1>6, <1>8 DEF Fits, Busy, Working, Onward
  <1> QED
    BY <1>1, <1>3, <1>5, <1>6, <1>7, <1>8, <1>9, Moved DEF Onward, Advance

\* Analysed is an entry.
LEMMA AnalysedEntry ==
    ASSUME LedgerInv, NEW i \in Incident, Analysed(i) PROVE Entry(i)
  <1> DEFINE rec == [task(i).obj EXCEPT !.status = "remediating", !.diagnosed = TRUE]
  <1>1. Steady /\ task(i).pc = "analysing"
    BY DEF Analysed, Steady
  <1>2. HoldsLease(task(i))
    BY <1>1 DEF HoldsLease
  <1>3. task(i) \in Task /\ task(i).obj \in Record /\ live[i] = Engine
    BY <1>2, Works
  <1>4. /\ rec \in Record /\ SameBooks(rec, task(i).obj)
        /\ rec.status = "remediating"
    BY <1>3 DEF Record, SameBooks, Status, ActiveStatus
  <1>5. PICK plans \in Candidates(rec) :
           IF plans = {}
           THEN Deepen(i, rec, "no_safe_action")
           ELSE /\ Persist(i, rec)
                /\ SetTask(i, Engine, [task(i) EXCEPT !.pc = "waiting", !.obj = rec,
                                              !.plans = plans, !.ran = FALSE])
    BY DEF Analysed
  <1> HIDE DEF rec
  <1>6. IsActive(rec) /\ PhaseOf(rec) = "working"
    BY <1>4, StatusFacts, PhaseFacts
  <1>7. Onward(i, rec)
    BY <1>1, <1>4, <1>6, Goes DEF Working
  <1>8. CASE plans = {}
    BY <1>5, <1>7, <1>8, Deepens
  <1>9. CASE plans # {}
    <2> DEFINE t == [task(i) EXCEPT !.pc = "waiting", !.obj = rec,
                                    !.plans = plans, !.ran = FALSE]
    <2>1. t.pc = "waiting" /\ t.obj = rec
      BY <1>3 DEF Task
    <2>2. Persist(i, rec) /\ SetTask(i, Engine, t)
      BY <1>5, <1>9
    <2> HIDE DEF t
    <2>3. SameBooks(rec, rec)
      BY DEF SameBooks
    <2>4. Fits(rec, Engine, t, acted[i], newest[i], launched[i], restarts)
      BY <1>4, <1>7, <2>1, <2>3 DEF Fits, Busy, Onward
    <2> QED
      BY <1>1, <1>3, <1>6, <1>7, <2>1, <2>2, <2>4, Moved DEF Onward, Advance
  <1> QED
    BY <1>8, <1>9

\* A step that leaves what was done alone and keeps no lease either.
LEMMA LetGo ==
    ASSUME LedgerInv, NEW i \in Incident, NEW s, UNCHANGED <<worldVars, restarts>>,
           UNCHANGED launched, release(i, Engine),
           \A j \in Incident : store'[j] = IF j = i THEN s ELSE store[j],
           s.status # "absent", Budgeted(s, launched[i]),
           AtRest(s, acted[i], newest[i], restarts),
           Later(store[i], s), PhaseOf(s) = Phase(i)
    PROVE  Entry(i)
  <1>1. TypeOK /\ Engine # Nobody
    BY ManagerAssumption DEF LedgerInv, LeaseInv
  <1>2. Becomes(i, s, Nobody, Idle, acted[i], newest[i], launched[i])
    BY <1>1, Parts DEF Becomes, worldVars
  <1>3. Fits(s, Nobody, Idle, acted[i], newest[i], launched[i], restarts)
    BY DEF Fits
  <1> QED
    BY <1>1, <1>2, <1>3, Enters DEF Advance

\* A step that changes nothing but the task.
LEMMA Turns ==
    ASSUME LedgerInv, NEW i \in Incident, Steady, live[i] = Engine, UNCHANGED store,
           NEW t, SetTask(i, Engine, t),
           Fits(store[i], Engine, t, acted[i], newest[i], launched[i], restarts),
           Advance(Phase(i), PhaseOf(t.obj), acted[i], acted[i])
    PROVE  Entry(i)
  <1>1. TypeOK /\ Engine # Nobody
    BY ManagerAssumption DEF LedgerInv, LeaseInv
  <1>2. Becomes(i, store[i], Engine, t, acted[i], newest[i], launched[i])
    BY <1>1, Parts DEF Becomes, Steady, Keep, worldVars
  <1>3. Later(store[i], store[i])
    BY <1>1, LocalTypes, LaterFacts
  <1> QED
    BY <1>1, <1>2, <1>3, Enters

\* EnterSlot is an entry.
LEMMA EnterSlotEntry ==
    ASSUME LedgerInv, NEW i \in Incident, EnterSlot(i) PROVE Entry(i)
  <1> DEFINE o == task(i)
             s == store[i]
  <1>1. o.pc = "queued" /\ UNCHANGED worldVars /\ Keep
    BY DEF EnterSlot
  <1>2. HoldsLease(o)
    BY <1>1 DEF HoldsLease
  <1>3. /\ live[i] = Engine /\ Known(i) = o.obj /\ o \in Task /\ s \in Record
        /\ s.status # "absent" /\ Budgeted(s, launched[i])
        /\ Busy(s, o, acted[i], newest[i], restarts)
    BY <1>2, Works
  <1>4. o.obj = s /\ Queued(s, o, acted[i], newest[i], restarts)
    BY <1>1, <1>3 DEF Busy, Working
  <1>5. Phase(i) = PhaseOf(s) /\ SameBooks(s, s) /\ Later(s, s)
    BY <1>3, <1>4, LaterFacts DEF Phase, SameBooks
  <1>6. ASSUME o.job = "lifecycle", SetTask(i, Engine, Investigating(i, o.obj, 1)),
               UNCHANGED <<store, live>>
        PROVE  Entry(i)
    <2> DEFINE t   == Investigating(i, s, 1)
               obj == [s EXCEPT !.status = "investigating"]
    <2>1. t.pc = "investigating" /\ t.obj = obj
      BY InvestigatingFacts
    <2>2. SameBooks(obj, s) /\ obj.status = "investigating"
      BY <1>3, SameBooksFacts DEF Record
    <2>3. SetTask(i, Engine, t)
      BY <1>4, <1>6
    <2> HIDE DEF t, obj
    <2>4. s.status = "open" /\ Even(s, acted[i], newest[i])
      BY <1>4, <1>6 DEF Queued
    <2>5. IsActive(s) /\ IsActive(obj)
      BY <2>2, <2>4, StatusFacts
    <2>6. Fits(s, Engine, t, acted[i], newest[i], launched[i], restarts)
      BY <1>3, <2>1, <2>2, <2>4, <2>5 DEF Fits, Busy, Working
    <2>7. Phase(i) = "working" /\ PhaseOf(t.obj) = "working"
      BY <1>5, <2>1, <2>5, PhaseFacts
    <2> QED
      BY <1>1, <1>3, <1>6, <2>3, <2>6, <2>7, Turns DEF Steady, Advance
  <1>7. ASSUME o.job = "recheck", SetTask(i, Engine, [o EXCEPT !.pc = "rechecking"]),
               UNCHANGED <<store, live>>
        PROVE  Entry(i)
    <2> DEFINE t == [o EXCEPT !.pc = "rechecking"]
    <2>1. t.pc = "rechecking" /\ t.obj = s
      BY <1>3, <1>4 DEF Task
    <2> HIDE DEF t
    <2>2. Recheckable(s) /\ Even(s, acted[i], newest[i])
      BY <1>4, <1>7 DEF Queued
    <2>3. Fits(s, Engine, t, acted[i], newest[i], launched[i], restarts)
      BY <1>3, <1>5, <2>1, <2>2 DEF Fits, Busy
    <2> QED
      BY <1>1, <1>3, <1>5, <1>7, <2>1, <2>3, Turns DEF t, Steady, Advance
  <1>8. ASSUME o.job = "forced", Persist(i, Reopen(o.obj)),
               SetTask(i, Engine, Investigating(i, Reopen(o.obj), 1)),
               UNCHANGED live
        PROVE  Entry(i)
    <2> DEFINE r   == Reopen(s)
               t   == Investigating(i, r, 1)
               obj == [r EXCEPT !.status = "investigating"]
    <2>1. t.pc = "investigating" /\ t.obj = obj
      BY InvestigatingFacts
    <2>2. SameBooks(r, s) /\ r.status = "investigating" /\ r \in Record
      BY <1>3, SameBooksFacts, RecordTypes
    <2> HIDE DEF r
    <2>3. SameBooks(obj, r) /\ obj.status = "investigating"
      BY <2>2, SameBooksFacts DEF Record
    <2>4. Persist(i, r) /\ SetTask(i, Engine, t)
      BY <1>4, <1>8 DEF r
    <2> HIDE DEF t, obj
    <2>5. /\ s.status = "escalated" /\ Even(s, acted[i], newest[i])
          /\ "reinvestigate" \in HumanOps
      BY <1>4, <1>8 DEF Queued
    <2>6. IsActive(r) /\ IsActive(obj) /\ ~IsClosed(s)
      BY <2>2, <2>3, <2>5, StatusFacts
    <2>7. Budgeted(r, launched[i]) /\ Even(r, acted[i], newest[i])
      BY <1>3, <2>2, <2>5, SameBudget
    <2>8. Fits(r, Engine, t, acted[i], newest[i], launched[i], restarts)
      BY <2>1, <2>2, <2>3, <2>6, <2>7 DEF Fits, Busy, Working
    <2>9. Phase(i) = "waiting" /\ PhaseOf(t.obj) = "working"
      BY <1>5, <2>1, <2>5, <2>6, PhaseFacts
    <2>10. Later(s, r)
      BY <1>3, <2>2, <2>6, LaterFacts
    <2> QED
      BY <1>1, <1>3, <1>8, <2>4, <2>5, <2>8, <2>9, <2>10, Moved DEF Steady, Advance
  <1>9. ASSUME o.job = "suggest", release(i, Engine),
               UNCHANGED store \/ Persist(i, o.obj)
        PROVE  Entry(i)
    <2>1. AtRest(s, acted[i], newest[i], restarts)
      BY <1>4, <1>9 DEF Queued
    <2>2. TypeOK
      BY DEF LedgerInv, LeaseInv
    <2>3. \A j \in Incident : store'[j] = IF j = i THEN s ELSE store[j]
      BY <1>4, <1>9, <2>2, Parts
    <2> QED
      BY <1>1, <1>3, <1>5, <1>9, <2>1, <2>3, LetGo DEF Keep
  <1>10. ASSUME o.job = "suggest",
                SetTask(i, Engine, At("suggesting", "suggest", CountDig(o.obj))),
                UNCHANGED <<store, live>>
         PROVE  Entry(i)
    <2> DEFINE t == At("suggesting", "suggest", CountDig(s))
    <2>1. t.pc = "suggesting" /\ t.obj = CountDig(s)
      BY AtFacts
    <2>2. /\ SameBooks(CountDig(s), s) /\ CountDig(s).status = s.status
          /\ CountDig(s).reason = s.reason
      BY <1>3, SameBooksFacts
    <2>3. AtRest(s, acted[i], newest[i], restarts)
      BY <1>4, <1>10 DEF Queued
    <2>4. SetTask(i, Engine, t)
      BY <1>4, <1>10
    <2> HIDE DEF t
    <2>5. Fits(s, Engine, t, acted[i], newest[i], launched[i], restarts)
      BY <1>3, <2>1, <2>2, <2>3 DEF Fits, Busy
    <2>6. PhaseOf(t.obj) = Phase(i)
      BY <1>5, <2>1, <2>2, PhaseFacts
    <2> QED
      BY <1>1, <1>3, <1>10, <2>4, <2>5, <2>6, Turns DEF Steady, Advance
  <1> QED
    BY <1>6, <1>7, <1>8, <1>9, <1>10 DEF EnterSlot

\* Recheck is an entry.
LEMMA RecheckEntry ==
    ASSUME LedgerInv, NEW i \in Incident, Recheck(i) PROVE Entry(i)
  <1> DEFINE o == task(i)
             s == store[i]
             r == Reopened(s)
  <1>1. o.pc = "rechecking" /\ UNCHANGED <<worldVars, restarts>>
    BY DEF Recheck
  <1>2. HoldsLease(o)
    BY <1>1 DEF HoldsLease
  <1>3. /\ live[i] = Engine /\ Known(i) = o.obj /\ s \in Record
        /\ s.status # "absent" /\ Budgeted(s, launched[i])
        /\ Busy(s, o, acted[i], newest[i], restarts) /\ TypeOK
    BY <1>2, Works
  <1>4. o.obj = s /\ Recheckable(s) /\ Even(s, acted[i], newest[i])
    BY <1>1, <1>3 DEF Busy, Working
  <1>5. Phase(i) = "waiting" /\ PhaseOf(s) = "waiting" /\ Later(s, s) /\ ~IsActive(s)
    BY <1>3, <1>4, PhaseFacts, StatusFacts, LaterFacts DEF Phase, Recheckable
  <1>6. ASSUME Persist(i, o.obj) \/ UNCHANGED store, release(i, Engine),
               UNCHANGED launched
        PROVE  Entry(i)
    <2>1. \A j \in Incident : store'[j] = IF j = i THEN s ELSE store[j]
      BY <1>3, <1>4, <1>6, Parts
    <2> QED
      BY <1>1, <1>3, <1>4, <1>5, <1>6, <2>1, LetGo DEF AtRest
  <1>7. ASSUME Persist(i, Reopened(o.obj)),
               SetTask(i, Engine, Investigating(i, Reopened(o.obj), 1)),
               Launch(i), UNCHANGED live
        PROVE  Entry(i)
    <2> DEFINE t   == Investigating(i, r, 1)
               obj == [r EXCEPT !.status = "investigating"]
    <2>1. t.pc = "investigating" /\ t.obj = obj
      BY InvestigatingFacts
    <2>2. /\ r.count = s.count /\ r.tried = s.tried /\ r.stamp = s.stamp
          /\ r.reopens = s.reopens + 1 /\ r.resumed = s.resumed
          /\ r.status = "investigating" /\ r \in Record
      <3>1. r \in Record
        BY <1>3, RecordTypes
      <3> QED
        BY <1>3, <3>1 DEF Reopened, Reopen, Record
    <2> HIDE DEF r
    <2>3. SameBooks(obj, r) /\ obj.status = "investigating"
      BY <2>2, SameBooksFacts DEF Record
    <2>4. Persist(i, r) /\ SetTask(i, Engine, t)
      BY <1>4, <1>7 DEF r
    <2> HIDE DEF t, obj
    <2>5. IsActive(r) /\ IsActive(obj) /\ ~IsClosed(s)
      BY <1>4, <2>2, <2>3, StatusFacts DEF Recheckable
    <2>6. Even(r, acted[i], newest[i])
      BY <1>4, <2>2 DEF Even
    <2>7. Budgeted(r, launched[i] + 1)
      <3>1. s.reopens < MaxReopens
        BY <1>4 DEF Recheckable, MayReconsider
      <3>2. s.reopens \in Nat /\ launched[i] \in Nat /\ MaxReopens \in Nat
        BY <1>3, RecordAssumption DEF Record, TypeOK
      <3>3. s.reopens + 1 <= MaxReopens
        BY <3>1, <3>2
      <3>4. CASE s.resumed
        BY <1>3, <2>2, <3>2, <3>3, <3>4 DEF Budgeted
      <3>5. CASE ~s.resumed
        BY <1>3, <2>2, <3>2, <3>3, <3>5 DEF Budgeted
      <3> QED
        BY <3>4, <3>5
    <2>8. Fits(r, Engine, t, acted[i], newest[i], launched[i] + 1, restarts)
      BY <2>1, <2>2, <2>3, <2>5, <2>6, <2>7 DEF Fits, Busy, Working
    <2>9. PhaseOf(t.obj) = "working"
      BY <2>1, <2>5, PhaseFacts
    <2>10. Later(s, r)
      <3>1. s.count \in Nat
        BY <1>3 DEF Record
      <3> QED
        BY <2>2, <2>5, <3>1 DEF Later
    <2>11. acted[i] = 0
      BY <1>4 DEF Even, Recheckable, MayReconsider
    <2>12. Becomes(i, r, Engine, t, acted[i], newest[i], launched[i] + 1)
      BY <1>1, <1>3, <1>7, <2>4, Parts DEF Becomes, worldVars
    <2>13. Engine # Nobody
      BY ManagerAssumption
    <2>14. Advance(Phase(i), PhaseOf(t.obj), acted[i], acted[i])
      BY <1>5, <2>9, <2>11 DEF Advance
    <2> QED
      BY <2>8, <2>10, <2>12, <2>13, <2>14, Enters
  <1> QED
    BY <1>6, <1>7 DEF Recheck

\* TryCandidate is an entry.
LEMMA TryCandidateEntry ==
    ASSUME LedgerInv, NEW i \in Incident, TryCandidate(i) PROVE Entry(i)
  <1> DEFINE o == task(i)
             s == store[i]
             d == Target(i)
  <1>1. o.pc = "waiting" /\ UNCHANGED live /\ Keep
    BY DEF TryCandidate
  <1>2. HoldsLease(o)
    BY <1>1 DEF HoldsLease
  <1>3. /\ live[i] = Engine /\ Known(i) = o.obj /\ o \in Task /\ o.obj \in Record
        /\ s \in Record /\ s.status # "absent" /\ Budgeted(s, launched[i])
        /\ SameBooks(o.obj, s) /\ TypeOK
        /\ Busy(s, o, acted[i], newest[i], restarts)
    BY <1>2, Works
  <1>4. /\ s.status = "remediating" /\ o.obj.status = "remediating"
        /\ Even(s, acted[i], newest[i])
    BY <1>1, <1>3 DEF Busy, Working
  <1>5. IsActive(o.obj) /\ SameBooks(o.obj, o.obj)
    BY <1>4, StatusFacts DEF SameBooks
  <1>6. UNCHANGED worldVars => Onward(i, o.obj)
    BY <1>1, <1>3, <1>5, Goes DEF Steady
  <1>7. ASSUME NEW act, NextCycle(i, o.obj), UNCHANGED worldVars PROVE Entry(i)
    BY <1>6, <1>7, Cycles
  <1>8. ASSUME NEW act, NextCandidate(i, o.obj, act, o.ran), UNCHANGED worldVars
        PROVE  Entry(i)
    BY <1>4, <1>6, <1>8, Candidate
  <1>9. ASSUME Conclude(i, Escalate(o.obj, "remediation_error")), UNCHANGED worldVars
        PROVE  Entry(i)
    <2>1. /\ SameBooks(Escalate(o.obj, "remediation_error"), o.obj)
          /\ Escalate(o.obj, "remediation_error").status = "escalated"
      BY <1>3, SameBooksFacts
    <2> QED
      BY <1>6, <1>9, <2>1, Ends
  <1>10. ASSUME NEW act, PolicyAllows(o.obj, d), StartAction(i),
                SetTask(i, Engine, [o EXCEPT !.pc = "executing", !.act = act,
                                             !.at = clock[d] + 1]),
                UNCHANGED store
         PROVE  Entry(i)
    <2> DEFINE t == [o EXCEPT !.pc = "executing", !.act = act, !.at = clock[d] + 1]
               n == acted[i] + 1
               k == clock[d] + 1
    <2>1. t.pc = "executing" /\ t.obj = o.obj /\ t.at = k
      BY <1>3 DEF Task
    <2>2. SetTask(i, Engine, t)
      BY <1>10
    <2>3. /\ acted[i] \in Nat /\ s.count \in Nat /\ Cap \in Nat
          /\ acted[i] = s.count /\ s.count < Cap
      BY <1>3, <1>4, <1>10, RecordAssumption
      DEF TypeOK, Record, Even, SameBooks, PolicyAllows
    <2>4. n = s.count + 1 /\ n <= Cap /\ acted[i] < Cap
      BY <2>3
    <2>5. Becomes(i, s, Engine, t, n, k, launched[i])
      BY <1>1, <1>3, <1>10, <2>2, Parts DEF Becomes, Keep
    <2> HIDE DEF t, n, k
    <2>6. Fits(s, Engine, t, n, k, launched[i], restarts)
      BY <1>3, <1>4, <2>1, <2>4 DEF Fits, Busy
    <2>7. Phase(i) = "working" /\ PhaseOf(t.obj) = "working"
      BY <1>3, <1>5, <2>1, PhaseFacts DEF Phase
    <2>8. Advance(Phase(i), PhaseOf(t.obj), acted[i], n)
      BY <2>4, <2>7 DEF Advance, n
    <2>9. Later(s, s) /\ Engine # Nobody
      BY <1>3, LaterFacts, ManagerAssumption
    <2> QED
      BY <2>5, <2>6, <2>8, <2>9, Enters
  <1> QED
    BY <1>7, <1>8, <1>9, <1>10 DEF TryCandidate

\* A task that has executed its action goes on with the result.
LEMMA ExecutedEntry ==
    ASSUME LedgerInv, NEW i \in Incident, Executed(i) PROVE Entry(i)
  <1> DEFINE o   == task(i)
             s   == store[i]
             rec == WithResult(o.obj, o.act, o.at)
  <1>1. o.pc = "executing" /\ Steady
    BY DEF Executed, Steady
  <1>2. HoldsLease(o)
    BY <1>1 DEF HoldsLease
  <1>3. /\ live[i] = Engine /\ Known(i) = o.obj /\ o \in Task /\ o.obj \in Record
        /\ s \in Record /\ s.status # "absent" /\ Budgeted(s, launched[i])
        /\ SameBooks(o.obj, s) /\ TypeOK
        /\ Busy(s, o, acted[i], newest[i], restarts)
    BY <1>2, Works
  <1>4. /\ s.status = "remediating" /\ o.obj.status = "remediating"
        /\ acted[i] = s.count + 1 /\ acted[i] <= Cap /\ newest[i] = o.at
    BY <1>1, <1>3 DEF Busy, Working
  <1>5. o.act \in Action /\ o.at \in Nat
    <2>1. LocalsOK
      BY DEF LedgerInv, LeaseInv
    <2> QED
      BY <1>1, <1>3, <2>1, TaskFields DEF LocalsOK, Local, task, Writer
  <1>6. /\ rec.status = o.obj.status /\ rec.count = o.obj.count + 1
        /\ rec.tried = o.obj.tried \cup {o.act} /\ rec.stamp = o.at
        /\ rec.reopens = o.obj.reopens /\ rec.resumed = o.obj.resumed
    BY <1>3 DEF WithResult, Record
  <1>7. rec \in Record
    BY <1>3, <1>5, RecordTypes
  <1> HIDE DEF rec
  <1>8. IsActive(rec) /\ IsActive(o.obj) /\ ~IsClosed(s) /\ rec.status = "remediating"
    BY <1>4, <1>6, StatusFacts
  <1>9. s.count \in Nat /\ s.count + 1 = rec.count /\ s.tried \subseteq rec.tried
    BY <1>3, <1>6 DEF SameBooks, Record
  <1>10. Even(rec, acted[i], newest[i]) /\ acted[i] > 0
    BY <1>4, <1>6, <1>9 DEF Even
  <1>11. Budgeted(rec, launched[i])
    <2>1. rec.count <= Cap
      BY <1>4, <1>9
    <2>2. rec.reopens = s.reopens /\ rec.resumed = s.resumed
      BY <1>3, <1>6 DEF SameBooks
    <2> QED
      BY <1>3, <2>1, <2>2 DEF Budgeted
  <1>12. Later(s, rec)
    BY <1>8, <1>9 DEF Later
  <1>13. Phase(i) = "working"
    BY <1>3, <1>8, PhaseFacts DEF Phase
  <1>14. Onward(i, rec)
    BY <1>1, <1>3, <1>7, <1>8, <1>10, <1>11, <1>12, <1>13 DEF Onward
  <1>15. NextCandidate(i, rec, o.act, TRUE) \/ EndOfCycle(i, rec, TRUE) => Entry(i)
    BY <1>8, <1>14, Candidate
  <1>16. ASSUME Persist(i, rec),
                SetTask(i, Engine, [o EXCEPT !.pc = "validating", !.ran = TRUE,
                                       !.obj = [rec EXCEPT !.status = "validating"]])
         PROVE  Entry(i)
    <2> DEFINE obj == [rec EXCEPT !.status = "validating"]
               t   == [o EXCEPT !.pc = "validating", !.ran = TRUE, !.obj = obj]
    <2>1. t.pc = "validating" /\ t.obj = obj
      BY <1>3 DEF Task
    <2>2. SameBooks(obj, rec) /\ obj.status = "validating"
      BY <1>7, SameBooksFacts DEF Record
    <2>3. SetTask(i, Engine, t)
      BY <1>16
    <2> HIDE DEF t, obj
    <2>4. IsActive(obj) /\ PhaseOf(t.obj) = "working" /\ rec.status # "absent"
      BY <1>8, <2>1, <2>2, StatusFacts, PhaseFacts
    <2>5. Fits(rec, Engine, t, acted[i], newest[i], launched[i], restarts)
      BY <1>8, <1>10, <1>11, <2>1, <2>2, <2>4 DEF Fits, Busy, Working
    <2> QED
      BY <1>1, <1>3, <1>12, <1>13, <1>16, <2>3, <2>4, <2>5, Moved DEF Advance
  <1> QED
    BY <1>15, <1>16 DEF Executed, rec

\* Validated is an entry.
LEMMA ValidatedEntry ==
    ASSUME LedgerInv, NEW i \in Incident, Validated(i) PROVE Entry(i)
  <1> DEFINE o == task(i)
  <1>1. o.pc = "validating" /\ Steady
    BY DEF Validated, Steady
  <1>2. HoldsLease(o)
    BY <1>1 DEF HoldsLease
  <1>3. o.obj \in Record /\ Busy(store[i], o, acted[i], newest[i], restarts)
    BY <1>2, Works
  <1>4. IsActive(o.obj) /\ acted[i] > 0 /\ SameBooks(o.obj, o.obj)
    BY <1>1, <1>3 DEF Busy, SameBooks, Working
  <1>5. Onward(i, o.obj)
    BY <1>1, <1>3, <1>4, Goes DEF Working
  <1>6. ASSUME Conclude(i, [o.obj EXCEPT !.status = "resolved"]) PROVE Entry(i)
    <2> DEFINE r == [o.obj EXCEPT !.status = "resolved"]
    <2>1. SameBooks(r, o.obj) /\ r.status = "resolved"
      BY <1>3, SameBooksFacts DEF Record
    <2> HIDE DEF r
    <2>2. Conclude(i, r)
      BY <1>6 DEF r
    <2> QED
      BY <1>4, <1>5, <2>1, <2>2, Ends
  <1> QED
    BY <1>5, <1>6, Candidate DEF Validated

\* Dug is an entry.
LEMMA DugEntry ==
    ASSUME LedgerInv, NEW i \in Incident, Dug(i) PROVE Entry(i)
  <1> DEFINE o == task(i)
  <1>1. o.pc = "digging" /\ Steady
    BY DEF Dug, Steady
  <1>2. HoldsLease(o)
    BY <1>1 DEF HoldsLease
  <1>3. o.obj \in Record /\ Busy(store[i], o, acted[i], newest[i], restarts)
    BY <1>2, Works
  <1>4. IsActive(o.obj) /\ SameBooks(o.obj, o.obj)
    BY <1>1, <1>3 DEF Busy, SameBooks, Working
  <1>5. Onward(i, o.obj)
    BY <1>1, <1>3, <1>4, Goes DEF Working
  <1>6. PICK rec \in DeepOutcomes(o.obj) : Conclude(i, Escalate(rec, o.why))
    BY DEF Dug
  <1>7. rec \in Record /\ SameBooks(rec, o.obj)
    BY <1>3, <1>6, DeepOutcomesType, SameBooksFacts
  <1>8. /\ SameBooks(Escalate(rec, o.why), rec)
        /\ Escalate(rec, o.why).status = "escalated"
    BY <1>7, SameBooksFacts
  <1>9. SameBooks(Escalate(rec, o.why), o.obj)
    BY <1>7, <1>8, SameBudget
  <1> QED
    BY <1>5, <1>6, <1>8, <1>9, Ends

\* Suggested is an entry.
LEMMA SuggestedEntry ==
    ASSUME LedgerInv, NEW i \in Incident, Suggested(i) PROVE Entry(i)
  <1> DEFINE o == task(i)
             s == store[i]
  <1>1. /\ o.pc = "suggesting" /\ UNCHANGED <<worldVars, restarts>>
        /\ UNCHANGED launched /\ release(i, Engine)
    BY DEF Suggested, Keep
  <1>2. HoldsLease(o)
    BY <1>1 DEF HoldsLease
  <1>3. /\ o.obj \in Record /\ s \in Record /\ SameBooks(o.obj, s)
        /\ s.status # "absent" /\ Budgeted(s, launched[i]) /\ Known(i) = o.obj
        /\ Busy(s, o, acted[i], newest[i], restarts) /\ TypeOK
    BY <1>2, Works
  <1>4. /\ AtRest(s, acted[i], newest[i], restarts)
        /\ o.obj.status = s.status /\ o.obj.reason = s.reason
    BY <1>1, <1>3 DEF Busy, Working
  <1>0. CASE UNCHANGED store
    <2>1. Later(s, s) /\ PhaseOf(s) = Phase(i) /\ SameBooks(s, s)
      BY <1>3, <1>4, LaterFacts, PhaseFacts DEF Phase, SameBooks
    <2>2. \A j \in Incident : store'[j] = IF j = i THEN s ELSE store[j]
      BY <1>0
    <2> QED
      BY <1>1, <1>3, <1>4, <2>1, <2>2, LetGo
  <1> SUFFICES ASSUME ~UNCHANGED store PROVE Entry(i)
    BY <1>0
  <1>5. PICK rec \in DeepOutcomes(o.obj) : Persist(i, rec)
    BY DEF Suggested
  <1>6. /\ rec \in Record /\ SameBooks(rec, o.obj)
        /\ rec.status = o.obj.status /\ rec.reason = o.obj.reason
    BY <1>3, <1>5, DeepOutcomesType, SameBooksFacts
  <1>7. SameBooks(rec, s) /\ rec.status = s.status /\ rec.reason = s.reason
    BY <1>3, <1>4, <1>6, SameBudget
  <1>8. Budgeted(rec, launched[i])
    BY <1>3, <1>7, SameBudget
  <1>9. AtRest(rec, acted[i], newest[i], restarts)
    BY <1>4, <1>7 DEF AtRest, Even, Lost, SameBooks, IsActive
  <1>10. Later(s, rec) /\ PhaseOf(rec) = Phase(i)
    <2>1. PhaseOf(rec) = PhaseOf(o.obj)
      BY <1>6, PhaseFacts
    <2>2. Later(s, rec)
      BY <1>3, <1>6, <1>7, LaterFacts
    <2> QED
      BY <1>3, <2>1, <2>2 DEF Phase
  <1>11. \A j \in Incident : store'[j] = IF j = i THEN rec ELSE store[j]
    BY <1>3, <1>5, Parts
  <1> QED
    BY <1>1, <1>3, <1>7, <1>8, <1>9, <1>10, <1>11, LetGo

\* InternalError and Finished are entries.
LEMMA EndEntry ==
    ASSUME LedgerInv, NEW i \in Incident PROVE InternalError(i) \/ Finished(i) => Entry(i)
  <1> DEFINE o == task(i)
             s == store[i]
  <1>1. ASSUME InternalError(i) PROVE Entry(i)
    <2>1. o.pc \in Working /\ Steady
      BY <1>1 DEF InternalError, Steady, Working
    <2>2. HoldsLease(o)
      BY <2>1 DEF HoldsLease, Working
    <2>3. o.obj \in Record /\ Busy(s, o, acted[i], newest[i], restarts)
      BY <2>2, Works
    <2>4. IsActive(o.obj) /\ SameBooks(o.obj, o.obj)
      BY <2>1, <2>3 DEF Busy, SameBooks, Working
    <2>5. Onward(i, o.obj)
      BY <2>1, <2>3, <2>4, Goes DEF Working
    <2> DEFINE rec == Stopped(o)
    <2>6. rec \in Record /\ SameBooks(rec, o.obj)
      BY <2>3, <2>4, StoppedType, SameBooksFacts
    <2>7. Conclude(i, Escalate(rec, "internal_error"))
      BY <1>1 DEF InternalError
    <2> HIDE DEF rec
    <2>8. /\ SameBooks(Escalate(rec, "internal_error"), rec)
          /\ Escalate(rec, "internal_error").status = "escalated"
      BY <2>6, SameBooksFacts
    <2>9. SameBooks(Escalate(rec, "internal_error"), o.obj)
      BY <2>6, <2>8, SameBudget
    <2> QED
      BY <2>5, <2>7, <2>8, <2>9, Ends
  <1>2. ASSUME Finished(i) PROVE Entry(i)
    <2>1. /\ o.pc = "finishing" /\ UNCHANGED <<worldVars, restarts>>
          /\ UNCHANGED launched /\ release(i, Engine) /\ Persist(i, o.obj)
      BY <1>2 DEF Finished, Keep
    <2>2. HoldsLease(o)
      BY <2>1 DEF HoldsLease
    <2>3. /\ o.obj \in Record /\ s \in Record /\ SameBooks(o.obj, s)
          /\ s.status # "absent" /\ Budgeted(s, launched[i]) /\ Known(i) = o.obj
          /\ Busy(s, o, acted[i], newest[i], restarts) /\ TypeOK
      BY <2>2, Works
    <2>4. /\ s.status = o.obj.status /\ s.status \in {"escalated", "resolved"}
          /\ Even(s, acted[i], newest[i])
      BY <2>1, <2>3 DEF Busy, Working
    <2>5. Budgeted(o.obj, launched[i]) /\ Even(o.obj, acted[i], newest[i])
      BY <2>3, <2>4, SameBudget
    <2>6. AtRest(o.obj, acted[i], newest[i], restarts)
      BY <2>4, <2>5 DEF AtRest, IsActive, ActiveStatus
    <2>7. Later(s, o.obj) /\ PhaseOf(o.obj) = Phase(i)
      BY <2>3, <2>4, LaterFacts DEF Phase
    <2>8. \A j \in Incident : store'[j] = IF j = i THEN o.obj ELSE store[j]
      BY <2>1, <2>3, Parts
    <2> QED
      BY <2>1, <2>3, <2>4, <2>5, <2>6, <2>7, <2>8, LetGo
  <1> QED
    BY <1>1, <1>2

\* So every step of the engine's task is an entry.
LEMMA StepEntry ==
    ASSUME LedgerInv, NEW i \in Incident, Step(i) PROVE Entry(i)
  BY EnterSlotEntry, RecheckEntry, InvestigatedEntry, AnalysedEntry,
     TryCandidateEntry, ExecutedEntry, ValidatedEntry, DugEntry, SuggestedEntry,
     EndEntry DEF Step

-----------------------------------------------------------------------------
(***************************************************************************)
(* What alerts, the Kubernetes watch and requests do is an entry too.      *)
(***************************************************************************)
\* Nothing changes for incident i.
LEMMA Nothing ==
    ASSUME LedgerInv, NEW i \in Incident,
           UNCHANGED <<store, live, run, acted, newest, launched, restarts>>
    PROVE  Entry(i)
  <1>1. TypeOK /\ AdminsIdle /\ \A j \in Incident : Ledger(j)
    BY DEF LedgerInv, LeaseInv
  <1>2. AdminsIdle'
    BY <1>1 DEF AdminsIdle
  <1>3. \A j \in Incident : Ledger(j)' /\ Phase(j)' = Phase(j)
    BY <1>1 DEF Ledger, Phase, Known, LiveObject, task
  <1>4. Later(store[i], store'[i])
    BY <1>1, LocalTypes, LaterFacts
  <1> QED
    BY <1>2, <1>3, <1>4 DEF Entry, Advance

\* The live object of an incident is saved, for the counters it keeps.
LEMMA SaveLive ==
    ASSUME LedgerInv, NEW i \in Incident, live[i] # Nobody,
           Persist(i, LiveObject(i)), UNCHANGED <<live, run, launched>>,
           UNCHANGED <<acted, newest, restarts>>
    PROVE  Entry(i)
  <1> DEFINE o == task(i)
             s == store[i]
  <1>1. live[i] = Engine /\ HoldsLease(o) /\ Engine # Nobody
    BY Holder, ManagerAssumption
  <1>2. /\ o.obj \in Record /\ s \in Record /\ SameBooks(o.obj, s) /\ TypeOK
        /\ s.status # "absent" /\ Budgeted(s, launched[i]) /\ Known(i) = o.obj
        /\ Busy(s, o, acted[i], newest[i], restarts)
    BY <1>1, Works
  <1>3. Persist(i, o.obj)
    BY <1>1 DEF LiveObject, task
  <1>4. Budgeted(o.obj, launched[i]) /\ SameBooks(o.obj, o.obj)
    BY <1>2, SameBudget DEF SameBooks
  <1>5. \A n, k : Even(s, n, k) => Even(o.obj, n, k)
    BY <1>2, SameBudget
  <1>6. /\ IsActive(s) => ~IsClosed(s)
        /\ IsActive(o.obj) => o.obj.status # "absent"
    BY StatusFacts
  <1>7. /\ IsClosed(s) => o.obj.status = s.status
        /\ o.obj.status # "absent"
        /\ Busy(o.obj, o, acted[i], newest[i], restarts)
    <2>1. CASE o.obj = s
      BY <1>2, <2>1
    <2>2. CASE /\ o.pc = "suggesting" /\ AtRest(s, acted[i], newest[i], restarts)
               /\ o.obj.status = s.status /\ o.obj.reason = s.reason
      <3>1. AtRest(o.obj, acted[i], newest[i], restarts)
        BY <1>2, <2>2 DEF AtRest, Even, Lost, SameBooks, IsActive
      <3> QED
        BY <1>2, <2>2, <3>1 DEF Busy
    <2>3. CASE /\ o.pc \in Working /\ IsActive(s) /\ IsActive(o.obj)
               /\ Even(s, acted[i], newest[i])
               /\ o.pc = "validating" => acted[i] > 0
      BY <1>5, <1>6, <2>3 DEF Busy
    <2>4. CASE /\ o.pc = "waiting" /\ s.status = "remediating"
               /\ o.obj.status = "remediating" /\ Even(s, acted[i], newest[i])
      BY <1>5, <2>4 DEF Busy
    <2>5. CASE /\ o.pc = "executing" /\ s.status = "remediating"
               /\ o.obj.status = "remediating" /\ acted[i] = s.count + 1
               /\ acted[i] <= Cap /\ newest[i] = o.at
      BY <1>2, <2>5 DEF Busy, SameBooks
    <2>6. CASE /\ o.pc = "finishing" /\ s.status = o.obj.status
               /\ s.status \in {"escalated", "resolved"}
               /\ Even(s, acted[i], newest[i])
      BY <1>5, <2>6 DEF Busy
    <2> QED
      BY <1>2, <2>1, <2>2, <2>3, <2>4, <2>5, <2>6 DEF Busy
  <1>8. Fits(o.obj, Engine, o, acted[i], newest[i], launched[i], restarts)
    BY <1>4, <1>7 DEF Fits
  <1>9. Becomes(i, o.obj, Engine, o, acted[i], newest[i], launched[i])
    BY <1>1, <1>2, <1>3, Parts DEF Becomes, task
  <1>10. Later(s, o.obj)
    BY <1>2, <1>7, LaterFacts
  <1>11. Advance(Phase(i), PhaseOf(o.obj), acted[i], acted[i])
    BY <1>2 DEF Phase, Advance
  <1> QED
    BY <1>1, <1>8, <1>9, <1>10, <1>11, Enters

\* A new incident is opened.
LEMMA CreateEntry ==
    ASSUME LedgerInv, NEW i \in Incident, store[i].status = "absent", create(i),
           UNCHANGED <<acted, newest, restarts>>
    PROVE  Entry(i)
  <1> DEFINE t == At("queued", "lifecycle", NewIncident)
             r == NewIncident
  <1>1. TypeOK /\ Engine # Nobody /\ Engine \in {Engine, Nobody}
    BY ManagerAssumption DEF LedgerInv, LeaseInv
  <1>2. live[i] = Nobody
    BY <1>1, Parts DEF create
  <1>3. /\ store[i] = Absent /\ acted[i] = 0 /\ newest[i] = 0 /\ launched[i] = 0
        /\ Known(i) = store[i]
    BY <1>2, Rests
  <1>4. t.pc = "queued" /\ t.job = "lifecycle" /\ t.obj = r
    BY AtFacts
  <1>5. /\ r.status = "open" /\ r.count = 0 /\ r.stamp = 0 /\ r.reopens = 0
        /\ r.resumed = FALSE /\ r.tried = {}
    BY DEF NewIncident, Blank
  <1>6. /\ Absent.status = "absent" /\ Absent.count = 0 /\ Absent.tried = {}
    BY DEF Absent, Blank
  <1>7. SetTask(i, Engine, t) /\ Persist(i, r)
    BY DEF create, spawn
  <1>8. Becomes(i, r, Engine, t, 0, 0, 1)
    <2>1. launched[i] + 1 = 1
      BY <1>3
    <2> QED
      BY <1>1, <1>3, <1>7, <2>1, Parts DEF Becomes, create
  <1> HIDE DEF t, r
  <1>9. Budgeted(r, 1)
    BY <1>5, RecordAssumption DEF Budgeted
  <1>10. Fits(r, Engine, t, 0, 0, 1, restarts)
    BY <1>4, <1>5, <1>9 DEF Fits, Busy, Queued, Even, SameBooks
  <1>11. Later(store[i], r)
    BY <1>3, <1>5, <1>6 DEF Later, IsClosed, ClosedStatus
  <1>12. Phase(i) = "absent" /\ PhaseOf(t.obj) = "working"
    <2>1. IsActive(r)
      BY <1>5, StatusFacts
    <2> QED
      BY <1>3, <1>4, <1>6, <2>1, PhaseFacts DEF Phase
  <1>13. Advance(Phase(i), PhaseOf(t.obj), acted[i], 0)
    BY <1>3, <1>12 DEF Advance
  <1> QED
    BY <1>1, <1>8, <1>10, <1>11, <1>13, Enters

\* A task is queued for an incident that rests.
LEMMA Spawned ==
    ASSUME LedgerInv, NEW i \in Incident, store[i].status # "absent",
           NEW job, try_acquire(i, Engine), spawn(i, job, store[i]),
           Queued(store[i], At("queued", job, store[i]), acted[i], newest[i],
                  restarts),
           Persist(i, store[i]) \/ UNCHANGED store,
           UNCHANGED <<acted, newest, launched, restarts>>
    PROVE  Entry(i)
  <1> DEFINE s == store[i]
             t == At("queued", job, s)
  <1>1. TypeOK /\ Engine # Nobody /\ Engine \in {Engine, Nobody}
    BY ManagerAssumption DEF LedgerInv, LeaseInv
  <1>2. live[i] = Nobody /\ SetTask(i, Engine, t)
    BY <1>1, Parts DEF spawn
  <1>3. Known(i) = s /\ s \in Record /\ Budgeted(s, launched[i])
    BY <1>2, RestsThere
  <1>4. t.pc = "queued" /\ t.obj = s
    BY AtFacts
  <1> HIDE DEF t
  <1>5. Becomes(i, s, Engine, t, acted[i], newest[i], launched[i])
    BY <1>1, <1>2, Parts DEF Becomes
  <1>6. Fits(s, Engine, t, acted[i], newest[i], launched[i], restarts)
    BY <1>3, <1>4 DEF Fits, Busy, SameBooks, t
  <1>7. Later(s, s) /\ PhaseOf(t.obj) = Phase(i)
    BY <1>3, <1>4, LaterFacts DEF Phase
  <1> QED
    BY <1>1, <1>5, <1>6, <1>7, Enters DEF Advance

\* An alert that joins an escalated incident.
LEMMA JoinEntry ==
    ASSUME LedgerInv, NEW i \in Incident, join_escalated(i, store[i]),
           UNCHANGED <<acted, newest, restarts>>
    PROVE  Entry(i)
  <1> DEFINE s == store[i]
  <1>1. live[i] = Nobody /\ s.status = "escalated" /\ Persist(i, s) /\ TypeOK
    BY DEF join_escalated, LedgerInv, LeaseInv
  <1>2. CASE UNCHANGED <<live, run, launched>>
    <2>1. UNCHANGED store
      BY <1>1 DEF Persist, TypeOK
    <2> QED
      BY <1>2, <2>1, Nothing
  <1>3. CASE /\ MayReconsider(s) /\ try_acquire(i, Engine)
             /\ spawn(i, "recheck", s) /\ UNCHANGED launched
    <2>1. AtRest(s, acted[i], newest[i], restarts)
      BY <1>1, RestsThere
    <2>2. Even(s, acted[i], newest[i])
      BY <1>3, <2>1 DEF AtRest, Lost, MayReconsider, AutoReconsiderable
    <2>3. At("queued", "recheck", s).job = "recheck"
      BY AtFacts
    <2>4. Queued(s, At("queued", "recheck", s), acted[i], newest[i], restarts)
      BY <1>1, <1>3, <2>2, <2>3 DEF Queued, Recheckable
    <2> QED
      BY <1>1, <1>3, <2>4, Spawned
  <1> QED
    BY <1>2, <1>3 DEF join_escalated

\* A recovery that is observed.
LEMMA CloseEntry ==
    ASSUME LedgerInv, NEW i \in Incident, store[i].status # "absent",
           close_unless_running(i), UNCHANGED <<live, run, launched>>,
           UNCHANGED <<acted, newest, restarts>>
    PROVE  Entry(i)
  <1> DEFINE s == store[i]
             r == [s EXCEPT !.status = "auto_resolved"]
  <1>1. CASE UNCHANGED store
    BY <1>1, Nothing
  <1>2. CASE live[i] # Nobody /\ Persist(i, LiveObject(i))
    BY <1>2, SaveLive
  <1>3. CASE ~IsClosed(s) /\ live[i] = Nobody /\ Persist(i, r)
    <2>1. /\ AtRest(s, acted[i], newest[i], restarts) /\ Budgeted(s, launched[i])
          /\ s \in Record /\ TypeOK /\ Known(i) = s
      BY <1>3, RestsThere
    <2>2. /\ SameBooks(r, s) /\ r.status = "auto_resolved" /\ r.reason = s.reason
      BY <2>1 DEF Record, SameBooks
    <2> HIDE DEF r
    <2>3. s.status = "escalated"
      BY <1>3, <2>1
      DEF AtRest, IsActive, IsClosed, ActiveStatus, ClosedStatus, Record, Status
    <2>4. IsClosed(r) /\ ~IsActive(r) /\ r.status # "absent"
      BY <2>2 DEF IsClosed, IsActive, ClosedStatus, ActiveStatus
    <2>5. AtRest(r, acted[i], newest[i], restarts)
      BY <2>1, <2>2, <2>4 DEF AtRest, Even, Lost, SameBooks
    <2>6. Budgeted(r, launched[i])
      BY <2>1, <2>2, SameBudget
    <2>7. Fits(r, Nobody, task(i), acted[i], newest[i], launched[i], restarts)
      BY <2>4, <2>5, <2>6 DEF Fits
    <2>8. Becomes(i, r, Nobody, task(i), acted[i], newest[i], launched[i])
      BY <1>3, <2>1, Parts DEF Becomes, task
    <2>9. Later(s, r)
      <3>1. s.count \in Nat
        BY <2>1 DEF Record
      <3> QED
        BY <1>3, <2>2, <3>1 DEF Later, SameBooks
    <2>10. Advance(Phase(i), PhaseOf(r), acted[i], acted[i])
      BY <2>1, <2>3, <2>4, PhaseFacts DEF Phase, Advance
    <2> QED
      BY <2>7, <2>8, <2>9, <2>10, Enters
  <1> QED
    BY <1>1, <1>2, <1>3 DEF close_unless_running

\* Incident i may be opened: the first of its problem, or the one before it
\* is closed.
Opening(i) ==
    \/ i[2] = 1
    \/ \E j \in Incident : /\ j[1] = i[1] /\ i[2] = j[2] + 1
                           /\ IsClosed(store[j])

\* An alert is an entry, in an incident that exists or may be opened.
LEMMA AlertEntry ==
    ASSUME LedgerInv, NEW p \in Problem, handle_alert(p)
    PROVE  \E i \in Incident :
              Entry(i) /\ (store[i].status # "absent" \/ Opening(i))
  <1>1. UNCHANGED <<acted, newest, restarts>>
    BY DEF handle_alert, worldVars
  <1>2. CASE Unknown(p) /\ <<p, 1>> \in Incident /\ create(<<p, 1>>)
    <2>1. store[<<p, 1>>].status = "absent"
      <3>1. 1 \in 1..MaxOccurrences
        BY <1>2 DEF Incident
      <3> QED
        BY <1>2, <3>1 DEF Unknown
    <2>2. Entry(<<p, 1>>)
      BY <1>1, <1>2, <2>1, CreateEntry
    <2> QED
      BY <1>2, <2>2 DEF Opening
  <1>3. ASSUME NEW i \in Incident, i[1] = p, IsLatest(i),
               \/ join_running(i)
               \/ join_escalated(i, store[i])
               \/ IsActive(store[i]) /\ join_escalated(i, interrupt(store[i]))
               \/ absorb_after_resolution(i)
        PROVE  store[i].status # "absent" /\ Entry(i)
    <2>1. store[i].status # "absent"
      BY <1>3 DEF IsLatest
    <2>2. CASE join_running(i)
      BY <1>1, <2>1, <2>2, SaveLive DEF join_running
    <2>3. CASE join_escalated(i, store[i])
      BY <1>1, <2>1, <2>3, JoinEntry
    <2>4. CASE IsActive(store[i]) /\ join_escalated(i, interrupt(store[i]))
      <3>1. live[i] = Nobody
        BY <2>4 DEF join_escalated
      <3> QED
        BY <2>1, <2>4, <3>1, RestsThere DEF AtRest
    <2>5. CASE absorb_after_resolution(i)
      BY <1>1, <2>1, <2>5, Nothing DEF absorb_after_resolution
    <2> QED
      BY <1>3, <2>1, <2>2, <2>3, <2>4, <2>5
  <1>4. ASSUME NEW j \in Incident, j[1] = p, IsLatest(j), IsClosed(store[j]),
               j[2] < MaxOccurrences, create(<<p, j[2] + 1>>)
        PROVE  \E i \in Incident : Entry(i) /\ Opening(i)
    <2> DEFINE i == <<p, j[2] + 1>>
    <2>1. j[2] \in 1..MaxOccurrences /\ MaxOccurrences \in Nat
      BY RecordAssumption DEF Incident
    <2>2. j[2] + 1 \in 1..MaxOccurrences /\ j[2] + 1 > j[2]
      BY <1>4, <2>1
    <2>3. i \in Incident /\ i[1] = p /\ i[2] = j[2] + 1
      BY <2>2 DEF Incident
    <2>4. store[i].status = "absent"
      BY <1>4, <2>2 DEF IsLatest
    <2>5. Entry(i)
      BY <1>1, <1>4, <2>3, <2>4, CreateEntry
    <2> QED
      BY <1>4, <2>3, <2>5 DEF Opening
  <1> QED
    BY <1>2, <1>3, <1>4 DEF handle_alert

\* An observed recovery, from Alertmanager or from the cluster.
LEMMA RecoveryEntry ==
    ASSUME LedgerInv
    PROVE  /\ \A p \in Problem : handle_resolved(p) =>
                 \/ UNCHANGED <<store, live, run, acted, newest, launched, restarts>>
                 \/ \E i \in Incident : store[i].status # "absent" /\ Entry(i)
           /\ \A i \in Incident : auto_resolve_incident(i) =>
                 store[i].status # "absent" /\ Entry(i)
  <1>1. ASSUME NEW p \in Problem, handle_resolved(p)
        PROVE  \/ UNCHANGED <<store, live, run, acted, newest, launched, restarts>>
               \/ \E i \in Incident : store[i].status # "absent" /\ Entry(i)
    <2>1. UNCHANGED <<live, run, acted, newest, launched, restarts>>
      BY <1>1 DEF handle_resolved, worldVars
    <2>2. CASE UNCHANGED store
      BY <2>1, <2>2
    <2>3. ASSUME NEW i \in Incident, IsLatest(i), close_unless_running(i)
          PROVE  store[i].status # "absent" /\ Entry(i)
      BY <2>1, <2>3, CloseEntry DEF IsLatest
    <2> QED
      BY <1>1, <2>2, <2>3 DEF handle_resolved
  <1>2. ASSUME NEW i \in Incident, auto_resolve_incident(i)
        PROVE  store[i].status # "absent" /\ Entry(i)
    BY <1>2, CloseEntry DEF auto_resolve_incident, worldVars
  <1> QED
    BY <1>1, <1>2

\* An administrator has the engine look again, or dig.
LEMMA RequestEntry ==
    ASSUME Unattended, LedgerInv, NEW i \in Incident, Request(i)
    PROVE  store[i].status # "absent" /\ Entry(i)
  <1>1. UNCHANGED <<acted, newest, launched, restarts>>
    BY DEF Request, reinvestigate, suggest_fix, authorize_incident,
           authorize_deep_proposal, reject_deep_proposal, worldVars, Keep
  <1>2. TypeOK /\ restarts \in Nat /\ MaxRestarts \in Nat /\ restarts <= MaxRestarts
    BY ManagerAssumption DEF LedgerInv, LeaseInv, TypeOK
  <1>3. CASE reinvestigate(i)
    <2>1. /\ store[i].status = "escalated" /\ try_acquire(i, Engine)
          /\ spawn(i, "forced", store[i]) /\ UNCHANGED store
          /\ "reinvestigate" \in HumanOps
      BY <1>3 DEF reinvestigate
    <2>2. live[i] = Nobody
      BY <2>1 DEF try_acquire
    <2>3. AtRest(store[i], acted[i], newest[i], restarts)
      BY <2>1, <2>2, RestsThere
    <2>4. MaxRestarts = 0
      BY <2>1 DEF Unattended
    <2>5. Even(store[i], acted[i], newest[i])
      BY <1>2, <2>3, <2>4 DEF AtRest, Lost
    <2>6. At("queued", "forced", store[i]).job = "forced"
      BY AtFacts
    <2>7. Queued(store[i], At("queued", "forced", store[i]), acted[i], newest[i],
                 restarts)
      BY <2>1, <2>5, <2>6 DEF Queued
    <2> QED
      BY <1>1, <2>1, <2>7, Spawned
  <1>4. CASE suggest_fix(i)
    <2>1. /\ store[i].diagnosed /\ try_acquire(i, Engine)
          /\ spawn(i, "suggest", store[i]) /\ UNCHANGED store
      BY <1>4 DEF suggest_fix
    <2>2. live[i] = Nobody
      BY <2>1 DEF try_acquire
    <2>3. store[i].status # "absent"
      <3>1. Absent.diagnosed = FALSE
        BY DEF Absent, Blank
      <3> QED
        BY <2>1, <2>2, <3>1, Rests
    <2>4. AtRest(store[i], acted[i], newest[i], restarts)
      BY <2>2, <2>3, RestsThere
    <2>5. At("queued", "suggest", store[i]).job = "suggest"
      BY AtFacts
    <2>6. Queued(store[i], At("queued", "suggest", store[i]), acted[i], newest[i],
                 restarts)
      BY <2>4, <2>5 DEF Queued
    <2> QED
      BY <1>1, <2>1, <2>3, <2>6, Spawned
  <1>5. ASSUME NEW a \in Admin,
               \/ authorize_incident(i, a) \/ authorize_deep_proposal(i, a)
               \/ reject_deep_proposal(i, a)
        PROVE  FALSE
    BY <1>5 DEF Unattended, authorize_incident, authorize_deep_proposal,
                reject_deep_proposal
  <1> QED
    BY <1>3, <1>4, <1>5 DEF Request

\* No administrator's task is under way.
LEMMA NoAdminStep ==
    ASSUME LedgerInv, NEW i \in Incident, NEW a \in Admin PROVE ~AdminStep(i, a)
  <1>1. run[i][a] = Idle /\ Idle.pc = "idle"
    BY DEF LedgerInv, AdminsIdle, Idle
  <1> QED
    BY <1>1 DEF AdminStep, Granted, Authorised, AuthChecked, AuthExecuted,
                AuthValidated, AuthFinished, RejectReads, RejectWrites

-----------------------------------------------------------------------------
(***************************************************************************)
(* A restart.                                                              *)
(***************************************************************************)
\* The stored record is in the phase of what is known.
LEMMA StoredPhase ==
    ASSUME LedgerInv, NEW i \in Incident
    PROVE  /\ Phase(i) = PhaseOf(store[i])
           /\ IsActive(store[i]) => live[i] = Engine
  <1>1. CASE live[i] = Nobody
    <2>1. Absent.status = "absent"
      BY DEF Absent, Blank
    <2>2. ~IsActive(store[i])
      BY <1>1, <2>1, Rests, StatusFacts DEF AtRest
    <2> QED
      BY <1>1, <2>2, Rests DEF Phase
  <1>2. CASE live[i] = Engine
    <2>1. HoldsLease(task(i)) /\ Known(i) = task(i).obj
      BY <1>2, Holder
    <2>2. Busy(store[i], task(i), acted[i], newest[i], restarts)
      BY <2>1, Works
    <2>3. \/ IsActive(store[i]) /\ IsActive(task(i).obj)
          \/ store[i].status = task(i).obj.status
      BY <2>2, StatusFacts DEF Busy
    <2>4. PhaseOf(store[i]) = PhaseOf(task(i).obj)
      BY <2>3, PhaseFacts
    <2> QED
      BY <1>2, <2>1, <2>4 DEF Phase
  <1> QED
    BY <1>1, <1>2, Holder

\* What is known of incident i when an active one is found at startup.
LEMMA Interrupted ==
    ASSUME LedgerInv, NEW i \in Incident, IsActive(store[i])
    PROVE  LET s == store[i] IN
           /\ s \in Record /\ s.status # "absent" /\ Budgeted(s, launched[i])
           /\ \/ Even(s, acted[i], newest[i])
              \/ /\ s.status = "remediating" /\ acted[i] = s.count + 1
                 /\ acted[i] <= Cap
  <1>1. HoldsLease(task(i))
    BY StoredPhase, Holder
  <1>2. Busy(store[i], task(i), acted[i], newest[i], restarts)
    BY <1>1, Works
  <1>3. store[i].status # "escalated"
    BY StatusFacts
  <1>4. ~AtRest(store[i], acted[i], newest[i], restarts)
    BY DEF AtRest
  <1> QED
    BY <1>1, <1>2, <1>3, <1>4, Works DEF Busy, Queued, Recheckable

\* And of one that is not active.
LEMMA Undisturbed ==
    ASSUME LedgerInv, NEW i \in Incident, ~IsActive(store[i])
    PROVE  \/ /\ store[i] = Absent /\ acted[i] = 0 /\ newest[i] = 0
              /\ launched[i] = 0
           \/ /\ store[i].status # "absent" /\ Budgeted(store[i], launched[i])
              /\ AtRest(store[i], acted[i], newest[i], restarts)
  <1>1. CASE live[i] = Nobody
    BY <1>1, Rests
  <1>2. CASE live[i] = Engine
    <2>1. HoldsLease(task(i))
      BY <1>2, Holder
    <2>2. /\ Busy(store[i], task(i), acted[i], newest[i], restarts)
          /\ store[i].status # "absent" /\ Budgeted(store[i], launched[i])
      BY <2>1, Works
    <2>3. /\ store[i].status \notin {"open", "remediating"}
      BY StatusFacts
    <2>4. AtRest(store[i], acted[i], newest[i], restarts)
      BY <2>2, <2>3 DEF Busy, Queued, AtRest
    <2> QED
      BY <2>2, <2>4
  <1> QED
    BY <1>1, <1>2, Holder

\* A restart leaves the books of every incident right, and takes nothing up
\* again that has been acted on.
LEMMA CrashEntry ==
    ASSUME LedgerInv, CrashAndRestart, NEW i \in Incident
    PROVE  /\ Ledger(i)' /\ Later(store[i], store'[i]) /\ acted'[i] = acted[i]
           /\ \A a \in Admin : run'[i][a] = Idle
           /\ \/ Phase(i)' = Phase(i) /\ (Phase(i) = "working" => acted[i] = 0)
              \/ Phase(i) = "working" /\ Phase(i)' = "waiting"
  <1> DEFINE s == store[i]
             q == restarts + 1
  <1>1. /\ TypeOK /\ restarts \in Nat /\ s \in Record /\ Engine # Nobody
        /\ Engine \in Writer /\ Engine \notin Admin /\ Admin \subseteq Writer
        /\ launched[i] \in Nat
    BY LocalTypes, ManagerAssumption DEF LedgerInv, LeaseInv, TypeOK, Writer
  <1>2. /\ store'[i] = (IF IsActive(s) THEN Recovered(s) ELSE s)
        /\ live'[i] = (IF Resumes(i) THEN Engine ELSE Nobody)
        /\ task(i)' = (IF Resumes(i) THEN At("queued", "lifecycle", Resume(s))
                       ELSE Idle)
        /\ \A a \in Admin : run'[i][a] = Idle
        /\ launched'[i] = (IF Resumes(i) THEN launched[i] + 1 ELSE launched[i])
        /\ acted'[i] = acted[i] /\ newest'[i] = newest[i] /\ restarts' = q
    BY <1>1 DEF CrashAndRestart, recover_interrupted, task, worldVars
  <1>3. q > 0 /\ q > restarts
    BY <1>1
  <1>4. Phase(i) = PhaseOf(s)
    BY StoredPhase
  <1>5. Known(i)' = IF Resumes(i) THEN task(i)'.obj ELSE store'[i]
    BY <1>1, <1>2 DEF Known, LiveObject, task
  <1> HIDE DEF q
  <1>6. CASE IsActive(s) /\ CanResume(s)
    <2> DEFINE r == Resume(s)
               t == At("queued", "lifecycle", r)
    <2>1. Resumes(i) /\ Recovered(s) = r
      BY <1>6 DEF Resumes, Recovered
    <2>2. /\ r.status = "open" /\ r.count = s.count /\ r.tried = s.tried
          /\ r.stamp = s.stamp /\ r.reopens = s.reopens /\ r.resumed = TRUE
      BY <1>1 DEF Resume, Record
    <2>3. t.pc = "queued" /\ t.job = "lifecycle" /\ t.obj = r
      BY AtFacts
    <2>4. /\ s.count = 0 /\ ~s.resumed /\ s.status \in {"open", "investigating"}
      BY <1>6 DEF CanResume
    <2>5. Even(s, acted[i], newest[i]) /\ Budgeted(s, launched[i])
      BY <1>6, <2>4, Interrupted
    <2>6. store'[i] = r /\ live'[i] = Engine /\ task(i)' = t
          /\ launched'[i] = launched[i] + 1
      BY <1>2, <1>6, <2>1
    <2> HIDE DEF r, t
    <2>7. Budgeted(r, launched[i] + 1)
      <3>1. s.reopens \in Nat
        BY <1>1 DEF Record
      <3>2. launched[i] <= 1 + s.reopens
        BY <1>1, <2>4, <2>5, <3>1 DEF Budgeted
      <3>3. launched[i] + 1 <= 1 + s.reopens + 1
        BY <1>1, <3>1, <3>2
      <3> QED
        BY <2>2, <2>5, <3>3 DEF Budgeted
    <2>8. Even(r, acted[i], newest[i]) /\ acted[i] = 0
      BY <2>2, <2>4, <2>5 DEF Even
    <2>9. Fits(r, Engine, t, acted[i], newest[i], launched[i] + 1, q)
      BY <2>2, <2>3, <2>4, <2>7, <2>8 DEF Fits, Busy, Queued, SameBooks
    <2>10. Ledger(i)'
      BY <1>2, <2>6, <2>9 DEF Ledger
    <2>11. Phase(i)' = "working" /\ Phase(i) = "working"
      <3>1. Known(i)' = r /\ IsActive(r)
        BY <1>5, <2>1, <2>2, <2>3, <2>6, StatusFacts
      <3> QED
        BY <1>4, <1>6, <3>1, PhaseFacts DEF Phase
    <2>12. Later(s, r)
      <3>1. s.count \in Nat /\ ~IsClosed(s)
        BY <1>1, <1>6, StatusFacts DEF Record
      <3> QED
        BY <2>2, <3>1 DEF Later
    <2> QED
      BY <1>2, <2>6, <2>8, <2>10, <2>11, <2>12
  <1>7. CASE IsActive(s) /\ ~CanResume(s)
    <2> DEFINE r == interrupt(s)
    <2>1. ~Resumes(i) /\ Recovered(s) = r
      BY <1>7 DEF Resumes, Recovered
    <2>2. /\ r.status = "escalated" /\ r.reason = "interrupted_by_restart"
          /\ SameBooks(r, s)
      BY <1>1 DEF interrupt, Escalate, Record, SameBooks
    <2>3. store'[i] = r /\ live'[i] = Nobody /\ launched'[i] = launched[i]
      BY <1>2, <1>7, <2>1
    <2> HIDE DEF r
    <2>4. /\ Budgeted(s, launched[i])
          /\ \/ Even(s, acted[i], newest[i])
             \/ acted[i] = s.count + 1 /\ acted[i] <= Cap
      BY <1>7, Interrupted
    <2>5. Budgeted(r, launched[i])
      BY <2>2, <2>4, SameBudget
    <2>6. ~IsActive(r) /\ r.status # "absent"
      BY <2>2, StatusFacts
    <2>7. AtRest(r, acted[i], newest[i], q)
      BY <1>3, <2>2, <2>4, <2>6 DEF AtRest, Even, Lost, SameBooks
    <2>8. Fits(r, Nobody, task(i)', acted[i], newest[i], launched[i], q)
      BY <2>5, <2>6, <2>7 DEF Fits
    <2>9. Ledger(i)'
      BY <1>2, <2>3, <2>8 DEF Ledger
    <2>10. Phase(i) = "working" /\ Phase(i)' = "waiting"
      BY <1>4, <1>5, <1>7, <2>1, <2>2, <2>3, PhaseFacts DEF Phase
    <2>11. Later(s, r)
      <3>1. s.count \in Nat /\ ~IsClosed(s)
        BY <1>1, <1>7, StatusFacts DEF Record
      <3> QED
        BY <2>2, <3>1 DEF Later, SameBooks
    <2> QED
      BY <1>2, <2>3, <2>9, <2>10, <2>11
  <1>8. CASE ~IsActive(s)
    <2>1. ~Resumes(i)
      BY <1>8 DEF Resumes
    <2>2. store'[i] = s /\ live'[i] = Nobody /\ launched'[i] = launched[i]
      BY <1>2, <1>8, <2>1
    <2>3. Fits(s, Nobody, task(i)', acted[i], newest[i], launched[i], q)
      <3>1. CASE /\ s = Absent /\ acted[i] = 0 /\ newest[i] = 0 /\ launched[i] = 0
        BY <3>1 DEF Fits
      <3>2. CASE /\ s.status # "absent" /\ Budgeted(s, launched[i])
                 /\ AtRest(s, acted[i], newest[i], restarts)
        <4>1. AtRest(s, acted[i], newest[i], q)
          BY <1>3, <3>2 DEF AtRest, Lost
        <4> QED
          BY <3>2, <4>1 DEF Fits
      <3> QED
        BY <1>8, <3>1, <3>2, Undisturbed
    <2>4. Ledger(i)'
      BY <1>2, <2>2, <2>3 DEF Ledger
    <2>5. Phase(i)' = Phase(i)
      BY <1>4, <1>5, <2>1, <2>2 DEF Phase
    <2>6. Phase(i) # "working"
      BY <1>4, <1>8 DEF PhaseOf
    <2>7. Later(s, s)
      BY <1>1, LaterFacts
    <2> QED
      BY <1>2, <2>2, <2>4, <2>5, <2>6, <2>7
  <1> QED
    BY <1>6, <1>7, <1>8

-----------------------------------------------------------------------------
(***************************************************************************)
(* The invariant is inductive.                                             *)
(***************************************************************************)
\* It holds initially.
LEMMA LedgerInit == Init => LedgerInv
  <1> SUFFICES ASSUME Init PROVE LedgerInv
    OBVIOUS
  <1>1. LeaseInv
    BY InitInv
  <1>2. restarts <= MaxRestarts
    BY ManagerAssumption DEF Init
  <1>3. AdminsIdle
    BY DEF Init, AdminsIdle, Writer
  <1>4. \A i \in Incident : Ledger(i)
    BY DEF Init, Ledger, Fits
  <1>5. OneOpenPerProblem
    BY DEF Init, OneOpenPerProblem, Absent, Blank
  <1> QED
    BY <1>1, <1>2, <1>3, <1>4, <1>5 DEF LedgerInv

\* Every step is an entry of one incident, a restart, or changes nothing.
LEMMA Kinds ==
    ASSUME Unattended, LedgerInv, [Next]_vars
    PROVE  \/ UNCHANGED <<store, live, run, acted, newest, launched, restarts>>
           \/ CrashAndRestart
           \/ \E i \in Incident :
                 Entry(i) /\ (store[i].status # "absent" \/ Opening(i))
  <1>1. ASSUME NEW i \in Incident, Step(i)
        PROVE  store[i].status # "absent" /\ Entry(i)
    <2>1. TypeOK /\ LocalsOK
      BY DEF LedgerInv, LeaseInv
    <2>2. HoldsLease(task(i))
      BY <1>1, <2>1, StepShape DEF EngineShape
    <2>3. store[i].status # "absent"
      BY <2>2, Works
    <2> QED
      BY <1>1, <2>3, StepEntry
  <1>2. CASE UNCHANGED vars
    BY <1>2 DEF vars, worldVars
  <1> QED
    BY <1>1, <1>2, AlertEntry, RecoveryEntry, RequestEntry, NoAdminStep
    DEF Next, Webhook

\* A step never reopens what is closed, and never forgets a result.
LEMMA AlwaysLater ==
    ASSUME Unattended, LedgerInv, [Next]_vars, NEW i \in Incident
    PROVE  Later(store[i], store'[i])
  <1>1. Later(store[i], store[i])
    BY LocalTypes, LaterFacts DEF LedgerInv, LeaseInv
  <1>2. CASE UNCHANGED <<store, live, run, acted, newest, launched, restarts>>
    BY <1>1, <1>2
  <1>3. CASE CrashAndRestart
    BY <1>3, CrashEntry
  <1>4. ASSUME NEW j \in Incident, Entry(j) PROVE Later(store[i], store'[i])
    BY <1>1, <1>4 DEF Entry
  <1> QED
    BY <1>2, <1>3, <1>4, Kinds

\* A problem still has at most one incident that is not closed.
LEMMA OneOpenNext ==
    ASSUME Unattended, LedgerInv, [Next]_vars PROVE OneOpenPerProblem'
  <1>1. \A i \in Incident :
           store[i].status \in ClosedStatus => store'[i].status \in ClosedStatus
    BY AlwaysLater DEF Later, IsClosed
  <1>2. ASSUME \A i \in Incident : /\ store[i].status = "absent"
                                   => store'[i].status = "absent"
        PROVE  OneOpenPerProblem'
    BY <1>1, <1>2 DEF LedgerInv, OneOpenPerProblem
  <1>3. CASE UNCHANGED <<store, live, run, acted, newest, launched, restarts>>
    BY <1>2, <1>3
  <1>4. CASE CrashAndRestart
    <2>1. \A i \in Incident : store[i].status = "absent" => store'[i] = store[i]
      BY <1>4, StatusFacts DEF CrashAndRestart, recover_interrupted
    <2> QED
      BY <1>2, <2>1
  <1>5. ASSUME NEW i \in Incident, Entry(i), store[i].status # "absent"
        PROVE  OneOpenPerProblem'
    BY <1>2, <1>5 DEF Entry
  <1>6. ASSUME NEW i \in Incident, Entry(i), Opening(i) PROVE OneOpenPerProblem'
    <2> SUFFICES ASSUME NEW j \in Incident, NEW h \in Incident, j[1] = h[1],
                        j[2] < h[2], store'[h].status # "absent"
                 PROVE  store'[j].status \in ClosedStatus
      BY DEF OneOpenPerProblem
    <2>1. CASE h # i
      BY <1>1, <1>6, <2>1 DEF Entry, LedgerInv, OneOpenPerProblem
    <2>2. CASE h = i /\ i[2] = 1
      <3>1. j[2] \in 1..MaxOccurrences
        BY DEF Incident
      <3> QED
        BY <2>2, <3>1
    <2>3. ASSUME h = i, NEW g \in Incident, g[1] = i[1], i[2] = g[2] + 1,
                 IsClosed(store[g])
          PROVE  store'[j].status \in ClosedStatus
      <3>1. /\ j[2] \in Nat /\ g[2] \in Nat
            /\ j = <<j[1], j[2]>> /\ g = <<g[1], g[2]>>
        BY DEF Incident
      <3>2. j[2] < g[2] + 1
        BY <2>3
      <3>3. j[2] = g[2] \/ j[2] < g[2]
        BY <3>1, <3>2
      <3>4. CASE j[2] = g[2]
        <4>1. j = g
          BY <2>3, <3>1, <3>4
        <4> QED
          BY <1>1, <2>3, <4>1 DEF IsClosed
      <3>5. CASE j[2] < g[2]
        <4>1. j[1] = g[1] /\ store[g].status # "absent"
          BY <2>3 DEF IsClosed, ClosedStatus
        <4> QED
          BY <1>1, <3>5, <4>1 DEF LedgerInv, OneOpenPerProblem
      <3> QED
        BY <3>3, <3>4, <3>5
    <2> QED
      BY <1>6, <2>1, <2>2, <2>3 DEF Opening
  <1> QED
    BY <1>3, <1>4, <1>5, <1>6, Kinds

\* It is preserved.
LEMMA LedgerNext ==
    ASSUME Unattended PROVE LedgerInv /\ [Next]_vars => LedgerInv'
  <1> SUFFICES ASSUME LedgerInv, [Next]_vars PROVE LedgerInv'
    OBVIOUS
  <1>1. LeaseInv' /\ OneOpenPerProblem'
    BY NextInv, OneOpenNext DEF LedgerInv
  <1>2. CASE UNCHANGED <<store, live, run, acted, newest, launched, restarts>>
    BY <1>1, <1>2 DEF LedgerInv, AdminsIdle, Ledger, task
  <1>3. CASE CrashAndRestart
    <2>1. \A i \in Incident : Ledger(i)' /\ \A a \in Admin : run'[i][a] = Idle
      BY <1>3, CrashEntry
    <2>2. restarts' <= MaxRestarts
      BY <1>3, ManagerAssumption DEF CrashAndRestart, LedgerInv, LeaseInv, TypeOK
    <2> QED
      BY <1>1, <2>1, <2>2 DEF LedgerInv, AdminsIdle
  <1>4. ASSUME NEW i \in Incident, Entry(i) PROVE LedgerInv'
    <2>1. \A j \in Incident : Ledger(j)'
      BY <1>4 DEF Entry
    <2> QED
      BY <1>1, <1>4, <2>1 DEF LedgerInv, Entry
  <1> QED
    BY <1>2, <1>3, <1>4, Kinds

-----------------------------------------------------------------------------
(***************************************************************************)
(* What the invariant implies.                                             *)
(***************************************************************************)
\* What was done, whoever holds the incident.
LEMMA Done ==
    ASSUME LedgerInv, NEW i \in Incident
    PROVE  /\ acted[i] <= Cap
           /\ launched[i] <= 2 + MaxReopens
           /\ IsActive(store[i]) => live[i] # Nobody
           /\ /\ task(i).pc \in {"queued", "rechecking"}
              /\ task(i).job \in {"lifecycle", "recheck"}
              => acted[i] = 0
  <1>1. /\ Cap \in Nat /\ MaxReopens \in Nat /\ Engine # Nobody
        /\ launched[i] \in Nat /\ store[i] \in Record /\ Ledger(i)
    BY RecordAssumption, ManagerAssumption, LocalTypes
    DEF LedgerInv, LeaseInv, TypeOK
  <1>2. store[i].reopens \in Nat
    BY <1>1 DEF Record
  <1>3. \/ acted[i] = 0 /\ launched[i] = 0
        \/ /\ Budgeted(store[i], launched[i])
           /\ AtRest(store[i], acted[i], newest[i], restarts)
        \/ /\ Budgeted(store[i], launched[i])
           /\ Busy(store[i], task(i), acted[i], newest[i], restarts)
    BY <1>1 DEF Ledger, Fits
  <1>4. launched[i] <= 2 + MaxReopens
    <2>1. CASE launched[i] = 0
      BY <1>1, <2>1
    <2>2. CASE Budgeted(store[i], launched[i])
      <3>1. launched[i] <= 1 + store[i].reopens + 1 /\ store[i].reopens <= MaxReopens
        BY <1>1, <1>2, <2>2 DEF Budgeted
      <3> QED
        BY <1>1, <1>2, <3>1
    <2> QED
      BY <1>3, <2>1, <2>2
  <1>5. acted[i] <= Cap
    <2>1. \/ acted[i] = 0 \/ acted[i] <= Cap
          \/ Even(store[i], acted[i], newest[i]) /\ store[i].count <= Cap
      BY <1>3 DEF Budgeted, AtRest, Lost, Busy, Queued
    <2> QED
      BY <1>1, <2>1 DEF Even
  <1>6. IsActive(store[i]) => live[i] # Nobody
    BY <1>1, StoredPhase
  <1>7. ASSUME task(i).pc = "rechecking" PROVE acted[i] = 0
    <2>1. HoldsLease(task(i))
      BY <1>7 DEF HoldsLease
    <2>2. Recheckable(store[i]) /\ Even(store[i], acted[i], newest[i])
      BY <1>7, <2>1, Works DEF Busy, Working
    <2> QED
      BY <2>2 DEF Recheckable, MayReconsider, Even
  <1>8. ASSUME task(i).pc = "queued", task(i).job \in {"lifecycle", "recheck"}
        PROVE  acted[i] = 0
    <2>1. HoldsLease(task(i))
      BY <1>8 DEF HoldsLease
    <2>2. Queued(store[i], task(i), acted[i], newest[i], restarts)
      BY <1>8, <2>1, Works DEF Busy, Working
    <2>3. store[i].count = 0 /\ Even(store[i], acted[i], newest[i])
      BY <1>8, <2>2 DEF Queued, Recheckable, MayReconsider
    <2> QED
      BY <2>3 DEF Even
  <1> QED
    BY <1>4, <1>5, <1>6, <1>7, <1>8

\* The invariant holds in every reachable state.
LEMMA LedgerInvariant == ASSUME Unattended PROVE Spec => []LedgerInv
  <1>1. Init => LedgerInv
    BY LedgerInit
  <1>2. LedgerInv /\ [Next]_vars => LedgerInv'
    BY LedgerNext
  <1> QED
    BY <1>1, <1>2, PTL DEF Spec

(***************************************************************************)
(* The action budget (policy.py, max_actions_per_incident): what is really *)
(* done to the cluster for one incident never exceeds it, over any number  *)
(* of cycles, reopenings and restarts.                                     *)
(***************************************************************************)
THEOREM ActionsAreBounded == ASSUME Unattended PROVE Spec => []ActionBudget
  <1>1. LedgerInv => ActionBudget
    BY Done DEF ActionBudget
  <1> QED
    BY <1>1, LedgerInvariant, PTL

(***************************************************************************)
(* _join_escalated and recover_interrupted, "never repeated blindly":      *)
(* nothing the engine starts by itself is for an incident whose Deployment *)
(* it has already changed.                                                 *)
(***************************************************************************)
THEOREM NeverRepeatedBlindly ==
    ASSUME Unattended PROVE Spec => []NoUnattendedRetry
  <1>1. LedgerInv => NoUnattendedRetry
    BY Done DEF NoUnattendedRetry
  <1> QED
    BY <1>1, LedgerInvariant, PTL

\* Nothing loops: the lifecycles of an incident that nobody asked for are
\* its first, one after a restart, and one for each reopening allowed.
THEOREM LaunchesAreBounded == ASSUME Unattended PROVE Spec => []LaunchBudget
  <1>1. LedgerInv => LaunchBudget
    BY Done DEF LaunchBudget
  <1> QED
    BY <1>1, LedgerInvariant, PTL

\* No incident is left in an active status with no task to end it, whatever
\* is interrupted and whenever the process restarts (recover_interrupted).
THEOREM NothingIsOrphaned == ASSUME Unattended PROVE Spec => []NoOrphan
  <1>1. LedgerInv => NoOrphan
    BY Done DEF NoOrphan
  <1> QED
    BY <1>1, LedgerInvariant, PTL

\* handle_alert opens the next incident of a problem only over a closed one.
THEOREM OneIncidentIsOpen == ASSUME Unattended PROVE Spec => []OneOpenPerProblem
  <1>1. LedgerInv => OneOpenPerProblem
    BY DEF LedgerInv
  <1> QED
    BY <1>1, LedgerInvariant, PTL

(***************************************************************************)
(* A closed incident is history: no save by a lifecycle that began before, *)
(* no alert and no restart takes it out of the status it was closed with.  *)
(***************************************************************************)
THEOREM ClosedStaysClosed == ASSUME Unattended PROVE Spec => ClosedIsFinal
  <1>1. LedgerInv /\ [Next]_vars => [StaysClosed]_vars
    BY AlwaysLater DEF Later, StaysClosed
  <1> QED
    BY <1>1, LedgerInvariant, PTL DEF Spec, ClosedIsFinal

\* The lost update the lease exists for does not happen: no save of a record
\* forgets an executed action the stored one had.
THEOREM ResultsAreKept == ASSUME Unattended PROVE Spec => NoLostResult
  <1>1. LedgerInv /\ [Next]_vars => [KeepsResults]_vars
    BY AlwaysLater DEF Later, KeepsResults
  <1> QED
    BY <1>1, LedgerInvariant, PTL DEF Spec, NoLostResult

-----------------------------------------------------------------------------
(***************************************************************************)
(* Without a restart nothing that was done is ever forgotten.              *)
(***************************************************************************)
\* What is known then counts what was done, but for what is being executed.
LEMMA Audited ==
    ASSUME MaxRestarts = 0, LedgerInv, NEW i \in Incident
    PROVE  /\ acted[i] = Known(i).count + InFlight(i)
           /\ \/ Even(store[i], acted[i], newest[i])
              \/ task(i).pc = "executing"
  <1>1. /\ restarts = 0 /\ store[i] \in Record /\ TypeOK /\ AdminsIdle
        /\ Writer = Admin \cup {Engine} /\ Idle.pc = "idle"
    <2>1. restarts \in Nat /\ restarts <= 0 /\ TypeOK /\ AdminsIdle
      BY DEF LedgerInv, LeaseInv, TypeOK
    <2> QED
      BY <2>1, LocalTypes DEF Writer, Idle
  <1>2. store[i].count \in Nat
    BY <1>1 DEF Record
  <1>3. InFlight(i) = IF task(i).pc = "executing" THEN 1 ELSE 0
    <2>1. \A a \in Admin : run[i][a].pc = "idle"
      BY <1>1 DEF AdminsIdle
    <2>2. task(i).pc # "auth_executing"
      <3>1. task(i).pc = "auth_executing" => HoldsLease(task(i))
        BY DEF HoldsLease
      <3> QED
        BY <3>1, Works DEF Busy, Working
    <2> QED
      BY <1>1, <2>1, <2>2 DEF InFlight, task
  <1>4. CASE live[i] = Nobody
    <2>1. ~HoldsLease(task(i)) /\ Known(i) = store[i]
      BY <1>4, Holder, ManagerAssumption
    <2>2. task(i).pc # "executing"
      BY <2>1 DEF HoldsLease
    <2>3. Absent.count = 0 /\ Absent.stamp = 0
      BY DEF Absent, Blank
    <2>4. Even(store[i], acted[i], newest[i])
      BY <1>1, <1>4, <2>3, Rests DEF AtRest, Lost, Even
    <2> QED
      BY <1>2, <1>3, <2>1, <2>2, <2>4 DEF Even
  <1>5. CASE live[i] = Engine
    <2>1. HoldsLease(task(i)) /\ Known(i) = task(i).obj
      BY <1>5, Holder
    <2>2. /\ Busy(store[i], task(i), acted[i], newest[i], restarts)
          /\ task(i).obj.count = store[i].count
      BY <2>1, Works DEF SameBooks
    <2>3. \/ task(i).pc = "executing" /\ acted[i] = store[i].count + 1
          \/ task(i).pc # "executing" /\ Even(store[i], acted[i], newest[i])
      BY <1>1, <2>2 DEF Busy, Queued, AtRest, Lost, Working
    <2> QED
      BY <1>2, <1>3, <2>1, <2>2, <2>3 DEF Even
  <1> QED
    BY <1>4, <1>5, Holder

(***************************************************************************)
(* The audit trail is complete: every action started for an incident is on *)
(* its record or still being executed.  A restart may lose the one that    *)
(* was under way, which is why the record is then never acted on again.    *)
(***************************************************************************)
THEOREM AuditIsComplete ==
    ASSUME Unattended, MaxRestarts = 0 PROVE Spec => []AuditComplete
  <1>1. LedgerInv => AuditComplete
    BY Audited DEF AuditComplete
  <1> QED
    BY <1>1, LedgerInvariant, PTL

\* Only TryCandidate starts an action of a lifecycle.
LEMMA Starts ==
    ASSUME Unattended, LedgerInv, [Next]_vars, NEW i \in Incident,
           task(i).pc = "waiting", task(i)'.pc = "executing"
    PROVE  LockFree(i) /\ ~target_acted_since(i)
  <1>1. /\ TypeOK /\ LocalsOK /\ Engine \in Writer /\ Idle.pc = "idle"
        /\ task(i) \in Task /\ task(i).obj \in Record
        /\ task(i).plans \in SUBSET Action /\ task(i).ran \in BOOLEAN
    <2>1. TypeOK /\ LocalsOK
      BY DEF LedgerInv, LeaseInv
    <2> QED
      BY <2>1, LocalTypes, TaskFields DEF Idle, Writer
  <1>2. task(i)' # task(i)
    OBVIOUS
  <1>3. ASSUME NEW j \in Incident, NEW pcs, "executing" \notin pcs,
               Moves(j, Engine, pcs)
        PROVE  FALSE
    <2>1. PICK t \in Task : t.pc \in pcs /\ SetTask(j, Engine, t)
      BY <1>3 DEF Moves
    <2>2. task(i)' = IF i = j THEN t ELSE task(i)
      BY <1>1, <2>1, RunAfter DEF task
    <2> QED
      BY <1>2, <1>3, <2>1, <2>2
  <1>4. ASSUME UNCHANGED run PROVE FALSE
    BY <1>2, <1>4 DEF task
  <1>5. ASSUME NEW j \in Incident, SpawnShape(j) PROVE FALSE
    <2>1. Moves(j, Engine, {"queued"})
      BY <1>5 DEF SpawnShape
    <2> QED
      BY <1>3, <2>1
  <1>6. ASSUME NEW j \in Incident, j # i, Step(j) PROVE FALSE
    <2>1. EngineShape(j)
      BY <1>1, <1>6, StepShape
    <2>2. \E t : SetTask(j, Engine, t)
      BY <2>1 DEF EngineShape, Moves, release
    <2>3. task(i)' = task(i)
      BY <1>1, <1>6, <2>2, RunAfter DEF task
    <2> QED
      BY <1>2, <2>3
  <1>7. ASSUME CrashAndRestart PROVE FALSE
    <2>1. At("queued", "lifecycle", Resume(store[i])).pc = "queued"
      BY AtFacts
    <2>2. task(i)'.pc \in {"queued", "idle"}
      BY <1>1, <1>7, <2>1 DEF CrashAndRestart, recover_interrupted, task
    <2> QED
      BY <2>2
  <1>8. ASSUME Step(i) PROVE LockFree(i) /\ ~target_acted_since(i)
    <2>1. TryCandidate(i)
      BY <1>8 DEF Step, EnterSlot, Recheck, Investigated, Analysed, Executed,
                  Validated, Dug, Suggested, InternalError, Finished
    <2>2. "executing" \notin Quiet
      BY DEF Quiet
    <2>3. ~NextCycle(i, task(i).obj)
      BY <1>1, <1>3, <2>2, QuietMoves
    <2>4. \A act \in task(i).plans : ~NextCandidate(i, task(i).obj, act, task(i).ran)
      BY <1>1, <1>3, <2>2, QuietMoves
    <2>5. ~Conclude(i, Escalate(task(i).obj, "remediation_error"))
      <3>1. Escalate(task(i).obj, "remediation_error") \in Record
        BY <1>1, RecordTypes DEF EscalationReason
      <3> QED
        BY <1>1, <1>3, <3>1, QuietMoves
    <2> QED
      BY <2>1, <2>3, <2>4, <2>5 DEF TryCandidate
  <1>9. ASSUME NEW p \in Problem, handle_alert(p) PROVE FALSE
    BY <1>1, <1>4, <1>5, <1>9, AlertShape
  <1>10. ASSUME NEW j \in Incident, Request(j) PROVE FALSE
    <2>1. \/ SpawnShape(j) \/ \E a \in Admin : AdminShape(j, a)
      BY <1>1, <1>10, RequestShape
    <2>2. ASSUME NEW a \in Admin, AdminShape(j, a) PROVE FALSE
      <3>1. a \in Writer /\ a # Engine
        BY ManagerAssumption DEF Writer
      <3>2. \E t : SetTask(j, a, t)
        BY <2>2 DEF AdminShape, Moves, release
      <3>3. task(i)' = task(i)
        BY <1>1, <3>1, <3>2, RunAfter DEF task
      <3> QED
        BY <1>2, <3>3
    <2> QED
      BY <1>5, <2>1, <2>2
  <1>11. /\ \A p \in Problem : handle_resolved(p) => UNCHANGED run
         /\ \A j \in Incident : auto_resolve_incident(j) => UNCHANGED run
         /\ UNCHANGED vars => UNCHANGED run
    BY DEF handle_resolved, auto_resolve_incident, vars
  <1> QED
    BY <1>4, <1>6, <1>7, <1>8, <1>9, <1>10, <1>11, NoAdminStep DEF Next, Webhook

(***************************************************************************)
(* Stale evidence (_target_acted_since): a lifecycle never starts an       *)
(* action when another incident has started one on the same Deployment     *)
(* since its evidence was collected, recorded yet or not.                  *)
(***************************************************************************)
THEOREM EvidenceIsFresh ==
    ASSUME Unattended, MaxRestarts = 0 PROVE Spec => FreshEvidence
  <1>1. ASSUME LedgerInv, [Next]_vars PROVE ActsOnFreshEvidence
    <2> SUFFICES ASSUME NEW i \in Incident, NEW j \in Incident,
                        task(i).pc = "waiting", task(i)'.pc = "executing",
                        i # j, Target(i) = Target(j)
                 PROVE  newest[j] <= task(i).seen
      BY DEF ActsOnFreshEvidence
    <2>1. LockFree(i) /\ ~target_acted_since(i)
      BY <1>1, Starts
    <2>2. task(j).pc # "executing"
      <3>1. OneRemediationPerTarget /\ Nobody \notin Incident
        BY <1>1, ManagerAssumption DEF LedgerInv, LeaseInv, LockInv
      <3> QED
        BY <2>1, <3>1 DEF OneRemediationPerTarget, Executing, LockFree
    <2>3. newest[j] = store[j].stamp
      BY <1>1, <2>2, Audited DEF Even
    <2>4. store[j].stamp \in Nat /\ task(i).seen \in Nat
      <3>1. store[j] \in Record /\ task(i) \in Task
        BY <1>1, LocalTypes DEF LedgerInv, LeaseInv
      <3> QED
        BY <3>1 DEF Record, Task
    <2>5. ~(store[j].stamp > task(i).seen)
      BY <2>1 DEF target_acted_since
    <2> QED
      BY <2>3, <2>4, <2>5
  <1>2. LedgerInv /\ [Next]_vars => [ActsOnFreshEvidence]_vars
    BY <1>1
  <1> QED
    BY <1>2, LedgerInvariant, PTL DEF Spec, FreshEvidence

-----------------------------------------------------------------------------
(***************************************************************************)
(* The engine implements the promise.                                      *)
(***************************************************************************)
Phases == [i \in Incident |-> Phase(i)]

\* An entry is a step of the promise.
LEMMA PromisedEntry ==
    ASSUME "reinvestigate" \notin HumanOps, LedgerInv, LedgerInv',
           NEW i \in Incident, Entry(i), store[i].status # "absent" \/ Opening(i)
    PROVE  [Promise!Next]_(Promise!vars)
  <1> DEFINE p == Phase(i)
             q == Phase(i)'
  <1>1. Advance(p, q, acted[i], acted'[i])
    BY DEF Entry
  <1>2. /\ acted \in [Incident -> Nat] /\ acted' \in [Incident -> Nat]
        /\ \A j \in Incident \ {i} : acted'[j] = acted[j] /\ Phase(j)' = Phase(j)
    BY DEF LedgerInv, LeaseInv, TypeOK, Entry
  <1>3. /\ Phases[i] = p /\ Phases' = [Phases EXCEPT ![i] = q]
        /\ acted' = [acted EXCEPT ![i] = acted'[i]]
    BY <1>2 DEF Phases
  <1> HIDE DEF p, q
  <1>4. q = p => UNCHANGED Phases
    <2>1. Phases = [j \in Incident |-> Phases[j]]
      BY DEF Phases
    <2> HIDE DEF Phases
    <2> QED
      BY <1>3, <2>1
  <1>5. acted'[i] = acted[i] => UNCHANGED acted
    BY <1>2, <1>3
  <1>6. ASSUME Phases[i] = p, Phases' = [Phases EXCEPT ![i] = q]
        PROVE  /\ q = "waiting" /\ p = "working" /\ UNCHANGED acted => Promise!GiveUp(i)
               /\ q = "closed" /\ p = "waiting" /\ UNCHANGED acted => Promise!Recover(i)
               /\ /\ q = "closed" /\ p = "working" /\ UNCHANGED acted /\ acted[i] > 0
                  => Promise!Solve(i)
               /\ /\ q = "working" /\ p = "waiting" /\ UNCHANGED acted /\ acted[i] = 0
                  => Promise!Reconsider(i)
    BY <1>6 DEF Promise!GiveUp, Promise!Recover, Promise!Solve, Promise!Reconsider,
                Promise!Move, Phases, Phase
  <1>7. ASSUME p = "absent", q = "working", UNCHANGED acted PROVE Promise!Open(i)
    <2>1. Opening(i)
      <3>1. p = PhaseOf(store[i])
        BY StoredPhase DEF p
      <3>2. store[i].status = "absent"
        BY <1>7, <3>1 DEF PhaseOf
      <3> QED
        BY <3>2
    <2>2. ASSUME NEW g \in Incident, g[1] = i[1], i[2] = g[2] + 1, IsClosed(store[g])
          PROVE  Phases[<<i[1], i[2] - 1>>] = "closed"
      <3>1. g = <<g[1], g[2]>> /\ g[2] \in Nat
        BY DEF Incident
      <3>2. <<i[1], i[2] - 1>> = g
        BY <2>2, <3>1
      <3>3. Phase(g) = "closed"
        BY <2>2, StoredPhase, PhaseFacts
      <3> QED
        BY <3>2, <3>3 DEF Phases
    <2>3. i[2] = 1 \/ Phases[<<i[1], i[2] - 1>>] = "closed"
      BY <2>1, <2>2 DEF Opening
    <2> QED
      BY <1>3, <1>7, <2>3 DEF Promise!Open, Promise!Move, Phases, Phase
  <1>8. ASSUME p = "working", q = p, acted[i] < Cap, acted'[i] = acted[i] + 1
        PROVE  Promise!Act(i)
    <2>1. UNCHANGED Phases /\ acted' = [acted EXCEPT ![i] = @ + 1]
      BY <1>2, <1>3, <1>4, <1>8
    <2> QED
      BY <1>3, <1>8, <2>1 DEF Promise!Act, Phases, Phase
  <1>9. CASE q = p /\ acted'[i] = acted[i]
    BY <1>4, <1>5, <1>9 DEF Promise!vars, Phases, Phase
  <1>10. i \in Promise!Incident
    BY DEF Promise!Incident, Incident
  <1>11. CASE ~(q = p /\ acted'[i] = acted[i])
    <2>1. \/ Promise!Open(i) \/ Promise!Act(i) \/ Promise!Solve(i)
          \/ Promise!GiveUp(i) \/ Promise!Recover(i) \/ Promise!Reconsider(i)
      BY <1>1, <1>3, <1>5, <1>6, <1>7, <1>8, <1>11 DEF Advance
    <2> QED
      BY <1>10, <2>1 DEF Promise!Next
  <1> QED
    BY <1>9, <1>11

\* A restart is a restart of the promise.
LEMMA PromisedRestart ==
    ASSUME LedgerInv, LedgerInv', CrashAndRestart PROVE Promise!Restart
  <1> DEFINE lost == {i \in Incident : Phase(i) = "working" /\ Phase(i)' = "waiting"}
  <1>1. \A i \in Incident :
           /\ acted'[i] = acted[i]
           /\ \/ Phase(i)' = Phase(i) /\ (Phase(i) = "working" => acted[i] = 0)
              \/ Phase(i) = "working" /\ Phase(i)' = "waiting"
    BY CrashEntry
  <1>2. UNCHANGED acted
    BY <1>1 DEF LedgerInv, LeaseInv, TypeOK
  <1>3. lost \in SUBSET {i \in Incident : Phases[i] = "working"}
    BY DEF Phases
  <1>4. ASSUME NEW i \in Incident, Phases[i] = "working", acted[i] > 0
        PROVE  i \in lost
    BY <1>1, <1>4 DEF Phases
  <1>5. Phases' = [i \in Incident |-> IF i \in lost THEN "waiting" ELSE Phases[i]]
    BY <1>1 DEF Phases
  <1> HIDE DEF lost
  <1>6. Promise!Incident = Incident
    BY DEF Promise!Incident, Incident
  <1> QED
    BY <1>2, <1>3, <1>4, <1>5, <1>6 DEF Promise!Restart, Phases, Phase

(***************************************************************************)
(* The engine keeps its promise (IncidentPromise): with its tasks, leases, *)
(* locks and records hidden, what it does with an incident is open it, act *)
(* on it within the budget, solve it, hand it to a human, close it, or take *)
(* it up again while nothing has been done about it; also over restarts.   *)
(***************************************************************************)
THEOREM PromiseIsKept ==
    ASSUME HumanOps \subseteq {"suggest"} PROVE Spec => KeepsPromise
  <1>1. Unattended /\ "reinvestigate" \notin HumanOps
    BY DEF Unattended
  <1>2. Init => Promise!Init
    <2> SUFFICES ASSUME Init PROVE Promise!Init
      OBVIOUS
    <2>1. Promise!Incident = Incident
      BY DEF Promise!Incident, Incident
    <2>2. \A i \in Incident : Phase(i) = "absent" /\ acted[i] = 0
      <3>1. Absent.status = "absent"
        BY DEF Absent, Blank
      <3> QED
        BY <3>1, PhaseFacts DEF Init, Phase, Known
    <2>3. acted = [i \in Incident |-> 0]
      BY DEF Init
    <2> QED
      BY <2>1, <2>2, <2>3 DEF Promise!Init, Phase
  <1>3. LedgerInv /\ LedgerInv' /\ [Next]_vars => [Promise!Next]_(Promise!vars)
    <2> SUFFICES ASSUME LedgerInv, LedgerInv', [Next]_vars
                 PROVE  [Promise!Next]_(Promise!vars)
      OBVIOUS
    <2>1. CASE UNCHANGED <<store, live, run, acted, newest, launched, restarts>>
      BY <2>1 DEF Promise!vars, Known, LiveObject
    <2>2. CASE CrashAndRestart
      BY <2>2, PromisedRestart DEF Promise!Next
    <2> QED
      BY <1>1, <2>1, <2>2, Kinds, PromisedEntry
  <1> QED
    BY <1>1, <1>2, <1>3, LedgerInvariant, PTL DEF Spec, KeepsPromise, Promise!Spec
=============================================================================
