------------------------------ MODULE DeepSafety ------------------------------
(***************************************************************************)
(* Proofs about DeepInvestigation: types, the bound on the turns an outage *)
(* may cost, whose logs are read, what an authorised proposal may write,   *)
(* and that the trace an operator is shown is what happened.               *)
(***************************************************************************)
EXTENDS DeepInvestigation, SequenceTheorems, FiniteSetTheorems, TLAPS

(***************************************************************************)
(* The inductive invariant.  Run is the type of run[c] in full.            *)
(***************************************************************************)
TurnRecord == [turn : Nat, source : Source \cup {"none"},
               pod : Pod \cup {NoPod}, ok : BOOLEAN]

Run == [pc        : {"idle", "calling", "tool", "enriching"},
        iteration : 0..MaxIterations,
        malformed : 0..(MaxMalformed - 1),
        tools     : Nat,
        trace     : Seq(TurnRecord),
        known     : SUBSET Pod,
        misses    : Nat,
        sick      : BOOLEAN,
        asked     : (Source \cup {"none"}) \X (Pod \cup {NoPod}),
        outcome   : {"none", "running", "proposal", "no_safe_fix", "raised"}]

Judged == [status : {"suggested", "rejected", "checking", "executing",
                     "executed", "validated", "failed"},
           target : Proposal]

\* An unanswered call is a malformed turn; a tool is only called in a turn
\* that was answered, and its place on the trace is empty until it answers.
Counted(r) == /\ r.misses <= r.malformed
              /\ r.pc = "tool" => /\ r.misses = 0 /\ r.trace # <<>>
                                  /\ r.trace[Len(r.trace)].source = "none"

Names(turn, p) == turn.source = "pods" /\ turn.ok /\ turn.pod = p

\* A known Pod, or one whose logs were read, was named before on the trace.
Seen(r) ==
    /\ \A p \in r.known : \E j \in 1..Len(r.trace) : Names(r.trace[j], p)
    /\ \A k \in 1..Len(r.trace) :
          r.trace[k].source = "logs" /\ r.trace[k].ok =>
              \E j \in 1..(k - 1) : Names(r.trace[j], r.trace[k].pod)

Sound(r) == r \in Run /\ Counted(r) /\ Seen(r)

WorldTyped ==
    /\ deployment \in Deployment /\ pod \in Pod /\ policy \in Policies
    /\ ran \subseteq Image
    /\ digs \in 0..MaxDigs /\ disturbances \in 0..MaxDisturbances

HealthTyped == failures \in 0..FailureThreshold /\ open \in BOOLEAN /\ up \in BOOLEAN

RunsSound == /\ run \in [Caller -> Run]
             /\ \A c \in Caller : Sound(run[c])

\* Every image that evidence or a proposal names has run.
HasRun(p) == p.field = "image" => p.value \in ran

ImagesHaveRun ==
    /\ proposal \in [Caller -> Judged \cup {NoProposal}]
    /\ evidence \in [Caller -> Deployment]
    /\ deployment.images \subseteq ran
    /\ \A c \in Caller : /\ evidence[c].images \subseteq ran
                         /\ proposal[c] \in Judged => HasRun(proposal[c].target)

DeepInv == HealthTyped /\ WorldTyped /\ RunsSound /\ ImagesHaveRun

-----------------------------------------------------------------------------
(***************************************************************************)
(* Records of an investigation.                                            *)
(***************************************************************************)
\* The counters of a record are natural numbers.
LEMMA CountersAreNat ==
    ASSUME NEW r \in Run
    PROVE  r.misses \in Nat /\ r.malformed \in Nat
  <1>1. MaxMalformed \in Nat
    BY InvestigationAssumption
  <1>2. r.misses \in Nat /\ r.malformed \in 0..(MaxMalformed - 1)
    BY DEF Run
  <1> QED
    BY <1>1, <1>2

\* An investigation that ends leaves a sound record.
LEMMA EndedSound ==
    ASSUME NEW r \in Run, Seen(r),
           NEW o \in {"none", "running", "proposal", "no_safe_fix", "raised"}
    PROVE  Sound(Ended(r, o))
  <1> DEFINE e == Ended(r, o)
  <1>1. e \in Run
    <2>1. <<"none", NoPod>> \in (Source \cup {"none"}) \X (Pod \cup {NoPod})
      OBVIOUS
    <2>2. 0 \in 0..(MaxMalformed - 1)
      BY InvestigationAssumption
    <2> QED
      BY <2>1, <2>2 DEF Run, Ended
  <1>2. e.trace = r.trace /\ e.known = r.known /\ e.pc = "idle"
        /\ e.misses = 0 /\ e.malformed = 0
    BY DEF Run, Ended
  <1>3. Seen(e)
    BY <1>2 DEF Seen
  <1> QED
    BY <1>1, <1>2, <1>3 DEF Sound, Counted

\* The head of the loop keeps a record sound.
LEMMA NextTurnSound ==
    ASSUME NEW r \in Run, Seen(r), r.misses <= r.malformed,
           NEW q \in NextTurn(r)
    PROVE  Sound(q)
  <1>1. CASE r.iteration < MaxIterations /\ q = Calling(r)
    <2>1. q \in Run
      <3>1. <<"none", NoPod>> \in (Source \cup {"none"}) \X (Pod \cup {NoPod})
        OBVIOUS
      <3>2. r.iteration + 1 \in 0..MaxIterations
        BY <1>1, InvestigationAssumption DEF Run
      <3>3. (~up) \in BOOLEAN
        OBVIOUS
      <3> QED
        BY <1>1, <3>1, <3>2, <3>3 DEF Run, Calling
    <2>2. q.trace = r.trace /\ q.known = r.known /\ q.pc = "calling"
          /\ q.misses = r.misses /\ q.malformed = r.malformed
      BY <1>1 DEF Run, Calling
    <2>3. Seen(q)
      BY <2>2 DEF Seen
    <2> QED
      BY <2>1, <2>2, <2>3 DEF Sound, Counted
  <1>2. CASE q = Ended(r, "no_safe_fix")
    BY <1>2, EndedSound
  <1> QED
    BY <1>1, <1>2 DEF NextTurn

\* A useless turn keeps it sound, and within MaxMalformed.
LEMMA MalformedSound ==
    ASSUME NEW r \in Run, Seen(r), r.misses <= r.malformed + 1,
           NEW q \in Malformed(r)
    PROVE  Sound(q)
  <1> DEFINE n == [r EXCEPT !.malformed = @ + 1]
  <1>1. n.trace = r.trace /\ n.known = r.known /\ n.misses = r.misses
        /\ n.malformed = r.malformed + 1
    BY DEF Run
  <1>2. CASE n.malformed < MaxMalformed
    <2>1. n \in Run
      <3>1. r.malformed + 1 \in 0..(MaxMalformed - 1)
        BY <1>1, <1>2, InvestigationAssumption DEF Run
      <3> QED
        BY <3>1 DEF Run
    <2>2. Seen(n)
      BY <1>1 DEF Seen
    <2>3. q \in NextTurn(n)
      BY <1>2 DEF Malformed
    <2> HIDE DEF n
    <2> QED
      BY <1>1, <2>1, <2>2, <2>3, NextTurnSound
  <1>3. CASE ~(n.malformed < MaxMalformed)
    <2>1. q = Ended(n, "no_safe_fix")
      BY <1>3 DEF Malformed
    <2>2. Ended(n, "no_safe_fix") = Ended(r, "no_safe_fix")
      BY DEF Ended, Run
    <2> QED
      BY <2>1, <2>2, EndedSound
  <1> QED
    BY <1>2, <1>3

\* A turn that is noted is a new and empty entry of the trace.
LEMMA NotedSound ==
    ASSUME NEW r \in Run, Seen(r)
    PROVE  /\ Noted(r) \in Run /\ Seen(Noted(r))
           /\ Noted(r).misses = 0 /\ Noted(r).malformed = r.malformed
           /\ Noted(r).trace # <<>>
           /\ Noted(r).trace[Len(Noted(r).trace)].source = "none"
  <1> DEFINE t == Turn(r.iteration)
             s == Append(r.trace, t)
  <1>1. t \in TurnRecord /\ t.source = "none"
    BY InvestigationAssumption DEF Turn, TurnRecord, Run
  <1>2. r.trace \in Seq(TurnRecord)
    BY DEF Run
  <1>3. /\ s \in Seq(TurnRecord) /\ s # <<>> /\ Len(s) = Len(r.trace) + 1
        /\ \A i \in 1..Len(r.trace) : s[i] = r.trace[i]
        /\ s[Len(r.trace) + 1] = t
    BY <1>1, <1>2, AppendProperties
  <1>4. /\ Noted(r).trace = s /\ Noted(r).known = r.known
        /\ Noted(r).misses = 0 /\ Noted(r).malformed = r.malformed
    BY DEF Noted, Run
  <1>5. Noted(r) \in Run
    BY <1>3 DEF Noted, Run
  <1> HIDE DEF s, t
  <1>6. Seen(Noted(r))
    BY <1>1, <1>2, <1>3, <1>4, LenProperties DEF Seen
  <1> QED
    BY <1>1, <1>3, <1>4, <1>5, <1>6

\* What a tool answers goes into that entry.
LEMMA CollectedSound ==
    ASSUME NEW r \in Run, Counted(r), Seen(r), r.pc = "tool", pod \in Pod,
           NEW ok \in BOOLEAN, Allows(r, ok), NEW shown \in Shown(r, ok)
    PROVE  /\ Collected(r, ok, shown) \in Run /\ Seen(Collected(r, ok, shown))
           /\ Collected(r, ok, shown).misses = 0
  <1> DEFINE t == [turn |-> r.iteration, source |-> r.asked[1], ok |-> ok,
                   pod |-> IF shown = {} THEN r.asked[2] ELSE pod]
             n == Len(r.trace)
             s == [r.trace EXCEPT ![n] = t]
             q == Collected(r, ok, shown)
             now == r.known \cup shown
  <1>1. t \in TurnRecord
    BY InvestigationAssumption DEF TurnRecord, Run
  <1>2. r.trace \in Seq(TurnRecord) /\ r.trace # <<>>
    BY DEF Run, Counted
  <1>3. n \in Nat /\ n \in 1..n
    BY <1>2, LenProperties, EmptySeq
  <1>4. /\ s \in Seq(TurnRecord) /\ Len(s) = n
        /\ \A j \in 1..n : s[j] = IF j = n THEN t ELSE r.trace[j]
    BY <1>1, <1>2, <1>3, ExceptSeq
  <1>5. /\ q.trace = s /\ q.misses = 0
        /\ q.known = now
    BY DEF Collected, Result, Run, Counted
  <1>6. q \in Run
    <2>1. 0 \in 0..(MaxMalformed - 1)
      BY InvestigationAssumption
    <2>2. q = [r EXCEPT !.trace = s, !.known = now, !.malformed = 0, !.tools = @ + 1]
      <3>1. Result(r, ok, shown) = [r EXCEPT !.trace = s, !.known = now]
        BY DEF Result, Run
      <3> QED
        BY <3>1 DEF Collected, Run
    <2>3. now \in SUBSET Pod /\ r.tools + 1 \in Nat
      BY DEF Run, Shown
    <2>4. s \in Seq(TurnRecord)
      BY <1>4
    <2> HIDE DEF s, now, q
    <2> QED
      BY <2>1, <2>2, <2>3, <2>4 DEF Run
  <1>7. r.trace[n].source = "none"
    BY DEF Counted
  <1>8. /\ \A p \in shown : Names(t, p)
        /\ t.source = "logs" /\ t.ok => t.pod \in r.known
    BY DEF Names, Allows, Shown
  <1> HIDE DEF t, s, n, q
  <1>9. \A p \in r.known : \E j \in 1..(n - 1) : Names(s[j], p) /\ Names(r.trace[j], p)
    BY <1>3, <1>4, <1>7 DEF Seen, Names, n
  <1>10. Seen(q)
    <2>1. \A p \in q.known : \E j \in 1..Len(q.trace) : Names(q.trace[j], p)
      <3>1. \A p \in r.known : \E j \in 1..n : Names(s[j], p)
        BY <1>3, <1>9
      <3>2. \A p \in shown : Names(s[n], p)
        BY <1>3, <1>4, <1>8
      <3> QED
        BY <3>1, <3>2, <1>3, <1>4, <1>5
    <2>2. ASSUME NEW k \in 1..Len(q.trace), q.trace[k].source = "logs", q.trace[k].ok
          PROVE  \E j \in 1..(k - 1) : Names(q.trace[j], q.trace[k].pod)
      <3>1. CASE k = n
        BY <2>2, <3>1, <1>3, <1>4, <1>5, <1>8, <1>9
      <3>2. CASE k # n
        BY <2>2, <3>2, <1>3, <1>4, <1>5 DEF Seen, Names, n
      <3> QED
        BY <3>1, <3>2
    <2> QED
      BY <2>1, <2>2 DEF Seen
  <1> QED
    BY <1>5, <1>6, <1>10 DEF q

-----------------------------------------------------------------------------
(***************************************************************************)
(* The invariant, part by part and action by action.                       *)
(***************************************************************************)
\* One caller's record becomes a sound one.
LEMMA BecomesSound ==
    ASSUME RunsSound, NEW c \in Caller, NEW S, Becomes(c, S),
           \A q \in S : Sound(q)
    PROVE  RunsSound'
  <1>1. PICK q \in S : run' = [run EXCEPT ![c] = q]
    BY DEF Becomes
  <1>2. Sound(q) /\ q \in Run
    BY DEF Sound
  <1> QED
    BY <1>1, <1>2 DEF RunsSound

\* The same, when what it becomes is determined.
LEMMA BecomesOneSound ==
    ASSUME RunsSound, NEW c \in Caller, NEW q, Sound(q),
           run' = [run EXCEPT ![c] = q]
    PROVE  RunsSound'
  BY DEF RunsSound, Sound

\* Every step keeps the records of all investigations sound.
LEMMA RunsStep ==
    ASSUME RunsSound, pod \in Pod, up \in BOOLEAN, [Next]_vars
    PROVE  RunsSound'
  <1>1. Begun \in Run /\ Seen(Begun) /\ Begun.misses = 0 /\ Begun.malformed = 0
    <2>1. 0 \in 0..(MaxMalformed - 1) /\ 0 \in 0..MaxIterations
      BY InvestigationAssumption
    <2>2. <<"none", NoPod>> \in (Source \cup {"none"}) \X (Pod \cup {NoPod})
      OBVIOUS
    <2>3. <<>> \in Seq(TurnRecord) /\ Len(<<>>) = 0
      BY EmptySeq
    <2> QED
      BY <2>1, <2>2, <2>3 DEF Begun, Run, Seen
  <1>2. \A c \in Caller : run[c] \in Run /\ Counted(run[c]) /\ Seen(run[c])
    BY DEF RunsSound, Sound
  <1>3. ASSUME NEW c \in Caller, StartDeep(c)
        PROVE  RunsSound'
    <2>1. CASE circuit_open /\ Becomes(c, {Ended(Begun, "no_safe_fix")})
      BY <1>1, <2>1, EndedSound, BecomesSound
    <2>2. CASE Becomes(c, NextTurn(Begun))
      <3>1. \A q \in NextTurn(Begun) : Sound(q)
        BY <1>1, NextTurnSound
      <3> QED
        BY <2>2, <3>1, BecomesSound
    <2> QED
      BY <1>3, <2>1, <2>2 DEF StartDeep
  <1>4. ASSUME NEW c \in Caller, StartEnrich(c)
        PROVE  RunsSound'
    <2> DEFINE e == [Begun EXCEPT !.pc = "enriching", !.sick = ~up]
    <2>1. e \in Run
      BY <1>1 DEF Run
    <2>2. e.trace = Begun.trace /\ e.known = Begun.known /\ e.pc = "enriching"
          /\ e.misses = 0 /\ e.malformed = 0
      BY <1>1 DEF Run
    <2>3. Sound(e)
      BY <1>1, <2>1, <2>2 DEF Sound, Counted, Seen
    <2> QED
      BY <1>4, <2>3, BecomesOneSound DEF StartEnrich
  <1>5. ASSUME NEW c \in Caller, EnrichAnswers(c) \/ Authorise(c)
        PROVE  RunsSound'
    <2>1. Sound(Idle)
      BY <1>1, EndedSound DEF Idle
    <2> QED
      BY <1>5, <2>1, BecomesOneSound DEF EnrichAnswers, Authorise
  <1>6. ASSUME NEW c \in Caller, NoAnswer(c)
        PROVE  RunsSound'
    <2> DEFINE m == [run[c] EXCEPT !.misses = @ + 1]
    <2>1. /\ m \in Run /\ m.trace = run[c].trace /\ m.known = run[c].known
          /\ m.misses = run[c].misses + 1 /\ m.malformed = run[c].malformed
      BY <1>2 DEF Run
    <2>2. Seen(m) /\ m.misses <= m.malformed + 1
      BY <1>2, <2>1, CountersAreNat DEF Seen, Counted
    <2> HIDE DEF m
    <2>3. \A q \in Malformed(m) : Sound(q)
      BY <2>1, <2>2, MalformedSound
    <2> QED
      BY <1>6, <2>3, BecomesSound DEF NoAnswer, m
  <1>7. ASSUME NEW c \in Caller
        PROVE  /\ Noted(run[c]) \in Run /\ Seen(Noted(run[c]))
               /\ \A q \in Malformed(Noted(run[c])) : Sound(q)
    <2>1. /\ Noted(run[c]) \in Run /\ Seen(Noted(run[c]))
          /\ Noted(run[c]).misses = 0
      BY <1>2, NotedSound
    <2>2. Noted(run[c]).misses <= Noted(run[c]).malformed + 1
      BY <2>1, InvestigationAssumption DEF Run
    <2> QED
      BY <2>1, <2>2, MalformedSound
  <1>8. ASSUME NEW c \in Caller, Useless(c)
        PROVE  RunsSound'
    <2> DEFINE m == [run[c] EXCEPT !.misses = 0]
    <2>1. /\ m \in Run /\ m.trace = run[c].trace /\ m.known = run[c].known
          /\ m.misses = 0
      BY <1>2 DEF Run
    <2>2. Seen(m) /\ m.misses <= m.malformed + 1
      BY <1>2, <2>1, CountersAreNat DEF Seen
    <2> HIDE DEF m
    <2>3. \A q \in Malformed(m) : Sound(q)
      BY <2>1, <2>2, MalformedSound
    <2> QED
      BY <1>7, <1>8, <2>3, BecomesSound DEF Useless, m
  <1>9. ASSUME NEW c \in Caller, GivesUp(c) \/ Proposes(c) \/ Raises(c)
        PROVE  RunsSound'
    <2>1. Sound(Ended(Begun, "raised"))
      BY <1>1, EndedSound
    <2>2. /\ Sound(Ended(Noted(run[c]), "no_safe_fix"))
          /\ Sound(Ended(Noted(run[c]), "proposal"))
      BY <1>7, EndedSound
    <2> QED
      BY <1>7, <1>9, <2>1, <2>2, BecomesSound DEF GivesUp, Proposes, Raises
  <1>10. ASSUME NEW c \in Caller, Requests(c)
         PROVE  RunsSound'
    <2>1. ASSUME NEW s \in Source, NEW p \in Pod
          PROVE  Sound([Noted(run[c]) EXCEPT !.pc = "tool",
                           !.asked = <<s, IF s = "logs" THEN p ELSE NoPod>>])
      <3> DEFINE n == Noted(run[c])
                 a == <<s, IF s = "logs" THEN p ELSE NoPod>>
                 q == [n EXCEPT !.pc = "tool", !.asked = a]
      <3>1. /\ n \in Run /\ Seen(n) /\ n.misses = 0 /\ n.trace # <<>>
            /\ n.trace[Len(n.trace)].source = "none"
        BY <1>2, NotedSound
      <3>2. a \in (Source \cup {"none"}) \X (Pod \cup {NoPod})
        OBVIOUS
      <3> HIDE DEF n, a
      <3>3. q \in Run
        BY <3>1, <3>2 DEF Run
      <3>4. /\ q.trace = n.trace /\ q.known = n.known /\ q.misses = n.misses
            /\ q.malformed = n.malformed
        BY <3>1 DEF Run
      <3>5. q.malformed \in Nat
        BY <3>3, CountersAreNat
      <3> HIDE DEF q
      <3>6. Sound(q)
        BY <3>1, <3>3, <3>4, <3>5 DEF Sound, Counted, Seen
      <3> QED
        BY <3>6 DEF q, n, a
    <2>2. CASE \E s \in Source, p \in Pod :
                  run' = [run EXCEPT ![c] =
                     [Noted(run[c]) EXCEPT !.pc = "tool",
                         !.asked = <<s, IF s = "logs" THEN p ELSE NoPod>>]]
      BY <2>1, <2>2, BecomesOneSound
    <2>3. CASE Becomes(c, Malformed(Noted(run[c])))
      BY <1>7, <2>3, BecomesSound
    <2> QED
      BY <1>10, <2>2, <2>3 DEF Requests
  <1>11. ASSUME NEW c \in Caller, ToolAnswers(c)
         PROVE  RunsSound'
    <2>0. PICK ok \in BOOLEAN :
             /\ Allows(run[c], ok)
             /\ \E shown \in Shown(run[c], ok) :
                   Becomes(c, NextTurn(Collected(run[c], ok, shown)))
      BY <1>11 DEF ToolAnswers
    <2>1. PICK shown \in Shown(run[c], ok) :
             Becomes(c, NextTurn(Collected(run[c], ok, shown)))
      BY <2>0
    <2>2. run[c].pc = "tool"
      BY <1>11 DEF ToolAnswers
    <2>3. /\ Collected(run[c], ok, shown) \in Run /\ Seen(Collected(run[c], ok, shown))
          /\ Collected(run[c], ok, shown).misses = 0
      BY <1>2, <2>0, <2>1, <2>2, CollectedSound
    <2>4. Collected(run[c], ok, shown).misses <= Collected(run[c], ok, shown).malformed
      BY <2>3, InvestigationAssumption DEF Run
    <2>5. \A q \in NextTurn(Collected(run[c], ok, shown)) : Sound(q)
      BY <2>3, <2>4, NextTurnSound
    <2> QED
      BY <2>1, <2>5, BecomesSound
  <1>12. CASE ProviderFails
    <2>1. ASSUME NEW c \in Caller, NEW r, r = [run[c] EXCEPT !.sick = TRUE]
          PROVE  Sound(r)
      <3>1. r \in Run
        <4>1. \A x \in Run : [x EXCEPT !.sick = TRUE] \in Run
          BY DEF Run
        <4> QED
          BY <1>2, <2>1, <4>1
      <3>2. /\ r.trace = run[c].trace /\ r.known = run[c].known
            /\ r.misses = run[c].misses /\ r.malformed = run[c].malformed
            /\ r.pc = run[c].pc
        BY <1>2, <2>1 DEF Run
      <3> QED
        BY <1>2, <3>1, <3>2 DEF Sound, Counted, Seen
    <2>2. \A c \in Caller : Sound(run'[c])
      BY <1>2, <1>12, <2>1 DEF ProviderFails, Sound
    <2>3. run' \in [Caller -> Run]
      BY <1>12, <2>2 DEF ProviderFails, Sound
    <2> QED
      BY <2>2, <2>3 DEF RunsSound
  <1>13. CASE UNCHANGED run
    BY <1>13 DEF RunsSound
  <1>14. ASSUME NEW c \in Caller, Recheck(c) \/ Execute(c) \/ Validate(c)
         PROVE  UNCHANGED run
    BY <1>14 DEF Recheck, Execute, Validate
  <1>15. CASE \/ ProviderRecovers \/ CircuitCools \/ HistoryChanges
              \/ PodReplaced \/ PolicyChanges \/ UNCHANGED vars
    BY <1>13, <1>15 DEF ProviderRecovers, CircuitCools, HistoryChanges,
       PodReplaced, PolicyChanges, Disturb, vars
  <1> QED
    BY <1>3, <1>4, <1>5, <1>6, <1>8, <1>9, <1>10, <1>11, <1>12, <1>13, <1>14,
       <1>15 DEF Next, World, Answers, Human

\* The breaker counts to its threshold.
LEMMA HealthStep ==
    ASSUME HealthTyped, [Next]_vars
    PROVE  HealthTyped'
  <1> USE ThresholdAssumption DEF HealthTyped
  <1>1. CASE record_success /\ UNCHANGED up
    <2>1. failures' \in 0..FailureThreshold
      BY <1>1 DEF record_success
    <2> QED
      BY <1>1, <2>1 DEF record_success
  <1>2. CASE record_failure /\ UNCHANGED up
    <2>1. open' \in BOOLEAN
      BY <1>2 DEF record_failure
    <2>2. failures' \in 0..FailureThreshold
      BY <1>2 DEF record_failure
    <2> QED
      BY <1>2, <2>1, <2>2
  <1>3. CASE UNCHANGED <<healthVars, up>>
    BY <1>3 DEF healthVars
  <1>4. ASSUME NEW c \in Caller, Answers(c)
        PROVE  HealthTyped'
    <2>1. CASE NoAnswer(c)
      BY <1>2, <2>1 DEF NoAnswer
    <2>2. CASE Answered(c)
      BY <1>1, <2>2 DEF Answered
    <2>3. CASE EnrichAnswers(c)
      BY <1>1, <1>2, <2>3 DEF EnrichAnswers
    <2> QED
      BY <1>4, <2>1, <2>2, <2>3 DEF Answers, Useless, GivesUp, Proposes, Raises,
         Requests
  <1>5. ASSUME NEW c \in Caller,
               StartDeep(c) \/ StartEnrich(c) \/ ToolAnswers(c) \/ Human(c)
        PROVE  HealthTyped'
    BY <1>3, <1>5 DEF StartDeep, StartEnrich, ToolAnswers, Human, Authorise,
       Recheck, Execute, Validate
  <1>6. CASE ProviderFails \/ ProviderRecovers
    BY <1>6 DEF ProviderFails, ProviderRecovers, healthVars
  <1>7. CASE CircuitCools
    BY <1>7 DEF CircuitCools, CooldownEnds
  <1>8. CASE HistoryChanges \/ PodReplaced \/ PolicyChanges \/ UNCHANGED vars
    BY <1>3, <1>8 DEF HistoryChanges, PodReplaced, PolicyChanges, Disturb, vars
  <1> QED
    BY <1>4, <1>5, <1>6, <1>7, <1>8 DEF Next, World

\* Clamping ends inside the band.
LEMMA BandIsBand ==
    ASSUME NEW q \in Policies, NEW n \in Nat
    PROVE  InBand(n, q) \in Nat /\ InBand(n, q) \in q.min..q.max
  BY InvestigationAssumption DEF InBand

\* A clamped proposal is a proposal, for the same field.
LEMMA ClampedIsProposal ==
    ASSUME NEW p \in Proposal, NEW q \in Policies
    PROVE  /\ EligibleTarget(p, q) \in Proposal
           /\ EligibleTarget(p, q).field = p.field
           /\ p.field # "replicas" => EligibleTarget(p, q).value = p.value
  <1>1. CASE p.field = "replicas" /\ p.value >= 1
    <2>1. p.value \in Nat
      BY <1>1 DEF Proposal, Value, Field
    <2>2. InBand(p.value, q) \in Nat
      BY <2>1, BandIsBand
    <2>3. EligibleTarget(p, q) = [p EXCEPT !.value = InBand(p.value, q)]
      BY <1>1 DEF EligibleTarget
    <2> QED
      BY <1>1, <2>2, <2>3 DEF Proposal, Value, Field
  <1>2. CASE ~(p.field = "replicas" /\ p.value >= 1)
    BY <1>2 DEF EligibleTarget
  <1> QED
    BY <1>1, <1>2

\* What is written is a Deployment, in the band, with an image that has run.
LEMMA WrittenIsDeployment ==
    ASSUME NEW p \in Proposal, NEW q \in Policies, NEW d \in Deployment,
           ~Refused(p, q)
    PROVE  /\ Written(p, d, q) \in Deployment
           /\ p.field = "replicas" => Written(p, d, q).replicas \in q.min..q.max
           /\ p.field = "image" => Written(p, d, q).image = p.value
           /\ Written(p, d, q).images
                 = IF p.field = "image" THEN d.images \cup {p.value} ELSE d.images
  <1>1. CASE p.field = "image"
    <2>1. p.value \in Image
      BY <1>1 DEF Proposal, Value, Field
    <2> QED
      BY <1>1, <2>1 DEF Written, Deployment
  <1>2. CASE p.field = "replicas"
    <2>1. p.value \in Nat
      BY <1>2 DEF Proposal, Value, Field
    <2>2. InBand(p.value, q) \in Nat /\ InBand(p.value, q) \in q.min..q.max
      BY <2>1, BandIsBand
    <2>3. Written(p, d, q) = [d EXCEPT !.replicas = InBand(p.value, q)]
      BY <1>2 DEF Written
    <2> QED
      BY <1>2, <2>2, <2>3 DEF Deployment
  <1>3. CASE p.field = "env"
    <2>1. p.value \in EnvValue \cup {Absent}
      BY <1>3 DEF Proposal, Value, Field
    <2>2. Written(p, d, q) = [d EXCEPT !.env = p.value]
      BY <1>3 DEF Written
    <2> QED
      BY <1>3, <2>1, <2>2 DEF Deployment
  <1>4. CASE p.field = "argv"
    <2>1. p.value \in Argv \cup {Absent}
      BY <1>4 DEF Proposal, Value, Field
    <2>2. Written(p, d, q) = [d EXCEPT !.argv = p.value]
      BY <1>4 DEF Written
    <2> QED
      BY <1>4, <2>1, <2>2 DEF Deployment
  <1> QED
    BY <1>1, <1>2, <1>3, <1>4 DEF Proposal, Field, Refused

\* The image a proposal names was in the history its evidence shows.
LEMMA GroundedHasRun ==
    ASSUME NEW p \in Proposal, NEW seen \in Deployment, Grounded(p, seen),
           seen.images \subseteq ran
    PROVE  HasRun(p)
  BY DEF Grounded, HasRun

\* Every step keeps what evidence and proposals name among what has run.
LEMMA ImagesStep ==
    ASSUME WorldTyped, ImagesHaveRun, [Next]_vars
    PROVE  WorldTyped' /\ ImagesHaveRun'
  <1>1. CASE UNCHANGED <<proposal, evidence, worldVars>>
    BY <1>1 DEF worldVars, WorldTyped, ImagesHaveRun, HasRun
  <1>2. ASSUME NEW c \in Caller, NEW p \in Proposal, NEW s, HasRun(p),
               [status |-> s, target |-> p] \in Judged,
               proposal' = [proposal EXCEPT ![c] = [status |-> s, target |-> p]]
        PROVE  /\ proposal' \in [Caller -> Judged \cup {NoProposal}]
               /\ \A b \in Caller : proposal'[b] \in Judged => HasRun(proposal'[b].target)
    BY <1>2 DEF ImagesHaveRun
  <1>3. ASSUME NEW c \in Caller, NEW s \in {"checking", "executed", "validated", "failed"},
               proposal[c] \in Judged, Mark(c, s)
        PROVE  /\ proposal' \in [Caller -> Judged \cup {NoProposal}]
               /\ \A b \in Caller : proposal'[b] \in Judged => HasRun(proposal'[b].target)
    <2>1. [proposal[c] EXCEPT !.status = s] \in Judged
      BY <1>3 DEF Judged
    <2>2. [proposal[c] EXCEPT !.status = s].target = proposal[c].target
      BY <1>3 DEF Judged
    <2>3. proposal' = [proposal EXCEPT ![c] = [proposal[c] EXCEPT !.status = s]]
      BY <1>3 DEF Mark
    <2> QED
      BY <1>3, <2>1, <2>2, <2>3 DEF ImagesHaveRun
  <1>4. \A c \in Caller : proposal[c].status # "none" => proposal[c] \in Judged
    BY DEF ImagesHaveRun, NoProposal
  <1>5. ASSUME NEW c \in Caller, StartDeep(c)
        PROVE  WorldTyped' /\ ImagesHaveRun'
    BY <1>5, InvestigationAssumption DEF StartDeep, WorldTyped, ImagesHaveRun, HasRun
  <1>6. ASSUME NEW c \in Caller, Proposes(c)
        PROVE  WorldTyped' /\ ImagesHaveRun'
    <2>1. UNCHANGED <<evidence, worldVars>>
      BY <1>6 DEF Proposes, Answered
    <2>2. PICK p \in Reply :
             \/ UNCHANGED proposal
             \/ /\ Grounded(p, evidence[c])
                /\ proposal' = [proposal EXCEPT ![c] =
                     [status |-> IF Eligible(p, policy)
                                 THEN "suggested" ELSE "rejected",
                      target |-> EligibleTarget(p, policy)]]
      BY <1>6 DEF Proposes
    <2>3. p \in Proposal
      BY InvestigationAssumption
    <2>4. CASE UNCHANGED proposal
      BY <1>1, <2>1, <2>4
    <2>5. CASE ~UNCHANGED proposal
      <3> DEFINE t == EligibleTarget(p, policy)
                 s == IF Eligible(p, policy) THEN "suggested" ELSE "rejected"
      <3>1. HasRun(p)
        BY <2>2, <2>3, <2>5, GroundedHasRun DEF ImagesHaveRun
      <3>2. t \in Proposal /\ HasRun(t)
        BY <2>3, <3>1, ClampedIsProposal DEF HasRun, WorldTyped
      <3>3. [status |-> s, target |-> t] \in Judged
        BY <3>2 DEF Judged
      <3>4. proposal' = [proposal EXCEPT ![c] = [status |-> s, target |-> t]]
        BY <2>2, <2>5
      <3> HIDE DEF s, t
      <3>5. /\ proposal' \in [Caller -> Judged \cup {NoProposal}]
            /\ \A b \in Caller : proposal'[b] \in Judged => HasRun(proposal'[b].target)
        BY <1>2, <3>2, <3>3, <3>4
      <3> QED
        BY <2>1, <3>5 DEF worldVars, WorldTyped, ImagesHaveRun, HasRun
    <2> QED
      BY <2>4, <2>5
  <1>7. ASSUME NEW c \in Caller, Recheck(c)
        PROVE  WorldTyped' /\ ImagesHaveRun'
    <2> DEFINE t == EligibleTarget(proposal[c].target, policy)
               s == IF Eligible(proposal[c].target, policy)
                    THEN "executing" ELSE "rejected"
    <2>1. proposal[c] \in Judged /\ HasRun(proposal[c].target)
      BY <1>4, <1>7 DEF Recheck, ImagesHaveRun
    <2>2. proposal[c].target \in Proposal
      BY <2>1 DEF Judged
    <2>3. t \in Proposal /\ HasRun(t)
      BY <2>1, <2>2, ClampedIsProposal DEF HasRun, WorldTyped
    <2>4. [status |-> s, target |-> t] \in Judged
      BY <2>3 DEF Judged
    <2>5. proposal' = [proposal EXCEPT ![c] = [status |-> s, target |-> t]]
      BY <1>7 DEF Recheck
    <2> HIDE DEF s, t
    <2>6. /\ proposal' \in [Caller -> Judged \cup {NoProposal}]
          /\ \A b \in Caller : proposal'[b] \in Judged => HasRun(proposal'[b].target)
      BY <1>2, <2>3, <2>4, <2>5
    <2>7. evidence' = [evidence EXCEPT ![c] = deployment] /\ UNCHANGED worldVars
      BY <1>7 DEF Recheck
    <2> QED
      BY <2>6, <2>7 DEF worldVars, WorldTyped, ImagesHaveRun, HasRun
  <1>8. ASSUME NEW c \in Caller, Authorise(c) \/ Validate(c)
        PROVE  WorldTyped' /\ ImagesHaveRun'
    <2>1. proposal[c] \in Judged
      BY <1>4, <1>8 DEF Authorise, Validate
    <2>2. /\ proposal' \in [Caller -> Judged \cup {NoProposal}]
          /\ \A b \in Caller : proposal'[b] \in Judged => HasRun(proposal'[b].target)
      BY <1>3, <1>8, <2>1 DEF Authorise, Validate
    <2>3. UNCHANGED <<evidence, worldVars>>
      BY <1>8 DEF Authorise, Validate
    <2> QED
      BY <2>2, <2>3 DEF worldVars, WorldTyped, ImagesHaveRun, HasRun
  <1>9. ASSUME NEW c \in Caller, Execute(c)
        PROVE  WorldTyped' /\ ImagesHaveRun'
    <2>1. proposal[c] \in Judged /\ HasRun(proposal[c].target)
      BY <1>4, <1>9 DEF Execute, ImagesHaveRun
    <2>2. /\ proposal' \in [Caller -> Judged \cup {NoProposal}]
          /\ \A b \in Caller : proposal'[b] \in Judged => HasRun(proposal'[b].target)
      BY <1>3, <1>9, <2>1 DEF Execute
    <2>3. UNCHANGED <<evidence, pod, policy, digs, disturbances>>
      BY <1>9 DEF Execute
    <2>4. CASE UNCHANGED <<deployment, ran>>
      BY <2>2, <2>3, <2>4 DEF WorldTyped, ImagesHaveRun, HasRun
    <2>5. CASE ~UNCHANGED <<deployment, ran>>
      <3> DEFINE p == proposal[c].target
      <3>1. /\ ~Refused(p, policy) /\ deployment' = Written(p, deployment, policy)
            /\ ran' = ran \cup deployment'.images
        BY <1>9, <2>5 DEF Execute
      <3>2. p \in Proposal
        BY <2>1 DEF Judged
      <3>3. /\ deployment' \in Deployment
            /\ deployment'.images = IF p.field = "image"
                                    THEN deployment.images \cup {p.value}
                                    ELSE deployment.images
        BY <3>1, <3>2, WrittenIsDeployment DEF WorldTyped
      <3>4. ran' \subseteq Image /\ ran \subseteq ran' /\ deployment'.images \subseteq ran'
        BY <3>1, <3>3 DEF WorldTyped, Deployment
      <3> QED
        BY <2>2, <2>3, <3>3, <3>4 DEF WorldTyped, ImagesHaveRun, HasRun
    <2> QED
      BY <2>4, <2>5
  <1>10. CASE HistoryChanges
    <2>1. deployment' \in Deployment
      <3>1. CASE \E i \in Plausible : deployment' = [deployment EXCEPT !.image = i,
                                                   !.images = @ \cup {i}]
        BY <3>1, ProposalAssumption DEF WorldTyped, Deployment
      <3>2. CASE deployment' = [deployment EXCEPT !.images = {deployment.image}]
        BY <3>2 DEF WorldTyped, Deployment
      <3> QED
        BY <1>10, <3>1, <3>2 DEF HistoryChanges
    <2>2. ran' = ran \cup deployment'.images
          /\ UNCHANGED <<proposal, evidence, pod, policy, digs>>
          /\ disturbances' \in 0..MaxDisturbances
      <3>1. /\ disturbances \in 0..MaxDisturbances
            /\ disturbances < MaxDisturbances
            /\ disturbances' = disturbances + 1
            /\ MaxDisturbances \in Nat
        BY <1>10, InvestigationAssumption DEF HistoryChanges, Disturb, WorldTyped
      <3>2. disturbances' \in 0..MaxDisturbances
        BY <3>1
      <3>3. ran' = ran \cup deployment'.images
            /\ UNCHANGED <<proposal, evidence, pod, policy, digs>>
        BY <1>10 DEF HistoryChanges, Disturb
      <3> QED
        BY <3>2, <3>3
    <2> QED
      BY <2>1, <2>2 DEF WorldTyped, ImagesHaveRun, HasRun, Deployment
  <1>11. CASE PodReplaced \/ PolicyChanges
    BY <1>11, InvestigationAssumption DEF PodReplaced, PolicyChanges, Disturb,
       WorldTyped, ImagesHaveRun, HasRun
  <1>12. ASSUME NEW c \in Caller, Answers(c), ~Proposes(c)
         PROVE  UNCHANGED <<proposal, evidence, worldVars>>
    BY <1>12 DEF Answers, NoAnswer, Useless, GivesUp, Raises, Requests,
       EnrichAnswers, Answered
  <1>13. ASSUME NEW c \in Caller, StartEnrich(c) \/ ToolAnswers(c)
         PROVE  UNCHANGED <<proposal, evidence, worldVars>>
    BY <1>13 DEF StartEnrich, ToolAnswers
  <1>14. CASE ProviderFails \/ ProviderRecovers \/ CircuitCools \/ UNCHANGED vars
    BY <1>1, <1>14 DEF ProviderFails, ProviderRecovers, CircuitCools, vars
  <1> QED
    BY <1>1, <1>5, <1>6, <1>7, <1>8, <1>9, <1>10, <1>11, <1>12, <1>13, <1>14
    DEF Next, World, Human

-----------------------------------------------------------------------------
(***************************************************************************)
(* The invariant, and what follows from it.                                *)
(***************************************************************************)
\* The initial states satisfy the invariant.
LEMMA InitEstablishes == Init => DeepInv
  <1> SUFFICES ASSUME Init PROVE DeepInv
    OBVIOUS
  <1>1. HealthTyped
    <2>1. failures \in 0..FailureThreshold
      BY ThresholdAssumption DEF Init, HealthInit
    <2> QED
      BY <2>1 DEF Init, HealthInit, HealthTyped
  <1>2. WorldTyped
    BY InvestigationAssumption DEF Init, WorldTyped, Deployment
  <1>3. RunsSound
    <2>1. 0 \in 0..(MaxMalformed - 1) /\ 0 \in 0..MaxIterations
      BY InvestigationAssumption
    <2>2. <<"none", NoPod>> \in (Source \cup {"none"}) \X (Pod \cup {NoPod})
      OBVIOUS
    <2>3. <<>> \in Seq(TurnRecord) /\ Len(<<>>) = 0
      BY EmptySeq
    <2>4. Begun \in Run /\ Seen(Begun)
      BY <2>1, <2>2, <2>3 DEF Begun, Run, Seen
    <2>5. Sound(Idle)
      BY <2>4, EndedSound DEF Idle
    <2> QED
      BY <2>5 DEF Init, RunsSound, Sound
  <1>4. ImagesHaveRun
    <2>1. proposal = [c \in Caller |-> NoProposal] /\ NoProposal \notin Judged
      BY DEF Init, NoProposal, Judged
    <2>2. evidence = [c \in Caller |-> FirstDeployment] /\ FirstDeployment \in Deployment
          /\ deployment = FirstDeployment /\ ran = FirstDeployment.images
      BY InvestigationAssumption DEF Init
    <2> QED
      BY <2>1, <2>2 DEF ImagesHaveRun
  <1> QED
    BY <1>1, <1>2, <1>3, <1>4 DEF DeepInv

\* The invariant holds of every reachable state.
THEOREM DeepInvariant == Spec => []DeepInv
  <1>1. DeepInv /\ [Next]_vars => DeepInv'
    <2> SUFFICES ASSUME DeepInv, [Next]_vars PROVE DeepInv'
      OBVIOUS
    <2>1. pod \in Pod /\ up \in BOOLEAN
      BY DEF DeepInv, WorldTyped, HealthTyped
    <2> QED
      BY <2>1, RunsStep, HealthStep, ImagesStep DEF DeepInv
  <1> QED
    BY <1>1, InitEstablishes, PTL DEF Spec

(***************************************************************************)
(* Types: no investigation leaves the bounds of its settings, and a target *)
(* has a value of its field, for any reasoner, cluster and configuration.  *)
(***************************************************************************)
THEOREM TypeCorrect == Spec => []TypeOK
  <1>1. DeepInv => TypeOK
    <2> SUFFICES ASSUME DeepInv PROVE TypeOK
      OBVIOUS
    <2> USE DEF DeepInv
    <2>1. \A c \in Caller :
             /\ run[c].pc \in {"idle", "calling", "tool", "enriching"}
             /\ run[c].iteration \in 0..MaxIterations
             /\ run[c].malformed \in 0..(MaxMalformed - 1)
             /\ run[c].known \subseteq Pod
             /\ run[c].outcome \in {"none", "running", "proposal", "no_safe_fix",
                                    "raised"}
      BY DEF RunsSound, Run
    <2>2. \A c \in Caller :
             /\ evidence[c] \in Deployment
             /\ \/ proposal[c] = NoProposal
                \/ /\ proposal[c].status \in {"suggested", "rejected", "checking",
                          "executing", "executed", "validated", "failed"}
                   /\ proposal[c].target \in Proposal
      BY DEF ImagesHaveRun, Judged
    <2> QED
      BY <2>1, <2>2 DEF TypeOK, HealthTyped, WorldTyped
  <1> QED
    BY <1>1, DeepInvariant, PTL

(***************************************************************************)
(* An outage costs an investigation less than MaxMalformed unanswered      *)
(* calls in a row, whatever MaxIterations and the breaker allow.           *)
(***************************************************************************)
THEOREM OutagesAreBrief == Spec => []OutageIsBrief
  <1>1. DeepInv => OutageIsBrief
    <2> SUFFICES ASSUME DeepInv, NEW c \in Caller PROVE run[c].misses < MaxMalformed
      BY DEF OutageIsBrief
    <2>1. /\ run[c].misses \in Nat /\ run[c].misses <= run[c].malformed
          /\ run[c].malformed \in 0..(MaxMalformed - 1)
      BY DEF DeepInv, RunsSound, Sound, Counted, Run
    <2> QED
      BY <2>1, InvestigationAssumption
  <1> QED
    BY <1>1, DeepInvariant, PTL

(***************************************************************************)
(* Logs are read only of a Pod that the cluster named earlier in the same  *)
(* investigation, however long it is.                                      *)
(***************************************************************************)
THEOREM LogsAreOfSeenPods == Spec => []LogsOfSeenPods
  <1>1. DeepInv => LogsOfSeenPods
    <2> SUFFICES ASSUME DeepInv, NEW c \in Caller, NEW k \in DOMAIN run[c].trace,
                        run[c].trace[k].source = "logs", run[c].trace[k].ok
                 PROVE  \E j \in 1..(k - 1) :
                           /\ run[c].trace[j].source = "pods" /\ run[c].trace[j].ok
                           /\ run[c].trace[j].pod = run[c].trace[k].pod
      BY DEF LogsOfSeenPods
    <2>1. run[c].trace \in Seq(TurnRecord) /\ Seen(run[c])
      BY DEF DeepInv, RunsSound, Sound, Run
    <2>2. k \in 1..Len(run[c].trace)
      BY <2>1, LenProperties
    <2> QED
      BY <2>1, <2>2 DEF Seen, Names
  <1> QED
    BY <1>1, DeepInvariant, PTL

(***************************************************************************)
(* What an authorised proposal writes obeys the configuration in force at  *)
(* the write, and an image is one the Deployment has run: whatever was     *)
(* changed and whatever happened between its evidence and its execution.   *)
(***************************************************************************)
THEOREM WritesAreInside == Spec => WritesStayInside
  <1>1. DeepInv /\ [Next]_vars
        => [\A c \in Caller : Writes(c) => WriteIsInside(c)]_vars
    <2> SUFFICES ASSUME DeepInv, Next, NEW c \in Caller, Writes(c)
                 PROVE  WriteIsInside(c)
      OBVIOUS
    <2> DEFINE p == proposal[c].target
    <2>1. Execute(c)
      <3>1. proposal'[c] # proposal[c] /\ deployment' # deployment
        BY DEF Writes
      <3>2. ASSUME NEW b \in Caller, Execute(b)
            PROVE  b = c
        BY <3>1, <3>2 DEF Execute, Mark, DeepInv, ImagesHaveRun
      <3>3. ASSUME NEW b \in Caller, StartDeep(b) \/ StartEnrich(b) \/ Answers(b)
                   \/ ToolAnswers(b) \/ Authorise(b) \/ Recheck(b) \/ Validate(b)
            PROVE  UNCHANGED deployment
        BY <3>3 DEF StartDeep, StartEnrich, Answers, NoAnswer, Useless, GivesUp,
           Proposes, Raises, Requests, EnrichAnswers, Answered, ToolAnswers,
           Authorise, Recheck, Validate, worldVars
      <3>4. World \/ CircuitCools => UNCHANGED proposal
        BY DEF World, CircuitCools, ProviderFails, ProviderRecovers,
           HistoryChanges, PodReplaced, PolicyChanges, Disturb
      <3> QED
        BY <3>1, <3>2, <3>3, <3>4 DEF Next, Human
    <2>2. /\ ~Refused(p, policy) /\ ~policy.dry_run
          /\ deployment' = Written(p, deployment, policy)
      BY <2>1 DEF Execute, Writes
    <2>3. proposal[c] \in Judged /\ HasRun(p) /\ p \in Proposal
      BY DEF Writes, DeepInv, ImagesHaveRun, NoProposal, Judged
    <2>4. policy \in Policies /\ deployment \in Deployment
      BY DEF DeepInv, WorldTyped
    <2>5. /\ p.field = "replicas" => deployment'.replicas \in policy.min..policy.max
          /\ p.field = "image" => deployment'.image = p.value
      BY <2>2, <2>3, <2>4, WrittenIsDeployment
    <2> QED
      BY <2>2, <2>3, <2>5 DEF WriteIsInside, Refused, HasRun
  <1> QED
    BY <1>1, DeepInvariant, PTL DEF Spec, WritesStayInside

-----------------------------------------------------------------------------
(***************************************************************************)
(* What is on the trace: as much evidence as was charged, in the order of  *)
(* its turns, none of them ahead of the loop.                              *)
(***************************************************************************)
Traced(r) ==
    /\ r.tools = Cardinality(Collections(r)) /\ r.tools <= MaxToolCalls
    /\ \A j, k \in DOMAIN r.trace : j < k => r.trace[j].turn < r.trace[k].turn
    /\ \A k \in DOMAIN r.trace : r.trace[k].turn \in 1..r.iteration

\* The last entry is this turn's, and still empty.
AtTurn(r) == r.trace # <<>> /\ r.trace[Len(r.trace)] = Turn(r.iteration)

\* A call is made in a turn that has no entry yet; a tool is called, and a
\* proposal made, in a turn whose entry is the last one and empty.
Fits(r) ==
    /\ Traced(r)
    /\ r.pc # "idle" => r.outcome = "running"
    /\ r.pc = "calling" => /\ r.iteration > 0
                           /\ \A k \in DOMAIN r.trace : r.trace[k].turn < r.iteration
    /\ r.pc = "tool" => /\ AtTurn(r) /\ r.tools < MaxToolCalls
                        /\ r.asked[1] \in Source
    /\ r.outcome = "proposal" => AtTurn(r)

RunsFit == \A c \in Caller : Fits(run[c])

ProposalIsKept ==
    \A c \in Caller : run[c].outcome = "proposal" => proposal[c].status # "none"

\* Only the trace, its charge and the turn matter to what is on the trace.
LEMMA TracedSame ==
    ASSUME NEW r, NEW q, Traced(r), q.trace = r.trace, q.tools = r.tools,
           q.iteration = r.iteration
    PROVE  Traced(q)
  BY DEF Traced, Collections

\* The places of a trace.
LEMMA TracePlaces ==
    ASSUME NEW r \in Run
    PROVE  /\ r.trace \in Seq(TurnRecord) /\ Len(r.trace) \in Nat
           /\ DOMAIN r.trace = 1..Len(r.trace)
           /\ \A k \in DOMAIN r.trace : r.trace[k] \in TurnRecord
                                        /\ r.trace[k].turn \in Nat
           /\ r.iteration \in Nat /\ r.tools \in Nat
           /\ IsFiniteSet(Collections(r))
  <1>1. r.trace \in Seq(TurnRecord) /\ r.tools \in Nat
    BY DEF Run
  <1>2. /\ Len(r.trace) \in Nat /\ DOMAIN r.trace = 1..Len(r.trace)
        /\ \A k \in DOMAIN r.trace : r.trace[k] \in TurnRecord
    BY <1>1, LenProperties, ElementOfSeq
  <1>3. \A k \in DOMAIN r.trace : r.trace[k].turn \in Nat
    BY <1>2 DEF TurnRecord
  <1>4. r.iteration \in Nat
    <2>1. r.iteration \in 0..MaxIterations /\ MaxIterations \in Nat
      BY InvestigationAssumption DEF Run
    <2> QED
      BY <2>1
  <1>5. IsFiniteSet(Collections(r))
    <2>1. IsFiniteSet(DOMAIN r.trace)
      BY <1>2, FS_Interval
    <2>2. Collections(r) \subseteq DOMAIN r.trace
      BY DEF Collections
    <2> QED
      BY <2>1, <2>2, FS_Subset
  <1> QED
    BY <1>1, <1>2, <1>3, <1>4, <1>5

\* An investigation that ends, but for a proposal, leaves its trace as it is.
LEMMA EndedFits ==
    ASSUME NEW r \in Run, Traced(r),
           NEW o \in {"none", "running", "proposal", "no_safe_fix", "raised"},
           o = "proposal" => AtTurn(r)
    PROVE  Fits(Ended(r, o))
  <1> DEFINE e == Ended(r, o)
  <1>1. /\ e.trace = r.trace /\ e.tools = r.tools /\ e.iteration = r.iteration
        /\ e.pc = "idle" /\ e.outcome = o
    BY DEF Run, Ended
  <1>2. Traced(e)
    BY <1>1, TracedSame
  <1>3. e.outcome = "proposal" => AtTurn(e)
    BY <1>1 DEF AtTurn
  <1> QED
    BY <1>1, <1>2, <1>3 DEF Fits

\* The head of the loop: a new turn is ahead of every entry.
LEMMA NextTurnFits ==
    ASSUME NEW r \in Run, Traced(r), r.outcome = "running", NEW q \in NextTurn(r)
    PROVE  Fits(q)
  <1>1. CASE r.iteration < MaxIterations /\ q = Calling(r)
    <2>1. /\ q.trace = r.trace /\ q.tools = r.tools /\ q.outcome = "running"
          /\ q.iteration = r.iteration + 1 /\ q.pc = "calling"
      BY <1>1 DEF Run, Calling
    <2>2. r.iteration \in Nat /\ \A k \in DOMAIN r.trace : r.trace[k].turn \in Nat
      BY TracePlaces
    <2>3. \A k \in DOMAIN q.trace :
             q.trace[k].turn \in 1..q.iteration /\ q.trace[k].turn < q.iteration
      BY <2>1, <2>2 DEF Traced
    <2>4. Traced(q)
      BY <2>1, <2>3 DEF Traced, Collections
    <2> QED
      BY <2>1, <2>2, <2>3, <2>4 DEF Fits
  <1>2. CASE q = Ended(r, "no_safe_fix")
    BY <1>2, EndedFits
  <1> QED
    BY <1>1, <1>2 DEF NextTurn

\* A useless turn.
LEMMA MalformedFits ==
    ASSUME NEW r \in Run, Traced(r), r.outcome = "running", NEW q \in Malformed(r)
    PROVE  Fits(q)
  <1> DEFINE n == [r EXCEPT !.malformed = @ + 1]
  <1>1. /\ n.trace = r.trace /\ n.tools = r.tools /\ n.iteration = r.iteration
        /\ n.malformed = r.malformed + 1 /\ n.outcome = r.outcome
    BY DEF Run
  <1>2. CASE n.malformed < MaxMalformed
    <2>1. n \in Run
      <3>1. r.malformed + 1 \in 0..(MaxMalformed - 1)
        BY <1>1, <1>2, InvestigationAssumption DEF Run
      <3> QED
        BY <3>1 DEF Run
    <2>2. Traced(n)
      BY <1>1, TracedSame
    <2>3. q \in NextTurn(n)
      BY <1>2 DEF Malformed
    <2> HIDE DEF n
    <2> QED
      BY <1>1, <2>1, <2>2, <2>3, NextTurnFits
  <1>3. CASE ~(n.malformed < MaxMalformed)
    <2>1. q = Ended(n, "no_safe_fix")
      BY <1>3 DEF Malformed
    <2>2. Ended(n, "no_safe_fix") = Ended(r, "no_safe_fix")
      BY DEF Ended, Run
    <2> QED
      BY <2>1, <2>2, EndedFits
  <1> QED
    BY <1>2, <1>3

\* The turn goes on the trace: it is the newest, and no evidence yet.
LEMMA NotedFits ==
    ASSUME NEW r \in Run, Fits(r), r.pc = "calling"
    PROVE  /\ Traced(Noted(r)) /\ AtTurn(Noted(r))
           /\ Noted(r).outcome = "running" /\ Noted(r).tools = r.tools
  <1> DEFINE t == Turn(r.iteration)
             s == Append(r.trace, t)
             n == Len(r.trace)
  <1>1. /\ r.trace \in Seq(TurnRecord) /\ n \in Nat /\ DOMAIN r.trace = 1..n
        /\ r.iteration \in Nat /\ r.iteration > 0
        /\ \A k \in 1..n : r.trace[k].turn \in Nat
    BY TracePlaces DEF Fits
  <1>2. t \in TurnRecord /\ t.source = "none" /\ t.turn = r.iteration
    BY <1>1 DEF Turn, TurnRecord
  <1>3. /\ s # <<>> /\ Len(s) = n + 1 /\ DOMAIN s = 1..(n + 1)
        /\ \A i \in 1..n : s[i] = r.trace[i]
        /\ s[n + 1] = t
    <2>1. /\ s \in Seq(TurnRecord) /\ s # <<>> /\ Len(s) = n + 1
          /\ \A i \in 1..n : s[i] = r.trace[i]
          /\ s[n + 1] = t
      BY <1>1, <1>2, AppendProperties
    <2> QED
      BY <2>1, LenProperties
  <1>4. /\ Noted(r).trace = s /\ Noted(r).tools = r.tools
        /\ Noted(r).iteration = r.iteration /\ Noted(r).outcome = "running"
    BY DEF Noted, Run, Fits
  <1> HIDE DEF s, t, n
  <1>5. Collections(Noted(r)) = Collections(r)
    BY <1>1, <1>2, <1>3, <1>4 DEF Collections
  <1>6. \A k \in 1..n : s[k].turn \in 1..r.iteration /\ s[k].turn < r.iteration
    BY <1>1, <1>3 DEF Fits, Traced
  <1>7. \A k \in 1..(n + 1) : s[k].turn \in 1..r.iteration
    BY <1>1, <1>2, <1>3, <1>6
  <1>8. \A j, k \in 1..(n + 1) : j < k => s[j].turn < s[k].turn
    <2> SUFFICES ASSUME NEW j \in 1..(n + 1), NEW k \in 1..(n + 1), j < k
                 PROVE  s[j].turn < s[k].turn
      OBVIOUS
    <2>1. j \in 1..n
      BY <1>1
    <2>2. CASE k = n + 1
      BY <1>2, <1>3, <1>6, <2>1, <2>2
    <2>3. CASE k # n + 1
      <3>1. k \in 1..n
        BY <1>1, <2>3
      <3> QED
        BY <1>1, <1>3, <2>1, <3>1 DEF Fits, Traced
    <2> QED
      BY <2>2, <2>3
  <1>9. Traced(Noted(r))
    BY <1>3, <1>4, <1>5, <1>7, <1>8 DEF Fits, Traced
  <1>10. AtTurn(Noted(r))
    BY <1>3, <1>4 DEF AtTurn, t
  <1> QED
    BY <1>4, <1>9, <1>10

\* The answer of a tool fills the empty entry and is charged once.
LEMMA CollectedFits ==
    ASSUME NEW r \in Run, Fits(r), r.pc = "tool", pod \in Pod, NEW ok \in BOOLEAN,
           NEW shown \in Shown(r, ok)
    PROVE  Traced(Collected(r, ok, shown)) /\ Collected(r, ok, shown).outcome = "running"
  <1> DEFINE t == [turn |-> r.iteration, source |-> r.asked[1], ok |-> ok,
                   pod |-> IF shown = {} THEN r.asked[2] ELSE pod]
             n == Len(r.trace)
             s == [r.trace EXCEPT ![n] = t]
             q == Collected(r, ok, shown)
  <1>1. /\ r.trace \in Seq(TurnRecord) /\ n \in Nat /\ DOMAIN r.trace = 1..n
        /\ r.tools \in Nat /\ IsFiniteSet(Collections(r)) /\ r.trace # <<>>
    BY TracePlaces DEF Fits, AtTurn
  <1>2. n \in 1..n
    BY <1>1, LenProperties, EmptySeq
  <1>3. /\ r.trace[n].source = "none" /\ r.trace[n].turn = r.iteration
        /\ r.tools < MaxToolCalls /\ r.asked[1] \in Source
        /\ r.outcome = "running"
    BY DEF Fits, AtTurn, Turn
  <1>4. /\ t.turn = r.iteration /\ t.source # "none"
    BY <1>3 DEF Source
  <1>5. /\ DOMAIN s = 1..n
        /\ \A j \in 1..n : s[j] = IF j = n THEN t ELSE r.trace[j]
    BY <1>1, <1>2
  <1>6. /\ q.trace = s /\ q.tools = r.tools + 1 /\ q.iteration = r.iteration
        /\ q.outcome = "running"
    BY <1>3 DEF Collected, Result, Run
  <1> HIDE DEF t, s, n, q
  <1>7. \A j \in 1..n : s[j].turn = r.trace[j].turn
    BY <1>3, <1>4, <1>5
  <1>8. Collections(q) = Collections(r) \cup {n} /\ n \notin Collections(r)
    BY <1>1, <1>2, <1>3, <1>4, <1>5, <1>6 DEF Collections
  <1>9. Cardinality(Collections(q)) = Cardinality(Collections(r)) + 1
    BY <1>1, <1>8, FS_AddElement
  <1>10. q.tools = Cardinality(Collections(q))
    BY <1>6, <1>9 DEF Fits, Traced
  <1>11. q.tools <= MaxToolCalls
    BY <1>1, <1>3, <1>6, InvestigationAssumption
  <1>12. Traced(q)
    BY <1>1, <1>5, <1>6, <1>7, <1>10, <1>11 DEF Fits, Traced
  <1> QED
    BY <1>6, <1>12 DEF q

\* One caller's record becomes one that fits.
LEMMA BecomesFits ==
    ASSUME RunsSound, RunsFit, NEW c \in Caller, NEW S, Becomes(c, S),
           \A q \in S : Fits(q)
    PROVE  RunsFit'
  <1>1. PICK q \in S : run' = [run EXCEPT ![c] = q]
    BY DEF Becomes
  <1> QED
    BY <1>1 DEF RunsSound, RunsFit

\* The same, when what it becomes is determined.
LEMMA BecomesOneFits ==
    ASSUME RunsSound, RunsFit, NEW c \in Caller, NEW q, Fits(q),
           run' = [run EXCEPT ![c] = q]
    PROVE  RunsFit'
  BY DEF RunsSound, RunsFit

\* Every step keeps the traces of all investigations fit.
LEMMA FitStep ==
    ASSUME RunsSound, RunsFit, pod \in Pod, [Next]_vars
    PROVE  RunsFit'
  <1>1. Begun \in Run /\ Traced(Begun) /\ Begun.outcome = "running"
    <2>1. 0 \in 0..(MaxMalformed - 1) /\ 0 \in 0..MaxIterations /\ 0 <= MaxToolCalls
      BY InvestigationAssumption
    <2>2. <<"none", NoPod>> \in (Source \cup {"none"}) \X (Pod \cup {NoPod})
      OBVIOUS
    <2>3. <<>> \in Seq(TurnRecord) /\ DOMAIN <<>> = {}
      BY EmptySeq
    <2>4. Begun \in Run
      BY <2>1, <2>2, <2>3 DEF Begun, Run
    <2>5. Begun.trace = <<>> /\ Begun.tools = 0 /\ Begun.outcome = "running"
      BY DEF Begun
    <2>6. Collections(Begun) = {}
      BY <2>3, <2>5 DEF Collections
    <2>7. Cardinality(Collections(Begun)) = 0
      BY <2>6, FS_EmptySet
    <2> QED
      BY <2>1, <2>3, <2>4, <2>5, <2>7 DEF Traced
  <1>2. \A c \in Caller : /\ run[c] \in Run /\ Seen(run[c]) /\ Fits(run[c])
                          /\ Counted(run[c]) /\ Traced(run[c])
    BY DEF RunsSound, Sound, RunsFit, Fits
  <1>3. ASSUME NEW c \in Caller, StartDeep(c)
        PROVE  RunsFit'
    <2>1. CASE Becomes(c, {Ended(Begun, "no_safe_fix")})
      BY <1>1, <2>1, EndedFits, BecomesFits
    <2>2. CASE Becomes(c, NextTurn(Begun))
      <3>1. \A q \in NextTurn(Begun) : Fits(q)
        BY <1>1, NextTurnFits
      <3> QED
        BY <2>2, <3>1, BecomesFits
    <2> QED
      BY <1>3, <2>1, <2>2 DEF StartDeep
  <1>4. ASSUME NEW c \in Caller, StartEnrich(c)
        PROVE  RunsFit'
    <2> DEFINE e == [Begun EXCEPT !.pc = "enriching", !.sick = ~up]
    <2>1. /\ e.trace = Begun.trace /\ e.tools = Begun.tools /\ e.pc = "enriching"
          /\ e.iteration = Begun.iteration /\ e.outcome = "running"
      BY <1>1 DEF Run
    <2>2. Fits(e)
      <3>1. Traced(e)
        BY <1>1, <2>1, TracedSame
      <3> QED
        BY <2>1, <3>1 DEF Fits
    <2> QED
      BY <1>4, <2>2, BecomesOneFits DEF StartEnrich
  <1>5. ASSUME NEW c \in Caller, EnrichAnswers(c) \/ Authorise(c)
        PROVE  RunsFit'
    <2>1. Fits(Idle)
      BY <1>1, EndedFits DEF Idle
    <2> QED
      BY <1>5, <2>1, BecomesOneFits DEF EnrichAnswers, Authorise
  <1>6. ASSUME NEW c \in Caller, NEW r \in Run, r.trace = run[c].trace,
               r.tools = run[c].tools, r.iteration = run[c].iteration,
               r.outcome = run[c].outcome, run[c].pc = "calling"
        PROVE  \A q \in Malformed(r) : Fits(q)
    <2>1. Traced(r) /\ r.outcome = "running"
      BY <1>2, <1>6, TracedSame DEF Fits
    <2> QED
      BY <1>6, <2>1, MalformedFits
  <1>7. ASSUME NEW c \in Caller, NoAnswer(c)
        PROVE  RunsFit'
    <2> DEFINE m == [run[c] EXCEPT !.misses = @ + 1]
    <2>1. /\ m \in Run /\ m.trace = run[c].trace /\ m.tools = run[c].tools
          /\ m.iteration = run[c].iteration /\ m.outcome = run[c].outcome
      BY <1>2 DEF Run
    <2> HIDE DEF m
    <2>2. \A q \in Malformed(m) : Fits(q)
      BY <1>6, <1>7, <2>1 DEF NoAnswer
    <2> QED
      BY <1>7, <2>2, BecomesFits DEF NoAnswer, m
  <1>8. ASSUME NEW c \in Caller, run[c].pc = "calling"
        PROVE  /\ Noted(run[c]) \in Run /\ Traced(Noted(run[c]))
               /\ AtTurn(Noted(run[c])) /\ Noted(run[c]).outcome = "running"
               /\ Noted(run[c]).tools = run[c].tools
               /\ \A q \in Malformed(Noted(run[c])) : Fits(q)
    <2>1. /\ Noted(run[c]) \in Run /\ Traced(Noted(run[c]))
          /\ AtTurn(Noted(run[c])) /\ Noted(run[c]).outcome = "running"
          /\ Noted(run[c]).tools = run[c].tools
      BY <1>2, <1>8, NotedSound, NotedFits
    <2> QED
      BY <2>1, MalformedFits
  <1>9. ASSUME NEW c \in Caller, Useless(c)
        PROVE  RunsFit'
    <2> DEFINE m == [run[c] EXCEPT !.misses = 0]
    <2>1. /\ m \in Run /\ m.trace = run[c].trace /\ m.tools = run[c].tools
          /\ m.iteration = run[c].iteration /\ m.outcome = run[c].outcome
      BY <1>2 DEF Run
    <2> HIDE DEF m
    <2>2. run[c].pc = "calling"
      BY <1>9 DEF Useless, Answered
    <2>3. \A q \in Malformed(m) : Fits(q)
      BY <1>6, <2>1, <2>2
    <2> QED
      BY <1>8, <1>9, <2>2, <2>3, BecomesFits DEF Useless, m
  <1>10. ASSUME NEW c \in Caller, GivesUp(c) \/ Proposes(c) \/ Raises(c)
         PROVE  RunsFit'
    <2>1. Fits(Ended(Begun, "raised"))
      BY <1>1, EndedFits
    <2>2. run[c].pc = "calling"
      BY <1>10 DEF GivesUp, Proposes, Raises, Answered
    <2>3. /\ Fits(Ended(Noted(run[c]), "no_safe_fix"))
          /\ Fits(Ended(Noted(run[c]), "proposal"))
      BY <1>8, <2>2, EndedFits
    <2> QED
      BY <1>8, <1>10, <2>1, <2>2, <2>3, BecomesFits DEF GivesUp, Proposes, Raises
  <1>11. ASSUME NEW c \in Caller, Requests(c)
         PROVE  RunsFit'
    <2>0. run[c].pc = "calling"
      BY <1>11 DEF Requests, Answered
    <2>1. ASSUME NEW s \in Source, NEW p \in Pod, run[c].tools < MaxToolCalls
          PROVE  Fits([Noted(run[c]) EXCEPT !.pc = "tool",
                           !.asked = <<s, IF s = "logs" THEN p ELSE NoPod>>])
      <3> DEFINE n == Noted(run[c])
                 a == <<s, IF s = "logs" THEN p ELSE NoPod>>
                 q == [n EXCEPT !.pc = "tool", !.asked = a]
      <3>1. /\ n \in Run /\ Traced(n) /\ AtTurn(n) /\ n.outcome = "running"
            /\ n.tools < MaxToolCalls
        BY <1>8, <2>0, <2>1
      <3>2. a[1] = s
        OBVIOUS
      <3> HIDE DEF n, a
      <3>3. /\ q.trace = n.trace /\ q.tools = n.tools /\ q.iteration = n.iteration
            /\ q.outcome = n.outcome /\ q.pc = "tool" /\ q.asked = a
        BY <3>1 DEF Run
      <3> HIDE DEF q
      <3>4. Traced(q) /\ AtTurn(q)
        BY <3>1, <3>3, TracedSame DEF AtTurn
      <3>5. Fits(q)
        BY <3>1, <3>2, <3>3, <3>4 DEF Fits
      <3> QED
        BY <3>5 DEF q, n, a
    <2>2. CASE /\ run[c].tools < MaxToolCalls
               /\ \E s \in Source, p \in Pod :
                     run' = [run EXCEPT ![c] =
                        [Noted(run[c]) EXCEPT !.pc = "tool",
                            !.asked = <<s, IF s = "logs" THEN p ELSE NoPod>>]]
      BY <2>1, <2>2, BecomesOneFits
    <2>3. CASE Becomes(c, Malformed(Noted(run[c])))
      BY <1>8, <2>0, <2>3, BecomesFits
    <2> QED
      BY <1>11, <2>2, <2>3 DEF Requests
  <1>12. ASSUME NEW c \in Caller, ToolAnswers(c)
         PROVE  RunsFit'
    <2>0. PICK ok \in BOOLEAN :
             /\ Allows(run[c], ok)
             /\ \E shown \in Shown(run[c], ok) :
                   Becomes(c, NextTurn(Collected(run[c], ok, shown)))
      BY <1>12 DEF ToolAnswers
    <2>1. PICK shown \in Shown(run[c], ok) :
             Becomes(c, NextTurn(Collected(run[c], ok, shown)))
      BY <2>0
    <2>2. run[c].pc = "tool"
      BY <1>12 DEF ToolAnswers
    <2>3. /\ Collected(run[c], ok, shown) \in Run /\ Traced(Collected(run[c], ok, shown))
          /\ Collected(run[c], ok, shown).outcome = "running"
      BY <1>2, <2>0, <2>1, <2>2, CollectedSound, CollectedFits
    <2>4. \A q \in NextTurn(Collected(run[c], ok, shown)) : Fits(q)
      BY <2>3, NextTurnFits
    <2> QED
      BY <2>1, <2>4, BecomesFits
  <1>13. CASE ProviderFails
    <2>1. ASSUME NEW c \in Caller, NEW r, r = [run[c] EXCEPT !.sick = TRUE]
          PROVE  Fits(r)
      <3>1. /\ r.trace = run[c].trace /\ r.tools = run[c].tools
            /\ r.iteration = run[c].iteration /\ r.outcome = run[c].outcome
            /\ r.pc = run[c].pc /\ r.asked = run[c].asked
        BY <1>2, <2>1 DEF Run
      <3>2. Traced(r) /\ (AtTurn(run[c]) => AtTurn(r))
        BY <1>2, <3>1, TracedSame DEF AtTurn
      <3> QED
        BY <1>2, <3>1, <3>2 DEF Fits
    <2>2. \A c \in Caller : Fits(run'[c])
      BY <1>2, <1>13, <2>1 DEF ProviderFails
    <2> QED
      BY <2>2 DEF RunsFit
  <1>14. CASE UNCHANGED run
    BY <1>14 DEF RunsFit
  <1>15. ASSUME NEW c \in Caller, Recheck(c) \/ Execute(c) \/ Validate(c)
         PROVE  UNCHANGED run
    BY <1>15 DEF Recheck, Execute, Validate
  <1>16. CASE \/ ProviderRecovers \/ CircuitCools \/ HistoryChanges
              \/ PodReplaced \/ PolicyChanges \/ UNCHANGED vars
    BY <1>14, <1>16 DEF ProviderRecovers, CircuitCools, HistoryChanges,
       PodReplaced, PolicyChanges, Disturb, vars
  <1> QED
    BY <1>3, <1>4, <1>5, <1>7, <1>9, <1>10, <1>11, <1>12, <1>13, <1>14, <1>15,
       <1>16 DEF Next, World, Answers, Human

\* No turn of the loop ends in a proposal by itself.
LEMMA TurnsProposeNothing ==
    ASSUME NEW r \in Run, r.outcome # "proposal"
    PROVE  /\ \A q \in NextTurn(r) : q.outcome # "proposal"
           /\ \A q \in Malformed(r) : q.outcome # "proposal"
  <1>1. ASSUME NEW x \in Run, x.outcome # "proposal", NEW q \in NextTurn(x)
        PROVE  q.outcome # "proposal"
    BY <1>1 DEF NextTurn, Calling, Ended, Run
  <1>2. ASSUME NEW q \in Malformed(r)
        PROVE  q.outcome # "proposal"
    <2> DEFINE n == [r EXCEPT !.malformed = @ + 1]
    <2>1. n.outcome = r.outcome
      BY DEF Run
    <2>2. n.malformed = r.malformed + 1
      BY DEF Run
    <2>3. CASE n.malformed < MaxMalformed /\ q \in NextTurn(n)
      <3>1. r.malformed + 1 \in 0..(MaxMalformed - 1)
        BY <2>2, <2>3, InvestigationAssumption DEF Run
      <3>2. n \in Run
        BY <3>1 DEF Run
      <3> HIDE DEF n
      <3> QED
        BY <1>1, <2>1, <2>3, <3>2
    <2>4. CASE q = Ended(n, "no_safe_fix")
      BY <2>4 DEF Ended, Run
    <2> QED
      BY <2>3, <2>4 DEF Malformed
  <1> QED
    BY <1>1, <1>2

\* Only a proposal makes "proposal" the outcome.
LEMMA OnlyProposesProposes ==
    ASSUME RunsSound, RunsFit, pod \in Pod, [Next]_vars, NEW c \in Caller,
           run'[c].outcome = "proposal", run[c].outcome # "proposal"
    PROVE  Proposes(c)
  <1>0. run \in [Caller -> Run] /\ \A b \in Caller : Fits(run[b]) /\ Sound(run[b])
    BY DEF RunsSound, RunsFit
  <1>1. run'[c] # run[c]
    OBVIOUS
  <1>2. ASSUME NEW b \in Caller, NEW S, Becomes(b, S)
        PROVE  b = c /\ run'[c] \in S
    BY <1>0, <1>1, <1>2 DEF Becomes
  <1>3. Begun \in Run /\ Begun.outcome = "running"
    <2>1. 0 \in 0..(MaxMalformed - 1) /\ 0 \in 0..MaxIterations
      BY InvestigationAssumption
    <2>2. <<"none", NoPod>> \in (Source \cup {"none"}) \X (Pod \cup {NoPod})
      OBVIOUS
    <2>3. <<>> \in Seq(TurnRecord)
      BY EmptySeq
    <2> QED
      BY <2>1, <2>2, <2>3 DEF Begun, Run
  <1>4. \A o : Ended(Begun, o).outcome = o
    BY <1>3 DEF Ended, Run
  <1>5. ASSUME NEW b \in Caller, StartDeep(b)
        PROVE  FALSE
    BY <1>2, <1>3, <1>4, <1>5, TurnsProposeNothing DEF StartDeep
  <1>6. ASSUME NEW b \in Caller, StartEnrich(b)
        PROVE  FALSE
    <2>1. [Begun EXCEPT !.pc = "enriching", !.sick = ~up].outcome = "running"
      BY <1>3 DEF Run
    <2> QED
      BY <1>0, <1>1, <1>6, <2>1 DEF StartEnrich
  <1>7. ASSUME NEW b \in Caller, EnrichAnswers(b) \/ Authorise(b)
        PROVE  FALSE
    <2>1. Idle.outcome = "none"
      BY <1>4 DEF Idle
    <2> QED
      BY <1>0, <1>1, <1>7, <2>1 DEF EnrichAnswers, Authorise
  <1>8. run[c].pc = "calling" =>
           /\ \A q \in Malformed([run[c] EXCEPT !.misses = @ + 1]) :
                 q.outcome # "proposal"
           /\ \A q \in Malformed([run[c] EXCEPT !.misses = 0]) :
                 q.outcome # "proposal"
    <2>1. \A r \in Run, n \in Nat : /\ [r EXCEPT !.misses = n] \in Run
                                   /\ [r EXCEPT !.misses = n].outcome = r.outcome
      BY DEF Run
    <2>2. run[c].misses + 1 \in Nat
      BY <1>0, CountersAreNat
    <2> QED
      BY <1>0, <2>1, <2>2, TurnsProposeNothing
  <1>9. run[c].pc = "calling" =>
           /\ Noted(run[c]) \in Run /\ Noted(run[c]).outcome = "running"
           /\ \A q \in Malformed(Noted(run[c])) : q.outcome # "proposal"
    <2>1. run[c].pc = "calling" =>
             Noted(run[c]) \in Run /\ Noted(run[c]).outcome = "running"
      BY <1>0, NotedSound, NotedFits DEF Sound
    <2> QED
      BY <2>1, TurnsProposeNothing
  <1>10. ASSUME NEW b \in Caller, NoAnswer(b) \/ Useless(b)
         PROVE  FALSE
    BY <1>2, <1>8, <1>9, <1>10 DEF NoAnswer, Useless, Answered
  <1>11. ASSUME NEW b \in Caller, GivesUp(b) \/ Raises(b)
         PROVE  FALSE
    <2>1. run[c].pc = "calling" => Ended(Noted(run[c]), "no_safe_fix").outcome = "no_safe_fix"
      BY <1>9 DEF Ended, Run
    <2> QED
      BY <1>2, <1>4, <1>11, <2>1 DEF GivesUp, Raises, Answered
  <1>12. ASSUME NEW b \in Caller, Requests(b)
         PROVE  FALSE
    <2>1. \A s, p : run[c].pc = "calling" =>
             [Noted(run[c]) EXCEPT !.pc = "tool", !.asked = <<s, p>>].outcome = "running"
      BY <1>9 DEF Run
    <2>2. ASSUME Becomes(b, Malformed(Noted(run[b])))
          PROVE  FALSE
      BY <1>2, <1>9, <1>12, <2>2 DEF Requests, Answered
    <2>3. ASSUME NEW s \in Source, NEW p \in Pod,
                 run' = [run EXCEPT ![b] = [Noted(run[b]) EXCEPT !.pc = "tool",
                            !.asked = <<s, IF s = "logs" THEN p ELSE NoPod>>]]
          PROVE  FALSE
      <3>1. b = c /\ run[c].pc = "calling"
        BY <1>0, <1>1, <1>12, <2>3 DEF Requests, Answered
      <3>2. run'[c] = [Noted(run[c]) EXCEPT !.pc = "tool",
                          !.asked = <<s, IF s = "logs" THEN p ELSE NoPod>>]
        BY <1>0, <2>3, <3>1
      <3> QED
        BY <2>1, <3>1, <3>2
    <2> QED
      BY <1>12, <2>2, <2>3 DEF Requests
  <1>13. ASSUME NEW b \in Caller, ToolAnswers(b)
         PROVE  FALSE
    <2>0. PICK ok \in BOOLEAN :
             /\ Allows(run[b], ok)
             /\ \E shown \in Shown(run[b], ok) :
                   Becomes(b, NextTurn(Collected(run[b], ok, shown)))
      BY <1>13 DEF ToolAnswers
    <2>1. PICK shown \in Shown(run[b], ok) :
             Becomes(b, NextTurn(Collected(run[b], ok, shown)))
      BY <2>0
    <2>2. run[b].pc = "tool" /\ b = c
      BY <1>2, <1>13, <2>1 DEF ToolAnswers
    <2>3. /\ Collected(run[c], ok, shown) \in Run
          /\ Collected(run[c], ok, shown).outcome = "running"
      BY <1>0, <2>0, <2>1, <2>2, CollectedSound, CollectedFits DEF Sound
    <2> QED
      BY <1>2, <2>1, <2>2, <2>3, TurnsProposeNothing
  <1>14. CASE ProviderFails
    <2>1. [run[c] EXCEPT !.sick = TRUE].outcome = run[c].outcome
      BY <1>0 DEF Run
    <2> QED
      BY <1>14, <2>1 DEF ProviderFails
  <1>15. ASSUME \/ ProviderRecovers \/ CircuitCools \/ HistoryChanges
                \/ PodReplaced \/ PolicyChanges \/ UNCHANGED vars
                \/ \E b \in Caller : Recheck(b) \/ Execute(b) \/ Validate(b)
         PROVE  FALSE
    BY <1>1, <1>15 DEF ProviderRecovers, CircuitCools, HistoryChanges,
       PodReplaced, PolicyChanges, Disturb, Recheck, Execute, Validate, vars
  <1>16. ASSUME NEW b \in Caller, Proposes(b)
         PROVE  Proposes(c)
    BY <1>2, <1>16 DEF Proposes
  <1> QED
    BY <1>5, <1>6, <1>7, <1>10, <1>11, <1>12, <1>13, <1>14, <1>15, <1>16
    DEF Next, World, Answers, Human

\* What an investigation proposed is on the books, and nothing takes it away.
LEMMA ProposalStep ==
    ASSUME DeepInv, RunsFit, ProposalIsKept, [Next]_vars
    PROVE  ProposalIsKept'
  <1>1. /\ run \in [Caller -> Run]
        /\ proposal \in [Caller -> Judged \cup {NoProposal}]
    BY DEF DeepInv, RunsSound, ImagesHaveRun
  <1>2. \A c \in Caller : proposal[c].status # "none" => proposal'[c].status # "none"
    <2>1. \A c \in Caller : proposal[c].status # "none" => proposal[c] \in Judged
      BY <1>1 DEF NoProposal
    <2>2. ASSUME NEW c \in Caller, NEW s \in {"checking", "executed", "failed",
                                              "validated"},
                 Mark(c, s)
          PROVE  \A b \in Caller : proposal[b].status # "none"
                                   => proposal'[b].status # "none"
      BY <1>1, <2>1, <2>2 DEF Mark, Judged
    <2>3. ASSUME NEW c \in Caller, Human(c) \/ Answers(c)
          PROVE  \A b \in Caller : proposal[b].status # "none"
                                   => proposal'[b].status # "none"
      <3>1. CASE Authorise(c) \/ Execute(c) \/ Validate(c)
        BY <2>2, <3>1 DEF Authorise, Execute, Validate
      <3>2. CASE Recheck(c)
        BY <1>1, <3>2 DEF Recheck
      <3>3. CASE Proposes(c)
        BY <1>1, <3>3 DEF Proposes
      <3>4. CASE Answers(c) /\ ~Proposes(c)
        BY <3>4 DEF Answers, NoAnswer, Useless, GivesUp, Raises, Requests,
           EnrichAnswers, Answered
      <3> QED
        BY <2>3, <3>1, <3>2, <3>3, <3>4 DEF Human
    <2>4. ASSUME NEW c \in Caller, StartDeep(c) \/ StartEnrich(c) \/ ToolAnswers(c)
          PROVE  UNCHANGED proposal
      BY <2>4 DEF StartDeep, StartEnrich, ToolAnswers
    <2>5. World \/ CircuitCools \/ UNCHANGED vars => UNCHANGED proposal
      BY DEF World, CircuitCools, ProviderFails, ProviderRecovers,
         HistoryChanges, PodReplaced, PolicyChanges, Disturb, vars
    <2> QED
      BY <2>3, <2>4, <2>5 DEF Next
  <1>3. ASSUME NEW c \in Caller, run'[c].outcome = "proposal",
               run[c].outcome # "proposal"
        PROVE  proposal'[c].status # "none"
    <2>1. Proposes(c)
      BY <1>3, OnlyProposesProposes DEF DeepInv, WorldTyped
    <2>2. Answered(c) /\ run[c].pc = "calling"
      BY <2>1 DEF Proposes, Answered
    <2>3. \A q \in Malformed(Noted(run[c])) : q.outcome # "proposal"
      <3>1. Noted(run[c]) \in Run /\ Noted(run[c]).outcome = "running"
        BY <2>2, NotedSound, NotedFits DEF DeepInv, RunsSound, Sound, RunsFit
      <3> QED
        BY <3>1, TurnsProposeNothing
    <2>4. ~Becomes(c, Malformed(Noted(run[c])))
      BY <1>1, <1>3, <2>3 DEF Becomes
    <2>5. PICK p \in Reply :
             proposal' = [proposal EXCEPT ![c] =
                [status |-> IF Eligible(p, policy) THEN "suggested" ELSE "rejected",
                 target |-> EligibleTarget(p, policy)]]
      BY <2>1, <2>4 DEF Proposes
    <2> QED
      BY <1>1, <2>5
  <1> QED
    BY <1>2, <1>3 DEF ProposalIsKept

(***************************************************************************)
(* The trace an operator is shown is what happened, whatever the reasoner  *)
(* answers and however long it is asked: its evidence count is the number  *)
(* of entries with evidence and within the budget, its turns are in order  *)
(* and within the limit, and a proposal comes from the last turn.          *)
(***************************************************************************)
THEOREM TracesAreTrue == Spec => []TraceIsTrue
  <1> DEFINE Inv == RunsFit /\ ProposalIsKept
  <1>1. Init => Inv
    <2> SUFFICES ASSUME Init PROVE Inv
      OBVIOUS
    <2>1. run = [c \in Caller |-> Idle]
      BY DEF Init
    <2>3. /\ Idle.trace = <<>> /\ Idle.tools = 0 /\ Idle.pc = "idle"
          /\ Idle.outcome = "none"
      BY DEF Idle, Ended, Begun
    <2>4. DOMAIN Idle.trace = {} /\ Collections(Idle) = {}
      BY <2>3, EmptySeq DEF Collections
    <2>5. Cardinality(Collections(Idle)) = 0 /\ 0 <= MaxToolCalls
      BY <2>4, FS_EmptySet, InvestigationAssumption
    <2>6. Fits(Idle)
      BY <2>3, <2>4, <2>5 DEF Fits, Traced
    <2> QED
      BY <2>1, <2>3, <2>6 DEF RunsFit, ProposalIsKept
  <1>2. DeepInv /\ Inv /\ [Next]_vars => Inv'
    <2> SUFFICES ASSUME DeepInv, Inv, [Next]_vars PROVE Inv'
      OBVIOUS
    <2>1. RunsSound /\ pod \in Pod
      BY DEF DeepInv, WorldTyped
    <2> QED
      BY <2>1, FitStep, ProposalStep
  <1>3. DeepInv /\ Inv => TraceIsTrue
    <2> SUFFICES ASSUME DeepInv, Inv, NEW c \in Caller
                 PROVE  LET r == run[c] IN
                        /\ r.tools = Cardinality(Collections(r))
                        /\ r.tools <= MaxToolCalls
                        /\ \A j, k \in DOMAIN r.trace :
                              j < k => r.trace[j].turn < r.trace[k].turn
                        /\ \A k \in DOMAIN r.trace :
                              r.trace[k].turn \in 1..r.iteration
                        /\ r.outcome = "proposal" =>
                              /\ r.trace[Len(r.trace)] = Turn(r.iteration)
                              /\ proposal[c].status # "none"
      BY DEF TraceIsTrue
    <2> QED
      BY DEF RunsFit, Fits, Traced, AtTurn, ProposalIsKept
  <1> QED
    BY <1>1, <1>2, <1>3, DeepInvariant, PTL DEF Spec
=============================================================================
