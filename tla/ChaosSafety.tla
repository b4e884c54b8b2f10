----------------------------- MODULE ChaosSafety -----------------------------
(***************************************************************************)
(* Proofs about ChaosControl, for any Pods, threads, leak sizes, attempts, *)
(* faults and restarts: a reset that overlaps its own retries still leaves *)
(* the side effects where the state says they are, and a reset that        *)
(* reports success has remedied the Pod that answered it.                  *)
(***************************************************************************)
EXTENDS ChaosControl, TLAPS

(***************************************************************************)
(* The types of what TypeOK leaves open: requests and the client.          *)
(***************************************************************************)
Received ==
    [pc : {"received"}, pod : Pod, op : {"reset"}] \cup
    [pc : {"received"}, pod : Pod, op : {"fault"}, payload : ChaosState,
     given : SUBSET DOMAIN NoFault]

Changed ==
    [pc : {"burner", "leak", "answered"}, pod : Pod, op : {"reset", "fault"},
     previous : ChaosState, current : ChaosState]

\* The outcomes of a call that no Pod answered.
Podless == {"transient", "failed"}

Client ==
    {NoClient} \cup
    [pc : {"calling"}, attempt : Nat] \cup
    [pc : {"waiting"}, attempt : Nat, thread : Thread, pod : Pod] \cup
    [pc : {"done"}, outcome : Podless] \cup
    [pc : {"done"}, outcome : {"cleared", "rejected"}, pod : Pod]

Typed ==
    /\ TypeOK
    /\ thread \in [Thread -> {Free} \cup Received \cup Changed]
    /\ client \in Client

-----------------------------------------------------------------------------
(***************************************************************************)
(* The side effects.  What makes them converge: only the thread that found *)
(* the state to differ applies anything, and until it has done so every    *)
(* other thread on the Pod brings the same state.                          *)
(***************************************************************************)
\* A fault has its Pod for itself.
FaultsAlone ==
    \A s, t \in Thread :
        /\ thread[s].pc # "free" /\ thread[t].pc # "free"
        /\ thread[s].pod = thread[t].pod /\ thread[s].op = "fault"
        => s = t

\* What a thread is about to apply is the state of its Pod.
AppliesState ==
    \A t \in Thread :
        thread[t].pc \in {"burner", "leak"} =>
            /\ thread[t].current = state[thread[t].pod]
            /\ thread[t].op = "reset" => thread[t].current = Default

\* A burner that does not follow the state has a thread that will move it.
BurnerFollows ==
    \A p \in Pod : burning[p] # state[p].cpu_burn =>
        \E t \in Thread : /\ thread[t].pc = "burner" /\ thread[t].pod = p
                          /\ thread[t].current.cpu_burn
                                # thread[t].previous.cpu_burn

\* So has a leak buffer.
LeakFollows ==
    \A p \in Pod : leaked[p] # state[p].memory_leak_mb =>
        \E t \in Thread : /\ thread[t].pc \in {"burner", "leak"}
                          /\ thread[t].pod = p
                          /\ thread[t].current.memory_leak_mb
                                # thread[t].previous.memory_leak_mb

EffectsInv ==
    Typed /\ FaultsAlone /\ AppliesState /\ BurnerFollows /\ LeakFollows

(***************************************************************************)
(* The remedy.  A Pod that a reset has found its way to is at its default  *)
(* unless a fault was injected since.                                      *)
(***************************************************************************)
FaultsMarked ==
    \A t \in Thread :
        thread[t].pc # "free" /\ thread[t].op = "fault" => injected[thread[t].pod]

\* The thread a client waits for is its own reset, if the Pod still has it.
WaitsForReset ==
    client.pc = "waiting" /\ thread[client.thread].pc # "free" =>
        /\ thread[client.thread].op = "reset"
        /\ thread[client.thread].pod = client.pod
        /\ thread[client.thread].pc # "received" /\ ~injected[client.pod]
              => state[client.pod] = Default

\* The Pod that answered a successful reset is in its default state.
ClearedIsDefault ==
    client.pc = "done" /\ client.outcome = "cleared" /\ ~injected[client.pod]
        => state[client.pod] = Default

RemedyInv == Typed /\ FaultsMarked /\ WaitsForReset /\ ClearedIsDefault

-----------------------------------------------------------------------------
(***************************************************************************)
(* Types.                                                                  *)
(***************************************************************************)
\* The states a Pod is given are states.
LEMMA StateFacts ==
    /\ Default \in ChaosState /\ Default.cpu_burn = FALSE /\ Default.memory_leak_mb = 0
    /\ \A old, new \in ChaosState : \A given \in SUBSET DOMAIN NoFault :
          Updated(old, new, given) \in ChaosState
  <1>1. Default \in ChaosState /\ Default.cpu_burn = FALSE /\ Default.memory_leak_mb = 0
    BY ChaosAssumption DEF Default, NoFault, ChaosState
  <1>2. ASSUME NEW old \in ChaosState, NEW new \in ChaosState, NEW given
        PROVE  Updated(old, new, given) \in ChaosState
    BY DEF Updated, ChaosState
  <1> QED
    BY <1>1, <1>2

\* A thread in flight, by where it is.
LEMMA ThreadFacts ==
    ASSUME Typed, NEW t \in Thread
    PROVE  /\ thread[t].pc \in {"free", "received", "burner", "leak", "answered"}
           /\ thread[t].pc = "free" <=> thread[t] = Free
           /\ thread[t].pc # "free" =>
                 /\ thread[t].pod \in Pod /\ thread[t].op \in {"reset", "fault"}
                 /\ thread[t].pc = "received" => thread[t] \in Received
                 /\ thread[t].pc # "received" => thread[t] \in Changed
  BY DEF Typed, Free, Received, Changed

\* Where the client is.
LEMMA ClientFacts ==
    ASSUME Typed
    PROVE  /\ client.pc \in {"idle", "calling", "waiting", "done"}
           /\ client.pc = "calling" => client.attempt \in Nat
           /\ client.pc = "waiting" => /\ client.thread \in Thread
                                       /\ client.pod \in Pod
                                       /\ client.attempt \in Nat
           /\ client.pc = "done" => client \in Client
           /\ client.pc = "done" /\ client.outcome \notin Podless =>
                 client.pod \in Pod
  BY DEF Typed, Client, NoClient, Podless

\* Giving up, or trying again.
LEMMA FailedTyped ==
    ASSUME Typed, client.pc \in {"calling", "waiting"}, Failed
    PROVE  /\ client' \in Client /\ client'.pc \in {"calling", "done"}
           /\ client'.pc = "done" => client'.outcome \in Podless
  <1>1. client.attempt + 1 \in Nat
    BY ClientFacts
  <1>2. \/ client' = [pc |-> "calling", attempt |-> client.attempt + 1]
        \/ \E o \in Podless : client' = [pc |-> "done", outcome |-> o]
    BY DEF Failed, Podless
  <1> QED
    BY <1>1, <1>2 DEF Client

\* The types are kept.
LEMMA TypedStep == Typed /\ [Next]_vars => Typed'
  <1> SUFFICES ASSUME Typed, [Next]_vars PROVE Typed'
    OBVIOUS
  <1> USE DEF Typed
  <1>1. ASSUME NEW t \in Thread, NEW p \in Pod, InjectFault(t, p) PROVE Typed'
    <2>1. PICK payload \in ChaosState, given \in SUBSET DOMAIN NoFault :
             thread' = [thread EXCEPT ![t] =
                [pc |-> "received", pod |-> p, op |-> "fault",
                 payload |-> payload, given |-> given]]
      BY <1>1 DEF InjectFault
    <2>2. thread' \in [Thread -> {Free} \cup Received \cup Changed]
      BY <2>1 DEF Received
    <2>3. faults' \in 0..MaxFaults
      BY <1>1, ChaosAssumption DEF InjectFault, TypeOK
    <2>4. injected' \in [Pod -> BOOLEAN]
      BY <1>1 DEF InjectFault, TypeOK
    <2> QED
      BY <1>1, <2>2, <2>3, <2>4 DEF InjectFault, TypeOK
  <1>2. ASSUME NEW t \in Thread, ChangeState(t) PROVE Typed'
    <2> DEFINE p == thread[t].pod
               new == IF thread[t].op = "reset" THEN Default
                      ELSE Updated(state[p], thread[t].payload, thread[t].given)
    <2>1. p \in Pod /\ thread[t] \in Received /\ state[p] \in ChaosState
          /\ thread[t].op \in {"reset", "fault"}
      BY <1>2, ThreadFacts DEF ChangeState, TypeOK
    <2>2. new \in ChaosState
      BY <2>1, StateFacts DEF Received
    <2>3. /\ state' = [state EXCEPT ![p] = new]
          /\ thread' = [thread EXCEPT ![t] =
                 [pc |-> "burner", pod |-> p, op |-> thread[t].op,
                  previous |-> state[p], current |-> new]]
      BY <1>2 DEF ChangeState
    <2> HIDE DEF new, p
    <2>4. thread' \in [Thread -> {Free} \cup Received \cup Changed]
      BY <2>1, <2>2, <2>3 DEF Changed
    <2>5. state' \in [Pod -> ChaosState]
      BY <2>1, <2>2, <2>3 DEF TypeOK
    <2> QED
      BY <1>2, <2>4, <2>5 DEF ChangeState, TypeOK, worldVars
  <1>3. ASSUME NEW t \in Thread, ApplyBurner(t) PROVE Typed'
    <2>1. thread[t] \in Changed
      BY <1>3, ThreadFacts DEF ApplyBurner
    <2>2. thread' \in [Thread -> {Free} \cup Received \cup Changed]
      BY <1>3, <2>1 DEF ApplyBurner, Changed
    <2>3. thread[t].current.cpu_burn \in BOOLEAN
      BY <2>1 DEF Changed, ChaosState
    <2>4. burning' \in [Pod -> BOOLEAN]
      BY <1>3, <2>3 DEF ApplyBurner, TypeOK
    <2> QED
      BY <1>3, <2>2, <2>4 DEF ApplyBurner, TypeOK, worldVars
  <1>4. ASSUME NEW t \in Thread, ApplyLeak(t) PROVE Typed'
    <2>1. thread[t] \in Changed
      BY <1>4, ThreadFacts DEF ApplyLeak
    <2>2. thread' \in [Thread -> {Free} \cup Received \cup Changed]
      BY <1>4, <2>1 DEF ApplyLeak, Changed
    <2>3. thread[t].current.memory_leak_mb \in Leak
      BY <2>1 DEF Changed, ChaosState
    <2>4. leaked' \in [Pod -> Leak]
      BY <1>4, <2>3 DEF ApplyLeak, TypeOK
    <2> QED
      BY <1>4, <2>2, <2>4 DEF ApplyLeak, TypeOK, worldVars
  <1>5. ASSUME NEW t \in Thread, DropAnswer(t) PROVE Typed'
    BY <1>5 DEF DropAnswer, TypeOK, podVars, worldVars
  <1>6. ASSUME NEW p \in Pod, PodRestarts(p) PROVE Typed'
    <2>1. restarts' \in 0..MaxRestarts
      BY <1>6, ChaosAssumption DEF PodRestarts, TypeOK
    <2>2. /\ state' \in [Pod -> ChaosState] /\ burning' \in [Pod -> BOOLEAN]
          /\ leaked' \in [Pod -> Leak] /\ injected' \in [Pod -> BOOLEAN]
      BY <1>6, StateFacts, ChaosAssumption DEF PodRestarts, TypeOK
    <2> QED
      BY <1>6, <2>1, <2>2 DEF PodRestarts, TypeOK
  <1>7. CASE CallReset
    BY <1>7 DEF CallReset, TypeOK, podVars, worldVars, Client, Podless
  <1>8. CASE SendReset
    <2>1. CASE Failed /\ UNCHANGED <<thread, injected>>
      BY <1>8, <2>1, FailedTyped DEF SendReset, TypeOK, worldVars
    <2>2. ASSUME NEW t \in Thread, NEW p \in Pod,
             thread' = [thread EXCEPT ![t] =
                [pc |-> "received", pod |-> p, op |-> "reset"]],
             client' = [pc |-> "waiting", attempt |-> client.attempt,
                        thread |-> t, pod |-> p],
             injected' = [injected EXCEPT ![p] = @ /\ InFlight(p) # {}]
          PROVE Typed'
      <3>1. client' \in Client
        BY <1>8, <2>2, ClientFacts DEF SendReset, Client
      <3>2. thread' \in [Thread -> {Free} \cup Received \cup Changed]
        BY <2>2 DEF Received
      <3>3. injected' \in [Pod -> BOOLEAN]
        BY <2>2 DEF TypeOK
      <3> QED
        BY <1>8, <3>1, <3>2, <3>3 DEF SendReset, TypeOK, worldVars
    <2> QED
      BY <1>8, <2>1, <2>2 DEF SendReset
  <1>9. CASE ResetAnswered
    <2>1. client' \in Client
      BY <1>9, ClientFacts DEF ResetAnswered, Client, OutcomeOf
    <2> QED
      BY <1>9, <2>1 DEF ResetAnswered, TypeOK, podVars, worldVars
  <1>10. CASE ResetUnanswered
    BY <1>10, FailedTyped DEF ResetUnanswered, TypeOK, podVars, worldVars
  <1>11. CASE TakeOutcome
    BY <1>11 DEF TakeOutcome, TypeOK, podVars, worldVars, Client
  <1>12. CASE UNCHANGED vars
    BY <1>12 DEF vars, TypeOK, podVars, worldVars
  <1> QED
    BY <1>1, <1>2, <1>3, <1>4, <1>5, <1>6, <1>7, <1>8, <1>9, <1>10, <1>11, <1>12
    DEF Next, Serve, ResetStep

-----------------------------------------------------------------------------
(***************************************************************************)
(* The side effects converge.                                              *)
(***************************************************************************)
\* Threads that only leave, or arrive as resets among resets, disturb nothing.
LEMMA EffectsKept ==
    ASSUME EffectsInv, Typed', UNCHANGED <<state, burning, leaked>>,
           \A t \in Thread :
              \/ thread'[t] = thread[t]
              \/ /\ thread[t].pc \notin {"burner", "leak"}
                 /\ thread'[t].pc \in {"free", "received"},
           FaultsAlone'
    PROVE  EffectsInv'
  <1>1. \A t \in Thread :
           /\ thread[t].pc \in {"burner", "leak"} => thread'[t] = thread[t]
           /\ thread'[t].pc \in {"burner", "leak"} => thread'[t] = thread[t]
    OBVIOUS
  <1>2. AppliesState'
    BY <1>1 DEF EffectsInv, AppliesState
  <1>3. BurnerFollows'
    BY <1>1 DEF EffectsInv, BurnerFollows
  <1>4. LeakFollows'
    BY <1>1 DEF EffectsInv, LeakFollows
  <1> QED
    BY <1>2, <1>3, <1>4 DEF EffectsInv

\* Nor is a fault joined by a thread that goes on or goes away.
LEMMA AloneKept ==
    ASSUME FaultsAlone,
           \A t \in Thread : thread'[t].pc # "free" =>
              /\ thread[t].pc # "free"
              /\ thread'[t].pod = thread[t].pod /\ thread'[t].op = thread[t].op
    PROVE  FaultsAlone'
  BY DEF FaultsAlone

\* update() and reset() under the lock.
LEMMA ChangeEffects ==
    ASSUME EffectsInv, Typed', NEW t \in Thread, ChangeState(t)
    PROVE  EffectsInv'
  <1> DEFINE p == thread[t].pod
             new == IF thread[t].op = "reset" THEN Default
                    ELSE Updated(state[p], thread[t].payload, thread[t].given)
             now == [pc |-> "burner", pod |-> p, op |-> thread[t].op,
                     previous |-> state[p], current |-> new]
  <1>1. /\ Typed /\ thread[t].pc = "received" /\ p \in Pod
        /\ thread[t].op \in {"reset", "fault"}
    BY ThreadFacts DEF ChangeState, EffectsInv
  <1>2. /\ thread[t].op = "reset" => new = Default
        /\ \A q \in Pod : state'[q] = IF q = p THEN new ELSE state[q]
        /\ \A s \in Thread : thread'[s] = IF s = t THEN now ELSE thread[s]
        /\ UNCHANGED <<burning, leaked>>
    BY <1>1 DEF ChangeState, Typed, TypeOK
  <1>3. /\ now.pc = "burner" /\ now.pod = p /\ now.op = thread[t].op
        /\ now.previous = state[p] /\ now.current = new
    OBVIOUS
  <1> HIDE DEF new, now
  <1>4. FaultsAlone'
    BY <1>1, <1>2, <1>3, AloneKept DEF EffectsInv
  \* Whoever else is on the Pod is a reset, after which nothing changes.
  <1>5. ASSUME NEW s \in Thread \ {t}, thread[s].pc \in {"burner", "leak"},
               thread[s].pod = p
        PROVE  /\ thread[t].op = "reset" /\ thread[s].op = "reset"
               /\ thread[s].current = Default /\ state[p] = Default
    <2>1. thread[t].op = "reset" /\ thread[s].op = "reset"
      BY <1>1, <1>5, ThreadFacts DEF EffectsInv, FaultsAlone
    <2> QED
      BY <1>5, <2>1 DEF EffectsInv, AppliesState
  <1>6. AppliesState'
    <2> SUFFICES ASSUME NEW s \in Thread, thread'[s].pc \in {"burner", "leak"}
                 PROVE  /\ thread'[s].current = state'[thread'[s].pod]
                        /\ thread'[s].op = "reset" => thread'[s].current = Default
      BY DEF AppliesState
    <2>1. CASE s = t
      BY <1>1, <1>2, <1>3, <2>1
    <2>2. CASE s # t /\ thread[s].pod = p
      BY <1>1, <1>2, <1>5, <2>2
    <2>3. CASE s # t /\ thread[s].pod # p
      BY <1>1, <1>2, <2>3, ThreadFacts DEF EffectsInv, AppliesState
    <2> QED
      BY <2>1, <2>2, <2>3
  <1>7. BurnerFollows'
    <2> SUFFICES ASSUME NEW q \in Pod, burning'[q] # state'[q].cpu_burn
                 PROVE  \E s \in Thread :
                          /\ thread'[s].pc = "burner" /\ thread'[s].pod = q
                          /\ thread'[s].current.cpu_burn
                                # thread'[s].previous.cpu_burn
      BY DEF BurnerFollows
    <2>1. CASE burning[q] # state[q].cpu_burn
      <3>1. PICK s \in Thread : /\ thread[s].pc = "burner" /\ thread[s].pod = q
                                /\ thread[s].current.cpu_burn
                                      # thread[s].previous.cpu_burn
        BY <2>1 DEF EffectsInv, BurnerFollows
      <3> QED
        BY <1>1, <1>2, <3>1
    <2>2. CASE burning[q] = state[q].cpu_burn
      BY <1>2, <1>3, <2>2
    <2> QED
      BY <2>1, <2>2
  <1>8. LeakFollows'
    <2> SUFFICES ASSUME NEW q \in Pod, leaked'[q] # state'[q].memory_leak_mb
                 PROVE  \E s \in Thread :
                          /\ thread'[s].pc \in {"burner", "leak"}
                          /\ thread'[s].pod = q
                          /\ thread'[s].current.memory_leak_mb
                                # thread'[s].previous.memory_leak_mb
      BY DEF LeakFollows
    <2>1. CASE leaked[q] # state[q].memory_leak_mb
      <3>1. PICK s \in Thread : /\ thread[s].pc \in {"burner", "leak"}
                                /\ thread[s].pod = q
                                /\ thread[s].current.memory_leak_mb
                                      # thread[s].previous.memory_leak_mb
        BY <2>1 DEF EffectsInv, LeakFollows
      <3> QED
        BY <1>1, <1>2, <3>1
    <2>2. CASE leaked[q] = state[q].memory_leak_mb
      BY <1>2, <1>3, <2>2
    <2> QED
      BY <2>1, <2>2
  <1> QED
    BY <1>4, <1>6, <1>7, <1>8 DEF EffectsInv

\* The burner converges.
LEMMA BurnerEffects ==
    ASSUME EffectsInv, Typed', NEW t \in Thread, ApplyBurner(t)
    PROVE  EffectsInv'
  <1> DEFINE p == thread[t].pod
  <1>1. /\ Typed /\ thread[t].pc = "burner" /\ p \in Pod /\ thread[t] \in Changed
        /\ thread[t].current = state[p]
    BY ThreadFacts DEF ApplyBurner, EffectsInv, AppliesState
  <1>2. /\ \A q \in Pod \ {p} : burning'[q] = burning[q]
        /\ burning'[p] = IF thread[t].current.cpu_burn # thread[t].previous.cpu_burn
                         THEN thread[t].current.cpu_burn ELSE burning[p]
        /\ \A s \in Thread \ {t} : thread'[s] = thread[s]
        /\ UNCHANGED <<state, leaked>>
    BY <1>1 DEF ApplyBurner, Typed, TypeOK
  <1>3. /\ thread'[t].pc = "leak" /\ thread'[t].pod = p
        /\ thread'[t].op = thread[t].op /\ thread'[t].current = thread[t].current
        /\ thread'[t].previous = thread[t].previous
    BY <1>1 DEF ApplyBurner, Typed, Changed
  <1> HIDE DEF p
  <1>4. FaultsAlone'
    BY <1>1, <1>2, <1>3, AloneKept DEF EffectsInv, p
  <1>5. AppliesState'
    BY <1>1, <1>2, <1>3 DEF EffectsInv, AppliesState, p
  <1>6. BurnerFollows'
    <2> SUFFICES ASSUME NEW q \in Pod, burning'[q] # state'[q].cpu_burn
                 PROVE  \E s \in Thread :
                          /\ thread'[s].pc = "burner" /\ thread'[s].pod = q
                          /\ thread'[s].current.cpu_burn
                                # thread'[s].previous.cpu_burn
      BY DEF BurnerFollows
    <2>1. burning[q] # state[q].cpu_burn
          /\ (q = p => thread[t].current.cpu_burn = thread[t].previous.cpu_burn)
      BY <1>1, <1>2
    <2>2. PICK s \in Thread : /\ thread[s].pc = "burner" /\ thread[s].pod = q
                              /\ thread[s].current.cpu_burn
                                    # thread[s].previous.cpu_burn
      BY <2>1 DEF EffectsInv, BurnerFollows
    <2>3. s # t
      BY <2>1, <2>2 DEF p
    <2> QED
      BY <1>2, <2>2, <2>3
  <1>7. LeakFollows'
    <2>1. \A s \in Thread : thread[s].pc \in {"burner", "leak"} =>
             /\ thread'[s].pc \in {"burner", "leak"}
             /\ thread'[s].pod = thread[s].pod
             /\ thread'[s].current = thread[s].current
             /\ thread'[s].previous = thread[s].previous
      BY <1>2, <1>3 DEF p
    <2> QED
      BY <1>2, <2>1 DEF EffectsInv, LeakFollows
  <1> QED
    BY <1>4, <1>5, <1>6, <1>7 DEF EffectsInv

\* The leak buffer converges.
LEMMA LeakEffects ==
    ASSUME EffectsInv, Typed', NEW t \in Thread, ApplyLeak(t)
    PROVE  EffectsInv'
  <1> DEFINE p == thread[t].pod
  <1>1. /\ Typed /\ thread[t].pc = "leak" /\ p \in Pod /\ thread[t] \in Changed
        /\ thread[t].current = state[p]
    BY ThreadFacts DEF ApplyLeak, EffectsInv, AppliesState
  <1>2. /\ \A q \in Pod \ {p} : leaked'[q] = leaked[q]
        /\ leaked'[p] = IF thread[t].current.memory_leak_mb
                              # thread[t].previous.memory_leak_mb
                        THEN thread[t].current.memory_leak_mb ELSE leaked[p]
        /\ \A s \in Thread \ {t} : thread'[s] = thread[s]
        /\ UNCHANGED <<state, burning>>
    BY <1>1 DEF ApplyLeak, Typed, TypeOK
  <1>3. /\ thread'[t].pc = "answered" /\ thread'[t].pod = p
        /\ thread'[t].op = thread[t].op
    BY <1>1 DEF ApplyLeak, Typed, Changed
  <1> HIDE DEF p
  <1>4. FaultsAlone'
    BY <1>1, <1>2, <1>3, AloneKept DEF EffectsInv, p
  <1>5. AppliesState'
    BY <1>2, <1>3 DEF EffectsInv, AppliesState
  <1>6. BurnerFollows'
    <2>1. \A s \in Thread : thread[s].pc = "burner" => thread'[s] = thread[s]
      BY <1>1, <1>2
    <2> QED
      BY <1>2, <2>1 DEF EffectsInv, BurnerFollows
  <1>7. LeakFollows'
    <2> SUFFICES ASSUME NEW q \in Pod, leaked'[q] # state'[q].memory_leak_mb
                 PROVE  \E s \in Thread :
                          /\ thread'[s].pc \in {"burner", "leak"}
                          /\ thread'[s].pod = q
                          /\ thread'[s].current.memory_leak_mb
                                # thread'[s].previous.memory_leak_mb
      BY DEF LeakFollows
    <2>1. leaked[q] # state[q].memory_leak_mb
          /\ (q = p => thread[t].current.memory_leak_mb
                          = thread[t].previous.memory_leak_mb)
      BY <1>1, <1>2
    <2>2. PICK s \in Thread : /\ thread[s].pc \in {"burner", "leak"}
                              /\ thread[s].pod = q
                              /\ thread[s].current.memory_leak_mb
                                    # thread[s].previous.memory_leak_mb
      BY <2>1 DEF EffectsInv, LeakFollows
    <2>3. s # t
      BY <2>1, <2>2 DEF p
    <2> QED
      BY <1>2, <2>2, <2>3
  <1> QED
    BY <1>4, <1>5, <1>6, <1>7 DEF EffectsInv

\* A Pod that is killed starts at rest.
LEMMA RestartEffects ==
    ASSUME EffectsInv, Typed', NEW p \in Pod, PodRestarts(p)
    PROVE  EffectsInv'
  <1>1. Typed /\ Free.pc = "free"
    BY DEF EffectsInv, Free
  <1>2. /\ \A q \in Pod \ {p} : /\ state'[q] = state[q]
                                /\ burning'[q] = burning[q] /\ leaked'[q] = leaked[q]
        /\ state'[p] = Default /\ burning'[p] = FALSE /\ leaked'[p] = 0
        /\ \A s \in Thread :
              /\ thread'[s].pc # "free" => thread'[s] = thread[s]
              /\ thread[s].pc # "free" /\ thread[s].pod # p => thread'[s] = thread[s]
              /\ thread'[s].pc # "free" => thread'[s].pod # p
    BY <1>1 DEF PodRestarts, Typed, TypeOK, InFlight
  <1>3. FaultsAlone'
    BY <1>2 DEF EffectsInv, FaultsAlone
  <1>4. AppliesState'
    BY <1>1, <1>2, ThreadFacts DEF EffectsInv, AppliesState
  <1>5. BurnerFollows'
    <2> SUFFICES ASSUME NEW q \in Pod, burning'[q] # state'[q].cpu_burn
                 PROVE  \E s \in Thread :
                          /\ thread'[s].pc = "burner" /\ thread'[s].pod = q
                          /\ thread'[s].current.cpu_burn
                                # thread'[s].previous.cpu_burn
      BY DEF BurnerFollows
    <2>1. q # p /\ burning[q] # state[q].cpu_burn
      BY <1>2, StateFacts
    <2>2. PICK s \in Thread : /\ thread[s].pc = "burner" /\ thread[s].pod = q
                              /\ thread[s].current.cpu_burn
                                    # thread[s].previous.cpu_burn
      BY <2>1 DEF EffectsInv, BurnerFollows
    <2> QED
      BY <1>2, <2>1, <2>2
  <1>6. LeakFollows'
    <2> SUFFICES ASSUME NEW q \in Pod, leaked'[q] # state'[q].memory_leak_mb
                 PROVE  \E s \in Thread :
                          /\ thread'[s].pc \in {"burner", "leak"}
                          /\ thread'[s].pod = q
                          /\ thread'[s].current.memory_leak_mb
                                # thread'[s].previous.memory_leak_mb
      BY DEF LeakFollows
    <2>1. q # p /\ leaked[q] # state[q].memory_leak_mb
      BY <1>2, StateFacts
    <2>2. PICK s \in Thread : /\ thread[s].pc \in {"burner", "leak"}
                              /\ thread[s].pod = q
                              /\ thread[s].current.memory_leak_mb
                                    # thread[s].previous.memory_leak_mb
      BY <2>1 DEF EffectsInv, LeakFollows
    <2> QED
      BY <1>2, <2>1, <2>2
  <1> QED
    BY <1>3, <1>4, <1>5, <1>6 DEF EffectsInv

\* Every step keeps the side effects in line, if faults come one at a time.
LEMMA EffectsStep ==
    ASSUME SerialFaults PROVE EffectsInv /\ [Next]_vars => EffectsInv'
  <1> SUFFICES ASSUME EffectsInv, [Next]_vars PROVE EffectsInv'
    OBVIOUS
  <1>1. Typed /\ Typed'
    BY TypedStep DEF EffectsInv
  <1>2. ASSUME UNCHANGED <<state, burning, leaked, thread>> PROVE EffectsInv'
    BY <1>1, <1>2, EffectsKept DEF EffectsInv, FaultsAlone
  <1>3. ASSUME NEW t \in Thread, NEW p \in Pod, InjectFault(t, p) PROVE EffectsInv'
    <2>1. /\ InFlight(p) = {} /\ thread[t].pc = "free"
          /\ UNCHANGED <<state, burning, leaked>>
      BY <1>3 DEF InjectFault
    <2>2. /\ thread'[t].pc = "received" /\ thread'[t].pod = p
          /\ \A s \in Thread \ {t} : thread'[s] = thread[s]
      BY <1>1, <1>3 DEF InjectFault, Typed
    <2>3. FaultsAlone'
      BY <2>1, <2>2 DEF EffectsInv, FaultsAlone, InFlight
    <2> QED
      BY <1>1, <2>1, <2>2, <2>3, EffectsKept
  <1>4. ASSUME NEW t \in Thread, DropAnswer(t) PROVE EffectsInv'
    <2>1. /\ thread[t].pc = "answered" /\ UNCHANGED <<state, burning, leaked>>
          /\ thread'[t].pc = "free"
          /\ \A s \in Thread \ {t} : thread'[s] = thread[s]
      BY <1>1, <1>4 DEF DropAnswer, Typed, podVars, Free
    <2>2. FaultsAlone'
      BY <2>1, AloneKept DEF EffectsInv
    <2> QED
      BY <1>1, <2>1, <2>2, EffectsKept
  <1>5. CASE SendReset
    <2>1. UNCHANGED <<state, burning, leaked>>
      BY <1>5 DEF SendReset
    <2>2. ASSUME NEW t \in Thread, NEW p \in Pod, thread[t].pc = "free",
                 \A s \in InFlight(p) : thread[s].op = "reset",
                 thread' = [thread EXCEPT ![t] =
                               [pc |-> "received", pod |-> p, op |-> "reset"]]
          PROVE  EffectsInv'
      <3>1. /\ thread'[t].pc = "received" /\ thread'[t].pod = p
            /\ thread'[t].op = "reset"
            /\ \A s \in Thread \ {t} : thread'[s] = thread[s]
        BY <1>1, <2>2 DEF Typed
      <3>2. FaultsAlone'
        BY <2>2, <3>1 DEF EffectsInv, FaultsAlone, InFlight
      <3> QED
        BY <1>1, <2>1, <2>2, <3>1, <3>2, EffectsKept
    <2> QED
      BY <1>2, <1>5, <2>1, <2>2 DEF SendReset
  <1>6. CASE ResetAnswered
    <2> DEFINE t == client.thread
    <2>1. /\ t \in Thread /\ thread[t].pc \in {"answered", "received"}
          /\ UNCHANGED <<state, burning, leaked>>
          /\ thread'[t].pc = "free"
          /\ \A s \in Thread \ {t} : thread'[s] = thread[s]
      BY <1>1, <1>6, ClientFacts DEF ResetAnswered, Typed, podVars, Free
    <2>2. FaultsAlone'
      BY <2>1, AloneKept DEF EffectsInv
    <2> QED
      BY <1>1, <2>1, <2>2, EffectsKept
  <1>7. ASSUME CallReset \/ ResetUnanswered \/ TakeOutcome \/ UNCHANGED vars
        PROVE  EffectsInv'
    BY <1>2, <1>7 DEF CallReset, ResetUnanswered, TakeOutcome, vars, podVars
  <1> QED
    BY <1>1, <1>2, <1>3, <1>4, <1>5, <1>6, <1>7, ChangeEffects, BurnerEffects,
       LeakEffects, RestartEffects
    DEF Next, Serve, ResetStep

\* Nothing is in flight at first, and every Pod is at rest.
LEMMA ChaosInit == Init => EffectsInv /\ RemedyInv
  <1> SUFFICES ASSUME Init PROVE EffectsInv /\ RemedyInv
    OBVIOUS
  <1>1. Typed
    <2>1. 0 \in Leak /\ 0 \in 0..MaxFaults /\ 0 \in 0..MaxRestarts
      BY ChaosAssumption
    <2> QED
      BY <2>1, StateFacts DEF Init, Typed, TypeOK, Client
  <1>2. \A t \in Thread : thread[t].pc = "free"
    BY DEF Init, Free
  <1>3. \A p \in Pod : /\ burning[p] = state[p].cpu_burn
                       /\ leaked[p] = state[p].memory_leak_mb
    BY StateFacts DEF Init
  <1>4. client.pc = "idle"
    BY DEF Init, NoClient
  <1> QED
    BY <1>1, <1>2, <1>3, <1>4
    DEF EffectsInv, FaultsAlone, AppliesState, BurnerFollows, LeakFollows,
        RemedyInv, FaultsMarked, WaitsForReset, ClearedIsDefault

-----------------------------------------------------------------------------
(***************************************************************************)
(* A success is a remedy.                                                  *)
(***************************************************************************)
\* Once a fault is on its way to a Pod, or a reset has been there, the state
\* of an unmarked Pod can only become the default.
LEMMA StateRests ==
    ASSUME RemedyInv, [Next]_vars, NEW p \in Pod, ~injected'[p]
    PROVE  state'[p] = state[p] \/ state'[p] = Default
  <1>1. Typed
    BY DEF RemedyInv
  <1>2. ASSUME NEW t \in Thread, ChangeState(t)
        PROVE  state'[p] = state[p] \/ state'[p] = Default
    <2>1. UNCHANGED injected /\ thread[t].pc = "received"
          /\ thread[t].op \in {"reset", "fault"} /\ thread[t].pod \in Pod
      BY <1>1, <1>2, ThreadFacts DEF ChangeState
    <2>2. CASE thread[t].op = "fault"
      <3>1. thread[t].pod # p
        BY <2>1, <2>2 DEF RemedyInv, FaultsMarked
      <3> QED
        BY <1>1, <1>2, <2>1, <3>1 DEF ChangeState, Typed, TypeOK
    <2>3. CASE thread[t].op = "reset"
      BY <1>1, <1>2, <2>1, <2>3 DEF ChangeState, Typed, TypeOK
    <2> QED
      BY <2>1, <2>2, <2>3
  <1>3. ASSUME NEW q \in Pod, PodRestarts(q)
        PROVE  state'[p] = state[p] \/ state'[p] = Default
    BY <1>1, <1>3 DEF PodRestarts, Typed, TypeOK
  <1> QED
    BY <1>2, <1>3
    DEF Next, Serve, ResetStep, InjectFault, ApplyBurner, ApplyLeak, DropAnswer,
        CallReset, SendReset, ResetAnswered, ResetUnanswered, TakeOutcome, vars,
        podVars

\* A mark goes with the Pod, or with a reset that finds no request on it.
LEMMA MarkGoes ==
    ASSUME Typed, [Next]_vars, NEW p \in Pod, injected[p], ~injected'[p]
    PROVE  \/ PodRestarts(p)
           \/ InFlight(p) = {} /\ SendReset /\ client'.pc = "waiting"
  <1>1. \A q \in Pod : PodRestarts(q) => q = p
    BY DEF PodRestarts, Typed, TypeOK
  <1>2. ASSUME SendReset PROVE InFlight(p) = {} /\ client'.pc = "waiting"
    <2>1. PICK t \in Thread, q \in Pod :
             /\ client' = [pc |-> "waiting", attempt |-> client.attempt,
                           thread |-> t, pod |-> q]
             /\ injected' = [injected EXCEPT ![q] = @ /\ InFlight(q) # {}]
      BY <1>2 DEF SendReset
    <2>2. p = q /\ ~(injected[p] /\ InFlight(p) # {})
      <3>1. p = q
        BY <2>1 DEF Typed, TypeOK
      <3>2. injected'[p] = (injected[p] /\ InFlight(p) # {})
        BY <2>1, <3>1 DEF Typed, TypeOK
      <3> QED
        BY <3>1, <3>2
    <2> QED
      BY <2>1, <2>2
  <1>3. \A t \in Thread : \A q \in Pod : ~InjectFault(t, q)
    BY DEF InjectFault, Typed, TypeOK
  <1> QED
    BY <1>1, <1>2, <1>3
    DEF Next, Serve, ResetStep, ChangeState, ApplyBurner, ApplyLeak, DropAnswer,
        CallReset, ResetAnswered, ResetUnanswered, TakeOutcome, vars, podVars

\* What a step makes of a thread: it leaves, it goes on, or it has just come.
LEMMA ThreadGoesOn ==
    ASSUME Typed, [Next]_vars, NEW t \in Thread
    PROVE  \/ thread'[t].pc = "free"
           \/ /\ thread[t].pc # "free" /\ thread'[t].pod = thread[t].pod
              /\ thread'[t].op = thread[t].op
              /\ \/ thread'[t].pc = thread[t].pc
                 \/ thread'[t].pc # "received" /\ thread[t].pc # "received"
                 \/ ChangeState(t)
           \/ /\ thread[t].pc = "free" /\ ~Waits(t) /\ thread'[t].pc = "received"
              /\ \/ thread'[t].op = "fault" /\ injected'[thread'[t].pod]
                 \/ /\ thread'[t].op = "reset" /\ SendReset
                    /\ client'.thread = t /\ client'.pod = thread'[t].pod
  <1> DEFINE P(s) ==
             \/ thread'[s].pc = "free"
             \/ /\ thread[s].pc # "free" /\ thread'[s].pod = thread[s].pod
                /\ thread'[s].op = thread[s].op
                /\ \/ thread'[s].pc = thread[s].pc
                   \/ thread'[s].pc # "received" /\ thread[s].pc # "received"
                   \/ ChangeState(s)
             \/ /\ thread[s].pc = "free" /\ ~Waits(s) /\ thread'[s].pc = "received"
                /\ \/ thread'[s].op = "fault" /\ injected'[thread'[s].pod]
                   \/ /\ thread'[s].op = "reset" /\ SendReset
                      /\ client'.thread = s /\ client'.pod = thread'[s].pod
  <1>1. ASSUME thread'[t] = thread[t] PROVE P(t)
    BY <1>1, ThreadFacts
  <1>2. ASSUME NEW p \in Pod, NEW s \in Thread, InjectFault(s, p) PROVE P(t)
    <2>1. CASE s = t
      <3>1. /\ thread'[t].pc = "received" /\ thread'[t].op = "fault"
            /\ thread'[t].pod = p /\ injected'[p] /\ ~Waits(t)
            /\ thread[t].pc = "free"
        BY <1>2, <2>1 DEF InjectFault, Typed, TypeOK
      <3> QED
        BY <3>1
    <2>2. CASE s # t
      BY <1>1, <1>2, <2>2 DEF InjectFault, Typed
    <2> QED
      BY <2>1, <2>2
  <1>3. ASSUME NEW s \in Thread, ChangeState(s) PROVE P(t)
    <2>1. CASE s = t
      <3>1. /\ thread'[t].pc = "burner" /\ thread'[t].op = thread[t].op
            /\ thread'[t].pod = thread[t].pod /\ thread[t].pc = "received"
        BY <1>3, <2>1 DEF ChangeState, Typed
      <3> QED
        BY <1>3, <2>1, <3>1
    <2>2. CASE s # t
      BY <1>1, <1>3, <2>2 DEF ChangeState, Typed
    <2> QED
      BY <2>1, <2>2
  <1>4. ASSUME NEW s \in Thread, ApplyBurner(s) \/ ApplyLeak(s) PROVE P(t)
    <2>1. CASE s = t
      <3>1. thread[t].pc \in {"burner", "leak"} /\ thread[t] \in Changed
        BY <1>4, <2>1, ThreadFacts DEF ApplyBurner, ApplyLeak
      <3>2. /\ thread'[t].pc \in {"leak", "answered"}
            /\ thread'[t].op = thread[t].op /\ thread'[t].pod = thread[t].pod
        BY <1>4, <2>1, <3>1 DEF ApplyBurner, ApplyLeak, Typed, Changed
      <3> QED
        BY <3>1, <3>2
    <2>2. CASE s # t
      BY <1>1, <1>4, <2>2 DEF ApplyBurner, ApplyLeak, Typed
    <2> QED
      BY <2>1, <2>2
  <1>5. ASSUME NEW s \in Thread, DropAnswer(s) PROVE P(t)
    BY <1>1, <1>5 DEF DropAnswer, Typed, Free
  <1>6. ASSUME NEW p \in Pod, PodRestarts(p) PROVE P(t)
    BY <1>1, <1>6 DEF PodRestarts, Free
  <1>7. ASSUME SendReset PROVE P(t)
    <2>1. CASE UNCHANGED thread
      BY <1>1, <2>1
    <2>2. ASSUME NEW s \in Thread, NEW p \in Pod, thread[s].pc = "free",
                 thread' = [thread EXCEPT ![s] =
                               [pc |-> "received", pod |-> p, op |-> "reset"]],
                 client' = [pc |-> "waiting", attempt |-> client.attempt,
                            thread |-> s, pod |-> p]
          PROVE P(t)
      <3>1. CASE s = t
        <4>1. /\ thread'[t].pc = "received" /\ thread'[t].op = "reset"
              /\ thread'[t].pod = p /\ client'.thread = t /\ client'.pod = p
          BY <2>2, <3>1 DEF Typed
        <4>2. ~Waits(t)
          BY <1>7 DEF SendReset, Waits
        <4> QED
          BY <1>7, <2>2, <3>1, <4>1, <4>2
      <3>2. CASE s # t
        BY <1>1, <2>2, <3>2 DEF Typed
      <3> QED
        BY <3>1, <3>2
    <2> QED
      BY <1>7, <2>1, <2>2 DEF SendReset
  <1>8. ASSUME ResetAnswered PROVE P(t)
    BY <1>1, <1>8 DEF ResetAnswered, Typed, Free
  <1>9. ASSUME CallReset \/ ResetUnanswered \/ TakeOutcome \/ UNCHANGED vars
        PROVE  P(t)
    BY <1>1, <1>9 DEF CallReset, ResetUnanswered, TakeOutcome, vars
  <1> QED
    BY <1>2, <1>3, <1>4, <1>5, <1>6, <1>7, <1>8, <1>9 DEF Next, Serve, ResetStep

\* A Pod that is at rest or becomes unmarked is at rest.
LEMMA RestsOn ==
    ASSUME RemedyInv, [Next]_vars, NEW p \in Pod, ~injected'[p],
           ~injected[p] => state[p] = Default
    PROVE  \/ state'[p] = Default
           \/ InFlight(p) = {} /\ SendReset /\ client'.pc = "waiting"
  <1>1. Typed
    BY DEF RemedyInv
  <1>2. PodRestarts(p) => state'[p] = Default
    BY <1>1 DEF PodRestarts, Typed, TypeOK
  <1> QED
    BY <1>1, <1>2, MarkGoes, StateRests

\* Every step keeps what is known about resets and the faults since.
LEMMA RemedyStep == RemedyInv /\ [Next]_vars => RemedyInv'
  <1> SUFFICES ASSUME RemedyInv, [Next]_vars PROVE RemedyInv'
    OBVIOUS
  <1>1. Typed /\ Typed'
    BY TypedStep DEF RemedyInv
  <1>2. FaultsMarked'
    <2> SUFFICES ASSUME NEW t \in Thread, thread'[t].pc # "free",
                        thread'[t].op = "fault", ~injected'[thread'[t].pod]
                 PROVE  FALSE
      BY DEF FaultsMarked
    <2> DEFINE p == thread'[t].pod
    <2>1. thread[t].pc # "free" /\ thread[t].pod = p /\ thread[t].op = "fault"
      BY <1>1, ThreadGoesOn
    <2>2. p \in Pod /\ injected[p] /\ t \in InFlight(p)
      BY <1>1, <2>1, ThreadFacts DEF RemedyInv, FaultsMarked, InFlight
    <2>3. ~PodRestarts(p)
      BY <2>2 DEF PodRestarts, Free
    <2> QED
      BY <1>1, <2>2, <2>3, MarkGoes
  <1>3. \/ UNCHANGED client
        \/ SendReset \/ ResetAnswered
        \/ client'.pc # "waiting" /\ ~(client'.pc = "done" /\ client'.outcome = "cleared")
    <2>1. ResetUnanswered => client'.pc # "waiting"
                             /\ ~(client'.pc = "done" /\ client'.outcome = "cleared")
      BY <1>1, FailedTyped DEF ResetUnanswered, Podless
    <2> QED
      BY <2>1 DEF Next, Serve, ResetStep, InjectFault, ChangeState, ApplyBurner,
                  ApplyLeak, DropAnswer, PodRestarts, CallReset, TakeOutcome,
                  NoClient, vars
  <1>4. WaitsForReset'
    <2> DEFINE t == client'.thread
               p == client'.pod
    <2> SUFFICES ASSUME client'.pc = "waiting", thread'[t].pc # "free"
                 PROVE  /\ thread'[t].op = "reset" /\ thread'[t].pod = p
                        /\ thread'[t].pc # "received" /\ ~injected'[p]
                              => state'[p] = Default
      BY DEF WaitsForReset
    <2>1. CASE UNCHANGED client
      <3>1. /\ client.pc = "waiting" /\ t \in Thread /\ p \in Pod /\ Waits(t)
            /\ t = client.thread /\ p = client.pod
        BY <1>1, <2>1, ClientFacts DEF Waits
      <3>2. /\ thread[t].pc # "free"
            /\ thread'[t].op = thread[t].op /\ thread'[t].pod = thread[t].pod
            /\ \/ thread'[t].pc = "received" \/ thread[t].pc # "received"
               \/ ChangeState(t)
        BY <1>1, <3>1, ThreadGoesOn
      <3>3. thread[t].op = "reset" /\ thread[t].pod = p /\ t \in InFlight(p)
        BY <3>1, <3>2 DEF RemedyInv, WaitsForReset, InFlight
      <3>4. ASSUME thread'[t].pc # "received", ~injected'[p] PROVE state'[p] = Default
        <4>1. CASE ChangeState(t)
          BY <1>1, <3>1, <3>3, <4>1 DEF ChangeState, Typed, TypeOK
        <4>2. CASE thread[t].pc # "received"
          <5>1. ~injected[p] => state[p] = Default
            BY <3>1, <3>2, <4>2 DEF RemedyInv, WaitsForReset
          <5> QED
            BY <3>1, <3>3, <3>4, <5>1, RestsOn
        <4> QED
          BY <3>2, <3>4, <4>1, <4>2
      <3> QED
        BY <3>2, <3>3, <3>4
    <2>2. CASE SendReset
      <3>1. client.pc = "calling"
        BY <2>2 DEF SendReset
      <3>2. ~(Failed /\ UNCHANGED <<thread, injected>>)
        BY <1>1, <3>1, FailedTyped
      <3>3. PICK s \in Thread, q \in Pod :
               /\ thread' = [thread EXCEPT ![s] =
                                [pc |-> "received", pod |-> q, op |-> "reset"]]
               /\ client' = [pc |-> "waiting", attempt |-> client.attempt,
                             thread |-> s, pod |-> q]
        BY <2>2, <3>2 DEF SendReset
      <3>4. t = s /\ p = q
        BY <3>3
      <3>5. /\ thread'[t].op = "reset" /\ thread'[t].pod = p
            /\ thread'[t].pc = "received"
        BY <1>1, <3>3, <3>4 DEF Typed
      <3> QED
        BY <3>5
    <2>3. CASE ResetAnswered
      BY <2>3 DEF ResetAnswered
    <2> QED
      BY <1>3, <2>1, <2>2, <2>3
  <1>5. ClearedIsDefault'
    <2> DEFINE p == client'.pod
    <2> SUFFICES ASSUME client'.pc = "done", client'.outcome = "cleared",
                        ~injected'[p]
                 PROVE  state'[p] = Default
      BY DEF ClearedIsDefault
    <2>1. CASE UNCHANGED client
      <3>1. p \in Pod /\ (~injected[p] => state[p] = Default)
        BY <1>1, <2>1, ClientFacts DEF RemedyInv, ClearedIsDefault, Podless
      <3> QED
        BY <3>1, RestsOn
    <2>2. CASE SendReset
      <3>1. Failed /\ client'.pc = "done" => client'.outcome # "cleared"
        BY <1>1, <2>2, FailedTyped DEF SendReset, Podless
      <3> QED
        BY <2>2, <3>1 DEF SendReset
    <2>3. CASE ResetAnswered
      <3>1. /\ client.pc = "waiting" /\ thread[client.thread].pc = "answered"
            /\ p = client.pod /\ UNCHANGED <<state, injected>>
        BY <2>3 DEF ResetAnswered, OutcomeOf, podVars
      <3> QED
        BY <3>1 DEF RemedyInv, WaitsForReset
    <2> QED
      BY <1>3, <2>1, <2>2, <2>3
  <1> QED
    BY <1>1, <1>2, <1>4, <1>5 DEF RemedyInv

-----------------------------------------------------------------------------
(***************************************************************************)
(* The theorems.                                                           *)
(***************************************************************************)
\* What resets leave behind, whatever faults overlap them.
LEMMA RemedyInvariant == Spec => []RemedyInv
  <1>1. Init => RemedyInv
    BY ChaosInit
  <1>2. RemedyInv /\ [Next]_vars => RemedyInv'
    BY RemedyStep
  <1> QED
    BY <1>1, <1>2, PTL DEF Spec

\* The side effects while the operator's faults overlap no other request.
LEMMA EffectsInvariant == ASSUME SerialFaults PROVE Spec => []EffectsInv
  <1>1. Init => EffectsInv
    BY ChaosInit
  <1>2. EffectsInv /\ [Next]_vars => EffectsInv'
    BY EffectsStep
  <1> QED
    BY <1>1, <1>2, PTL DEF Spec

(***************************************************************************)
(* Every variable keeps its type, and faults and restarts their bounds.    *)
(***************************************************************************)
THEOREM ChaosTyped == Spec => []TypeOK
  <1>1. RemedyInv => TypeOK
    BY DEF RemedyInv, Typed
  <1> QED
    BY <1>1, RemedyInvariant, PTL

(***************************************************************************)
(* state.py, _apply_side_effects outside the lock: however many resets and *)
(* abandoned retries of resets overlap on a Pod, once the last is over its *)
(* burner and its leak buffer are what the state says.                     *)
(***************************************************************************)
THEOREM SideEffectsConverge == ASSUME SerialFaults PROVE Spec => []EffectsConverge
  <1>1. EffectsInv => EffectsConverge
    <2> SUFFICES ASSUME EffectsInv, NEW p \in Pod, InFlight(p) = {}
                 PROVE  /\ burning[p] = state[p].cpu_burn
                        /\ leaked[p] = state[p].memory_leak_mb
      BY DEF EffectsConverge, Quiet
    <2>1. \A t \in Thread : thread[t].pc \in {"burner", "leak"} => thread[t].pod # p
      BY DEF InFlight
    <2> QED
      BY <2>1 DEF EffectsInv, BurnerFollows, LeakFollows
  <1> QED
    BY <1>1, EffectsInvariant, PTL

(***************************************************************************)
(* chaos_client.py, reset: when it reports success, the Pod that answered  *)
(* carries no fault, whichever attempt was answered and whatever threads   *)
(* the timed-out attempts have left, unless a fault was injected since.    *)
(***************************************************************************)
THEOREM SuccessRemedies == ASSUME SerialFaults PROVE Spec => []SuccessIsRemedy
  <1>1. EffectsInv /\ RemedyInv => SuccessIsRemedy
    <2> SUFFICES ASSUME EffectsInv, RemedyInv, client.pc = "done",
                        client.outcome = "cleared", ~injected[client.pod],
                        InFlight(client.pod) = {}
                 PROVE  /\ state[client.pod] = Default
                        /\ ~burning[client.pod] /\ leaked[client.pod] = 0
      BY DEF SuccessIsRemedy, Quiet
    <2>1. client.pod \in Pod /\ state[client.pod] = Default
      BY ClientFacts DEF RemedyInv, ClearedIsDefault, Podless
    <2>2. \A t \in Thread : thread[t].pc \in {"burner", "leak"} =>
                               thread[t].pod # client.pod
      BY DEF InFlight
    <2>3. /\ burning[client.pod] = state[client.pod].cpu_burn
          /\ leaked[client.pod] = state[client.pod].memory_leak_mb
      BY <2>1, <2>2 DEF EffectsInv, BurnerFollows, LeakFollows
    <2> QED
      BY <2>1, <2>3, StateFacts
  <1> QED
    BY <1>1, EffectsInvariant, RemedyInvariant, PTL

(***************************************************************************)
(* And with faults that overlap resets: a reset that reports success has   *)
(* at least put the state, and so the gauges, of the Pod that answered     *)
(* back to the default, unless a fault was injected since.                 *)
(***************************************************************************)
THEOREM SuccessIsSeen == Spec => []ClearedIsDefault
  <1>1. RemedyInv => ClearedIsDefault
    BY DEF RemedyInv
  <1> QED
    BY <1>1, RemedyInvariant, PTL
=============================================================================
