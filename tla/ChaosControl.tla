----------------------------- MODULE ChaosControl -----------------------------
(***************************************************************************)
(* The faults Sentinel is demonstrated on and the remedy it applies to     *)
(* them: chaos/state.py and routers/chaos.py of the citizen and the        *)
(* notification service (one ChaosController per Pod, in memory) and       *)
(* app/clients/chaos_client.py, which resets one through the Service.      *)
(*                                                                         *)
(* Every endpoint is a plain def, so each request is a thread: it changes  *)
(* the state under the lock, then applies the side effects outside it, the *)
(* CPU burner first and the leak buffer second, each converging under a    *)
(* lock of its own.  A client that times out goes on without the thread.   *)
(***************************************************************************)
EXTENDS Naturals, FiniteSets

CONSTANTS
    Pod,           \* the replicas behind the Service
    Leak,          \* sizes of memory_leak_mb, 0 among them
    SoftDefault,   \* notification_failure_rate is configured above 0
    Thread,        \* bound: requests in flight at once
    MaxAttempts,   \* reset_max_attempts
    SerialFaults,  \* the operator's requests overlap no other: side effects
                   \* are applied outside the lock, and may end up swapped
    MaxFaults,     \* bound: faults injected
    MaxRestarts    \* bound: Pods killed

ASSUME ChaosAssumption ==
    /\ 0 \in Leak /\ Leak \subseteq Nat
    /\ SoftDefault \in BOOLEAN /\ SerialFaults \in BOOLEAN
    /\ MaxAttempts \in Nat \ {0}
    /\ MaxFaults \in Nat /\ MaxRestarts \in Nat

VARIABLES
    state,     \* state[p]: ChaosController._state, and the chaos_* gauges
    burning,   \* burning[p]: the CPU burner's event is set
    leaked,    \* leaked[p]: what the leak buffer retains
    thread,    \* thread[t]: a request in flight
    client,    \* Sentinel's ChaosClient.reset
    injected,  \* injected[p]: a fault came after the last reset that found p at rest
    faults,    \* faults injected so far
    restarts   \* Pods killed so far

podVars   == <<state, burning, leaked, injected>>
worldVars == <<faults, restarts>>
vars      == <<podVars, thread, client, worldVars>>

-----------------------------------------------------------------------------
(***************************************************************************)
(* soft stands for the faults that are nothing but state: latency, error   *)
(* rate, database failure and notification failure.                        *)
(***************************************************************************)
ChaosState == [soft : BOOLEAN, cpu_burn : BOOLEAN, memory_leak_mb : Leak]

NoFault == [soft |-> FALSE, cpu_burn |-> FALSE, memory_leak_mb |-> 0]

\* A controller's first state and the state of reset(): the notification
\* service goes back to its configured failure rate.
Default == [NoFault EXCEPT !.soft = SoftDefault]

\* Only what the payload gives is kept.
Updated_Sparse(old, new, given) == [f \in given |-> new[f]]

\* The fields of a POST /fault that are not given keep their value.
Updated(old, new, given) ==
    [f \in DOMAIN old |-> IF f \in given THEN new[f] ELSE old[f]]

Free == [pc |-> "free"]

Waits(t) == client.pc = "waiting" /\ client.thread = t

InFlight(p) == {t \in Thread : thread[t].pc # "free" /\ thread[t].pod = p}

NoClient == [pc |-> "idle"]

-----------------------------------------------------------------------------
\* POST /fault by the operator, through the Service or straight to a Pod.
InjectFault(t, p) ==
    /\ thread[t].pc = "free" /\ ~Waits(t)
    /\ faults < MaxFaults
    /\ SerialFaults => InFlight(p) = {}
    /\ faults' = faults + 1
    /\ injected' = [injected EXCEPT ![p] = TRUE]
    /\ \E payload \in ChaosState, given \in SUBSET DOMAIN NoFault :
          /\ given # {}
          /\ thread' = [thread EXCEPT ![t] =
                [pc |-> "received", pod |-> p, op |-> "fault",
                 payload |-> payload, given |-> given]]
    /\ UNCHANGED <<state, burning, leaked, client, restarts>>

(***************************************************************************)
(* update() and reset(): the new state replaces the old one under _lock,   *)
(* and the thread keeps both for the side effects it applies afterwards.   *)
(***************************************************************************)
ChangeState(t) ==
    /\ thread[t].pc = "received"
    /\ LET p   == thread[t].pod
           new == IF thread[t].op = "reset" THEN Default
                  ELSE Updated(state[p], thread[t].payload, thread[t].given)
       IN  /\ state' = [state EXCEPT ![p] = new]
           /\ thread' = [thread EXCEPT ![t] =
                 [pc |-> "burner", pod |-> p, op |-> thread[t].op,
                  previous |-> state[p], current |-> new]]
    /\ UNCHANGED <<burning, leaked, injected, client, worldVars>>

\* The event is only ever set, as if parking the worker were enough.
ApplyBurner_SetOnly(t) ==
    /\ thread[t].pc = "burner"
    /\ LET p == thread[t].pod
       IN  burning' = [burning EXCEPT ![p] = @ \/ thread[t].current.cpu_burn]
    /\ thread' = [thread EXCEPT ![t].pc = "leak"]
    /\ UNCHANGED <<state, leaked, injected, client, worldVars>>

\* _apply_side_effects, first half: only a change reaches the burner.
ApplyBurner(t) ==
    /\ thread[t].pc = "burner"
    /\ LET p == thread[t].pod
       IN  burning' = [burning EXCEPT ![p] =
              IF thread[t].current.cpu_burn # thread[t].previous.cpu_burn
              THEN thread[t].current.cpu_burn ELSE @]
    /\ thread' = [thread EXCEPT ![t].pc = "leak"]
    /\ UNCHANGED <<state, leaked, injected, client, worldVars>>

\* Second half: the buffer is resized, under its lock, to the new target.
ApplyLeak(t) ==
    /\ thread[t].pc = "leak"
    /\ LET p == thread[t].pod
       IN  leaked' = [leaked EXCEPT ![p] =
              IF thread[t].current.memory_leak_mb
                    # thread[t].previous.memory_leak_mb
              THEN thread[t].current.memory_leak_mb ELSE @]
    /\ thread' = [thread EXCEPT ![t].pc = "answered"]
    /\ UNCHANGED <<state, burning, injected, client, worldVars>>

\* An answer nobody waits for any more is dropped.
DropAnswer(t) ==
    /\ thread[t].pc = "answered" /\ ~Waits(t)
    /\ thread' = [thread EXCEPT ![t] = Free]
    /\ UNCHANGED <<podVars, client, worldVars>>

(***************************************************************************)
(* The Pod is killed (a rollout, or the leak hit the memory limit): its    *)
(* state, its threads and its effects are gone, and callers get an error.  *)
(***************************************************************************)
PodRestarts(p) ==
    /\ restarts < MaxRestarts
    /\ restarts' = restarts + 1
    /\ state' = [state EXCEPT ![p] = Default]
    /\ burning' = [burning EXCEPT ![p] = FALSE]
    /\ leaked' = [leaked EXCEPT ![p] = 0]
    /\ injected' = [injected EXCEPT ![p] = FALSE]
    /\ thread' = [t \in Thread |-> IF t \in InFlight(p) THEN Free ELSE thread[t]]
    /\ UNCHANGED <<client, faults>>

-----------------------------------------------------------------------------
(***************************************************************************)
(* ChaosClient.reset: up to MaxAttempts tries, because transport errors    *)
(* are transient; any answer ends it.  A client without a token sends      *)
(* nothing.                                                                *)
(***************************************************************************)
CallReset ==
    /\ client.pc = "idle"
    /\ client' \in {[pc |-> "calling", attempt |-> 1],
                    [pc |-> "done", outcome |-> "failed"]}
    /\ UNCHANGED <<podVars, thread, worldVars>>

\* One more attempt is always made.
Failed_Forever == client' = [client EXCEPT !.pc = "calling"]

\* A transport error: back off and try again, or give up as transient.  Any
\* other error of the HTTP library ends it at once.
Failed ==
    \/ client' = IF client.attempt < MaxAttempts
                 THEN [pc |-> "calling", attempt |-> client.attempt + 1]
                 ELSE [pc |-> "done", outcome |-> "transient"]
    \/ client' = [pc |-> "done", outcome |-> "failed"]

\* kube-proxy picks a Pod, or the connection fails.
SendReset ==
    /\ client.pc = "calling"
    /\ \/ /\ Failed
          /\ UNCHANGED <<thread, injected>>
       \/ \E t \in Thread, p \in Pod :
             /\ thread[t].pc = "free"
             /\ SerialFaults => \A s \in InFlight(p) : thread[s].op = "reset"
             /\ thread' = [thread EXCEPT ![t] =
                   [pc |-> "received", pod |-> p, op |-> "reset"]]
             /\ client' = [pc |-> "waiting", attempt |-> client.attempt,
                           thread |-> t, pod |-> p]
             /\ injected' = [injected EXCEPT ![p] = @ /\ InFlight(p) # {}]
    /\ UNCHANGED <<state, burning, leaked, worldVars>>

\* Whatever the status, the reset counts as accepted.
OutcomeOf_AnyStatus(status) == "cleared"

\* 200 is a success; 404 (token, CHAOS_MODE, route) and others are not.
OutcomeOf(status) == IF status = 200 THEN "cleared" ELSE "rejected"

ResetAnswered ==
    /\ client.pc = "waiting"
    /\ \/ /\ thread[client.thread].pc = "answered"
          /\ client' = [pc |-> "done", outcome |-> OutcomeOf(200),
                        pod |-> client.pod]
       \/ /\ thread[client.thread].pc = "received"
          /\ client' = [pc |-> "done", outcome |-> OutcomeOf(404),
                        pod |-> client.pod]
    /\ thread' = [thread EXCEPT ![client.thread] = Free]
    /\ UNCHANGED <<podVars, worldVars>>

\* A read timeout, the Pod died, or an answer that cannot be decoded: the
\* thread, if any, carries on.
ResetUnanswered ==
    /\ client.pc = "waiting"
    /\ Failed
    /\ UNCHANGED <<podVars, thread, worldVars>>

\* The orchestrator has its outcome and may ask for another reset later.
TakeOutcome ==
    /\ client.pc = "done"
    /\ client' = NoClient
    /\ UNCHANGED <<podVars, thread, worldVars>>

-----------------------------------------------------------------------------
Init ==
    /\ state = [p \in Pod |-> Default]
    /\ burning = [p \in Pod |-> FALSE]
    /\ leaked = [p \in Pod |-> 0]
    /\ thread = [t \in Thread |-> Free]
    /\ client = NoClient
    /\ injected = [p \in Pod |-> FALSE]
    /\ faults = 0
    /\ restarts = 0

Serve(t) == ChangeState(t) \/ ApplyBurner(t) \/ ApplyLeak(t) \/ DropAnswer(t)

ResetStep == SendReset \/ ResetAnswered \/ ResetUnanswered

Next ==
    \/ \E t \in Thread : Serve(t) \/ \E p \in Pod : InjectFault(t, p)
    \/ \E p \in Pod : PodRestarts(p)
    \/ CallReset \/ ResetStep \/ TakeOutcome

Spec == Init /\ [][Next]_vars

(***************************************************************************)
(* Threads run, and a call to reset is bounded by its timeout.  Nothing is *)
(* assumed of the operator, of Sentinel's wish to reset or of restarts.    *)
(***************************************************************************)
FairSpec == Spec /\ (\A t \in Thread : WF_vars(Serve(t))) /\ WF_vars(ResetStep)

-----------------------------------------------------------------------------
TypeOK ==
    /\ state \in [Pod -> ChaosState]
    /\ burning \in [Pod -> BOOLEAN]
    /\ leaked \in [Pod -> Leak]
    /\ injected \in [Pod -> BOOLEAN]
    /\ faults \in 0..MaxFaults
    /\ restarts \in 0..MaxRestarts

Quiet(p) == InFlight(p) = {}

(***************************************************************************)
(* The side effects converge: when the last request on a Pod is over, the  *)
(* burner and the buffer are what the state and its gauges say, although   *)
(* effects are applied outside the lock and resets overlap their retries   *)
(* (state.py, "Reset must be a genuine remediation, not just a metrics     *)
(* change").                                                               *)
(***************************************************************************)
EffectsConverge ==
    \A p \in Pod : Quiet(p) => /\ burning[p] = state[p].cpu_burn
                               /\ leaked[p] = state[p].memory_leak_mb

(***************************************************************************)
(* A success is a remedy: when reset reports success, the Pod that         *)
(* answered carries no fault, unless a new one was injected since or other *)
(* requests are still being applied.                                       *)
(***************************************************************************)
SuccessIsRemedy ==
    /\ client.pc = "done"
    /\ client.outcome = "cleared"
    /\ ~injected[client.pod] /\ Quiet(client.pod)
    => /\ state[client.pod] = Default
       /\ ~burning[client.pod] /\ leaked[client.pod] = 0

\* Every call of reset comes back, with whatever the network does.
ResetReturns == client.pc \in {"calling", "waiting"} ~> client.pc = "done"
=============================================================================
