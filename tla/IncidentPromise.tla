--------------------------- MODULE IncidentPromise ---------------------------
(***************************************************************************)
(* What Sentinel promises about incidents, with nothing said of tasks,     *)
(* leases, records or locks (docs/incident-engine.md, sections 3 to 6):    *)
(* an incident is worked on, waits for a human, or is closed; what was     *)
(* done on its behalf is bounded, and once anything was done only a human  *)
(* has it worked on again.                                                 *)
(***************************************************************************)
EXTENDS Naturals

CONSTANTS
    Problem,         \* incident identities
    MaxOccurrences,  \* bound: occurrences of one problem
    Cap              \* max_actions_per_incident

Incident == Problem \X (1..MaxOccurrences)

VARIABLES
    phase,   \* phase[i]: "absent", "working", "waiting" or "closed"
    tries    \* tries[i]: actions started on behalf of i

vars == <<phase, tries>>

Move(i, from, to) == /\ phase[i] = from
                     /\ phase' = [phase EXCEPT ![i] = to]

Init == /\ phase = [i \in Incident |-> "absent"]
        /\ tries = [i \in Incident |-> 0]

\* The first incident of a problem, or the next once the last is closed.
Open(i) == /\ i[2] = 1 \/ phase[<<i[1], i[2] - 1>>] = "closed"
           /\ Move(i, "absent", "working")
           /\ UNCHANGED tries

Act(i) == /\ phase[i] = "working"
          /\ tries[i] < Cap
          /\ tries' = [tries EXCEPT ![i] = @ + 1]
          /\ UNCHANGED phase

\* Solved by an action that was validated.
Solve(i) == /\ tries[i] > 0
            /\ Move(i, "working", "closed")
            /\ UNCHANGED tries

GiveUp(i) == Move(i, "working", "waiting") /\ UNCHANGED tries

Recover(i) == Move(i, "waiting", "closed") /\ UNCHANGED tries

\* Automatically only while nothing has been done about it.
Reconsider(i) == /\ tries[i] = 0
                 /\ Move(i, "waiting", "working")
                 /\ UNCHANGED tries

\* Work that has touched the cluster is never taken up again.
Restart ==
    \E lost \in SUBSET {i \in Incident : phase[i] = "working"} :
        /\ \A i \in Incident :
              phase[i] = "working" /\ tries[i] > 0 => i \in lost
        /\ phase' = [i \in Incident |->
                        IF i \in lost THEN "waiting" ELSE phase[i]]
        /\ UNCHANGED tries

Next == \/ Restart
        \/ \E i \in Incident :
              \/ Open(i) \/ Act(i) \/ Solve(i) \/ GiveUp(i)
              \/ Recover(i) \/ Reconsider(i)

Spec == Init /\ [][Next]_vars
=============================================================================
