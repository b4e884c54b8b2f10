--------------------------- MODULE IncidentRecords ---------------------------
(***************************************************************************)
(* The incident record (app/models/incident.py, class Incident): the value *)
(* the store keeps one row of, a lifecycle mutates in memory, and every    *)
(* writer saves WHOLE.  Only the fields the engine branches on are kept.   *)
(*                                                                         *)
(* An incident is identified by its problem (the stable fingerprint of     *)
(* detection.py) and its occurrence number: Incident.occurrence is 1 for   *)
(* the first incident of a problem and previous + 1 for each recurrence.   *)
(***************************************************************************)
EXTENDS Naturals, FiniteSets

CONSTANTS
    Problem,         \* incident identities (fingerprints)
    Deployment,      \* remediation targets "namespace/deployment"
    TargetOf,        \* TargetOf[p]: the Deployment problem p is about
    MaxOccurrences,  \* bound: occurrences of one problem
    Action,          \* the remediation actions of the ladder
    Proposal,        \* bound: deep proposals one incident can ever hold
    Cap,             \* max_actions_per_incident
    MaxReopens,      \* max_incident_reopens
    DeepBudget       \* deep_investigation_max_per_incident

ASSUME RecordAssumption ==
    /\ TargetOf \in [Problem -> Deployment]
    /\ MaxOccurrences \in Nat
    /\ Cap \in Nat
    /\ MaxReopens \in Nat
    /\ DeepBudget \in Nat

Incident == Problem \X (1..MaxOccurrences)

Target(i) == TargetOf[i[1]]

-----------------------------------------------------------------------------
ActiveStatus == {"open", "investigating", "remediating", "validating"}
ClosedStatus == {"resolved", "auto_resolved"}
Status       == ActiveStatus \cup ClosedStatus \cup {"escalated"}

\* The escalation reasons this code produces ("" is Python's None).
EscalationReason ==
    {"no_safe_action", "action_cap_reached", "validation_failed",
     "remediation_error", "internal_error", "lifecycle_timeout",
     "interrupted_by_restart"}
AutoReconsiderable == {"no_safe_action"}

ProposalStatus ==
    {"none", "suggested", "executing", "executed", "validated", "failed",
     "rejected"}

(***************************************************************************)
(* status .. proposals of the record.  "absent" is a row that does not     *)
(* exist yet.  count is Incident.action_count: attempts with a result.     *)
(* tried is the set of actions among them, stamp the start of the newest   *)
(* one (0: none) on the clock of its target.  diagnosed: the record holds  *)
(* evidence and a hypothesis.  resumed: its timeline has an entry marked   *)
(* resumed_after_restart.  digs is deep_investigation_count, counted up to *)
(* DeepBudget + 1 (a bound: nothing tells larger counts apart); digging is *)
(* deep_investigation_running.                                             *)
(***************************************************************************)
Record ==
    [status    : Status \cup {"absent"},
     reason    : EscalationReason \cup {""},
     count     : Nat,
     tried     : SUBSET Action,
     stamp     : Nat,
     reopens   : Nat,
     diagnosed : BOOLEAN,
     resumed   : BOOLEAN,
     digs      : Nat,
     digging   : BOOLEAN,
     proposals : [Proposal -> ProposalStatus]]

Blank(status) ==
    [status |-> status, reason |-> "", count |-> 0, tried |-> {}, stamp |-> 0,
     reopens |-> 0, diagnosed |-> FALSE, resumed |-> FALSE, digs |-> 0,
     digging |-> FALSE, proposals |-> [p \in Proposal |-> "none"]]

Absent      == Blank("absent")
NewIncident == Blank("open")          \* detection.build_incident

IsActive(rec) == rec.status \in ActiveStatus

\* IncidentStatus.is_terminal, which counts escalated incidents too.
IsClosed_Terminal(rec) == rec.status \in ClosedStatus \cup {"escalated"}

IsClosed(rec) == rec.status \in ClosedStatus

\* An attempt gets its result: the action counts, for the cap, for the
\* "already attempted" filter and for other incidents' freshness check.
WithResult(rec, action, at) ==
    [rec EXCEPT !.count = @ + 1, !.tried = @ \cup {action}, !.stamp = at]

\* Orchestrator._escalate and IncidentManager._interrupt.
Escalate(rec, reason) == [rec EXCEPT !.status = "escalated", !.reason = reason]

\* The reopening half of Orchestrator.reconsider.
Reopen(rec) == [rec EXCEPT !.status = "investigating", !.reason = ""]
=============================================================================
